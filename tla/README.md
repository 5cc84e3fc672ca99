# Defnex MLOps in TLA+

This directory specifies the concurrent core of the Defnex MLOps back end
(`src/ml-close-loop-be/app`): how a dataset file becomes something that may be
trained on, how a training run becomes a model version with an artifact, how a
version is evaluated, decided and put into production, which adapter serves it, and
who owns the GPU meanwhile. The modules are checked with TLC on small instances, and
nearly all of their safety properties are proved with TLAPS for every size.

All source paths below are relative to `src/ml-close-loop-be/app` unless they
start with `src/`.

## 1. The system

A FastAPI process serves the API; each synchronous endpoint runs in a thread pool
with a database session of its own (`db/session.py`). Worker processes poll the
same PostgreSQL database. A vLLM server generates with LoRA adapters that are
loaded and unloaded at run time. Four things are shared: the **database**, the
**GPU lock** (a `flock`, `workers/gpu_lock.py`), the **vLLM server** and the
**artifact store** (a directory or a bucket).

| Part | State it keeps | Operations | Interacts with |
|---|---|---|---|
| Registry and ladder (`services/promotion_service.py`, `api/promotion.py`) | `model_versions.status`, `promotion_decisions` | decide, stage, validate, promote, roll back | deploy path, audit |
| Deploy path (`services/deployment_service.py`, `api/deployment.py`) | `deployments`, the one DEPLOYED row | deploy, roll back a deployment, resolve `prod` | GPU lock, vLLM, artifacts |
| Serving backend (`services/serving.py`, `services/http_retry.py`) | resident adapters per vLLM host | load, unload, generate | vLLM over HTTP |
| Training queue (`services/training_service.py`, `api/training.py`) | `training_runs` | create, retry, claim, heartbeat, mark stale, complete, fail | workers |
| Training worker (`workers/training_worker.py`) | one transaction per poll, heartbeat thread | process one job | GPU lock, providers, serving handoff |
| Providers and runners (`providers/training_provider.py`, `workers/unsloth_runner.py`) | subprocesses, remote jobs | submit, poll, collect | training script, SSH, Colab |
| Versions and artifacts (`services/model_service.py`, `services/artifact_storage.py`) | version numbers, immutable directories, checksums | allocate, register, finalize, verify | training worker, deploys |
| GPU handoff (`workers/gpu_orchestrator.py`) | request and response files, vLLM process | stop, verify VRAM, restart | training worker, host controller |
| Evaluation and drift (`services/evaluation_engine.py`, `services/drift_check_service.py`, their workers) | signals and pending request of a version, drift checks | trigger, claim, load, generate, unload, apply | vLLM, registry |
| Datasets (`api/intake.py`, `api/intake_validate.py`, `services/dataset_storage.py`, `validation_service.py`, `dataset_pinning.py`, ...) | staging directories, objects, dataset versions, validation reports, pins | inspect, validate, commit, pin, resolve | training |
| Feedback and evaluation sets (`services/feedback_service.py`, `eval_set_service.py`) | feedback, evaluation sets | submit, curate, cite, version | datasets, evaluation |
| Idempotency (`services/idempotency_service.py`) | keys with stored responses | look up, store, expire | endpoints |
| Accounts (`services/auth_service.py`, `api/auth.py`, `api/users.py`) | users, used tokens, revoked families | register, log in, rotate, log out, delete | endpoints |
| Artifact transfer, compute resources, lineage, audit, notifications, alerting, HTTP shell, front end | rows of their own, or none | create, read | everything |

**What is hard.** Nothing here takes `SELECT ... FOR UPDATE`; correctness rests on
unique indexes, on compare-and-set updates, on the GPU lock and on objects that are
written once:

* a handler reads a status, waits up to 300 s for the GPU lock, then writes without
  looking again;
* the GPU lock is released when the service function returns, and the *commit* comes
  later, in the router or in `run_forever`;
* adapter calls, artifact directories and dataset objects are not part of any
  transaction, so a crash, a lost answer or a lost race leaves them behind;
* a worker that looks dead may be alive, and its run is given to another one;
* the detector of stale runs keeps row locks while it waits for the GPU lock, whose
  owner waits for those rows;
* one request file and one response file carry every exchange with the GPU host;
* evaluations use the vLLM server without the GPU lock;
* a client names a staging directory and a report separately, in any pair.

**What makes each part correct.**

* Registry and deploy path: one production version at most; the pointer moves in one
  step and onto an adapter that can generate; every status is explained by the history.
* Training queue: a run ends once; a completed run has exactly one version, under the
  next number; every queued run ends.
* Artifacts: a version holds what its training produced, and nothing else is served.
* GPU handoff: training and serving never use the GPU together; serving comes back.
* Evaluation: a decision has all of its evidence, a trigger is evaluated once, and the
  production adapter is never taken away.
* Datasets: what is committed and what is trained on was examined by a report of that
  very version, and accepted bytes are not lost.
* Idempotency: one key, one answer. Sessions: a refresh token has one successor, and a
  revoked family ends.

`PROJECT.json` lists every component with its status, and every hazard at its line.

## 2. Modules

| Module | Content |
|---|---|
| `Registry` | registry, ladder, deploy path, vLLM hosts, GPU lock; the properties of this part |
| `PointerHistory` | abstract specification: a pointer, the versions retired from it, an append-only history |
| `RegistryFlow` | two flows through `Registry`, with and without the ladder, that restrict which requests arrive |
| `MCRegistry`, `MCRegistryLive` | small instances of `Registry` and `RegistryFlow` |
| `RegistryProofs` | safety of the registry, pointer moves onto resident adapters, refinement of `PointerHistory`, what is resident in the flow without the ladder |
| `TrainingQueue` | training runs, workers, registration of versions |
| `TrainingLedger` | abstract specification: runs end once, versions are numbered |
| `TrainingQueueProofs`, `TrainingLedgerProofs` | safety of the queue; refinement of `TrainingLedger` |
| `Artifacts` | version directories written file by file, checksums, verification before a deploy |
| `ArtifactsProofs` | what is registered and served is what was trained |
| `MCTraining` | small instances of `TrainingQueue`, `Artifacts` and `GpuHandoff` |
| `GpuHandoff` | the serving cycle, the files between worker and host, SIGTERM and kills |
| `MCGpuHandoff`, `GpuHandoffProofs` | small instance with every SIGTERM; exclusion for every size |
| `Evaluation` | triggers, evaluation workers, drift check, the deploys they run beside |
| `MCEvaluation`, `EvaluationProofs` | small instance; its safety for every size |
| `Datasets` | staging, validation, commit, feedback, evaluation sets, pins, training |
| `MCDatasets`, `DatasetsProofs` | small instances; its six safety properties for every size |
| `Accounts` | accounts and refresh token families |
| `Sessions` | abstract specification: one live token per session, which a refresh replaces |
| `Idempotency` | stored responses |
| `MCRequests`, `RequestsProofs` | one small instance of both; refinement of `Sessions`, their safety for every size |

`Registry` and `TrainingQueue` model a database transaction in the same way. `status` is
what is committed. A transaction keeps what it has flushed in `writes[r]`; that blocks
the same rows for the others (`RowFree`: a PostgreSQL UPDATE waits for the writer of its
row) and is invisible to them (READ COMMITTED) until the commit merges it. A transaction
that ends otherwise drops it. Rows that are only read may be stale when they are used,
which is what most hazards are about. In the other modules a transaction writes once, so
the read of a handler and its commit are two actions and the values read are kept in
between (`job`, `seen`, `request`, `call`).

### Registry

One `model_id` on the vLLM backend. A request slot of `Requests` runs one handler at a
time, in the steps that another request can see:

| `pc` | code |
|---|---|
| `writing` | `create_decision`, `validate_staging`: status checked, UPDATE not yet issued |
| `waiting` | `deploy` waits in `gpu_lock` (`LockTimeout` is its deadline) |
| `loading`, `smoke` | `_deploy_locked`: adapter load, smoke generation, unload of the previous adapter |
| `retiring`, `marking` | flush of RETIRED on the previous version, of DEPLOYED on the target |
| `restoring` | `stage_deploy` gives the pointer back to the previous version |
| `committing` | the router commits; the GPU lock is free already |

`Begin` is the entry of an endpoint: it reads the status and checks it. The unique index
is `IndexFree` (an insertion waits for an open transaction with the same key) and
`IndexConflict` / `Conflict` (the loser unloads its adapter and answers 409).
`HostOf` is `vllm_url_by_env`; `Faults` are an aborted handler, an unload that fails and
a load whose answer is lost (`AnswerLost`), after which `http_retry` is refused.

`PointerHistory` is what this comes to without requests: a deploy moves the pointer,
retires what it moved it from and records the deployment in one step (`Deploy`), a
staging deploy of another version leaves the pointer alone (`Stage`), and the pointer can
be lost in two ways only, each with the guard of the race that needs it: to a staging
deploy of the very version that went to production meanwhile (finding 2), or to a
decision that was started (`StartDecision`) before its version was deployed and is
written after it (`Decide`: the UPDATE of `create_decision` has no condition). The
mapping takes `pointer`, `retired` and `deciding` from the status of the versions and
from the requests that have read and not yet written.

### TrainingQueue

Runs are numbered in the order of `created_at`. A worker polls as `process_next_job`
does: it marks lapsed runs (`MarkStaleRuns`), selects one (`NextClaimableRun`), waits for
the GPU lock, stops serving (`Preflight`), claims by compare-and-set (`Claim`,
`ClaimLost`) or fails a run that was stale too often (`ForceFailed`), trains, completes
or fails it, registers the version and, back in `run_forever`, commits. `known[w]` is
the status that the SQLAlchemy object holds: it is read once and read again only after
a commit (`Refresh`). `tried` and `recount` are the `retry_count` that the claim changes
on the object and that the next flush writes. `writes[w]` may hold rows of several runs:
the detector flips other runs to STALE in the transaction of the poll, and every commit
is one of the whole session.

How a worker is started matters. `RunnerOf[w] = "provider"` is the entry point of the
container (`python -m app.workers.training_worker`): nothing commits before the end of
the poll, so the claim is never visible, RUNNING and STALE never occur in the database,
and a crash gives the run back as PENDING. `RunnerOf[w] = "streaming"` is a caller of
`run_forever` with `UnslothTrainingRunner`, which commits on every progress line
(`Progress`); only then do heartbeats, stale detection and the retry limit act. The first
of these commits also publishes the STALE flips that the poll began with and frees their
rows, so another worker can take such a run over while this one trains.

`lapsed[r]` says that the committed `heartbeat_at` is older than the threshold. The
first progress commit after a claim writes the time of the claim over newer heartbeats,
so it may leave either value. `store` holds the version directories: `Register` creates
one before the commit, and `RegisterRefused` is `ArtifactExistsError`.

### Artifacts

What `Register` does in one step of `TrainingQueue` is taken apart here. A registrar
inserts the row of the next version (`InsertVersion`, `_allocate_version`), looks whether
something is stored under its name (`IsTaken`) and refuses (`FinalizeRefused`) or goes on
(`FinalizeVersion`), writes one file after the other (`PutFile`: the upload of the object
store, or a move between two file systems), then the metadata with the checksum
(`PutMetadata`), releases the GPU lock and commits (`CommitVersion`). `Kill` may come
between any two of these steps: the row is rolled back and its number free again, the
files stay. The name of a directory contains the base model (`VersionName`), so a number
can be used again with another base model while an orphan lies beside it.

`payload[d][f]` is the training whose output the file holds; a checksum is the set of
the file names with their contents, which is what a SHA-256 over the sorted paths and
bytes tells apart. `Damage` is somebody who changes or deletes a stored file or the
metadata. A deploy verifies (`VerifyArtifact`; no metadata counts as verified) and loads
what is there then (`LoadArtifact`) in two steps, or ends between them (`AbandonDeploy`);
`checked` keeps what it verified and whether the directory was damaged since, because
nothing looks again before the load. `ServedAsTrained` therefore speaks of deploys whose
directory was left alone between the two steps, whatever happened to it before.

### GpuHandoff

`serving_cycle` under the GPU lock in both settings of `SERVING_CONTROL`. With
`file_signal` the worker writes `request.json` (`WriteRequest`) and polls
`response.json` for the answer to its own request (`Answered`); the controller on the
host (`HostTakes`, `HostStops`, `HostStarts`) is external and takes whatever request is
in the slot when it looks. With `shell` the worker runs the commands itself. `children`
are the training subprocesses, which outlive the cycle when SIGTERM unwinds it
(`Interrupt`). `KillWorker` ends a worker at any step, its subprocess with it (one
container). The names that `TrainingQueue` has too carry the prefix `Handoff` here, so
that `MCTraining` can extend both. Faults: an answer after the deadline, a stop that
fails, VRAM that somebody else uses, a failed restart, SIGTERM.

### Evaluation

A trigger (`TriggerRead`, `TriggerWrite`) writes only the columns that differ from the
row it read. A worker selects the oldest pending version and reads its row (`Select`),
claims it with one conditional UPDATE that it does not commit (`Claim`; `RowFree` is the
row lock that it holds from then on), loads the adapter, generates, unloads and applies
the outcome (`Submit`) to the object that it read before the claim (`seen`), again only
the columns that differ (`ChecksAnew`). A `ValueError` commits the claim without an
outcome (`Skip`). `queued[v]` counts the triggers that flipped `evaluation_requested`; a
trigger that read it as TRUE is accepted too and is not in this count, because its UPDATE
leaves the column out. Deploys and rollbacks are two steps here, load and commit. The
drift check selects the DEPLOYED version (`DriftSelect`), then evaluates what it selected
(`DriftLoad`), which vLLM refuses while the adapter is resident (`DriftSkip`): the host
must have lost it, or a deploy superseded the version since the SELECT. The faults are
listed in `FaultKinds`.

### Datasets

One dataset. A content is the bytes of a file together with the records they parse to;
`Gate` is the verdict of `validation_service` from the counts of invalid records, the
threshold and the overlap with an evaluation set. `validate_intake` commits twice: first
the version and its report with the hash of the *records* (`InsertPending`), then the
hash of the *file* (`StoreFileHash`). `intake/commit` checks gate and hash
(`CommitIntake`), looks whether the object exists (`ReadStaged`) and writes it without
looking again: by one call to MinIO (`PutObject`), or on disk, where the file that is
found is truncated (`OpenObject`, it then holds `Partial`) and written (`FillObject`).
It then removes the staging directory (`ClearStaging`), writes two sidecars over
whatever has their names (`WriteSidecars`) and commits the row (`MarkProcessed`);
`Abort` may come between any two. `backend` is `artifact_backend`, fixed for a
behaviour. `WritesApart` says that on disk no two commits of one object are between the
look and the last byte at the same time. Nothing in the code sees to that, and finding 6
is what happens without it; the properties of `datasets` are checked and proved with it.
A run freezes the location and the hash of the latest PASS report (`CreateTrainingRun`),
which `PinHolds` compares before a training reads the bytes (`TrainsOn`). A Hugging Face
import stages one file of a snapshot; `PickDataFile` says which. The sampling, the
parsers and the nine rules are data: `InvalidCount`.

### Accounts and Idempotency

`Accounts`: the used tokens and the revoked families are rows of one table with a unique
`jti`. A request reads with `Begin` and commits with another action; a rotation that
loses on the unique constraint (`Insertable`) issues nothing. The live tokens of
`Sessions` are the tokens without a row of their own (`LiveTokens`), its closed sessions
the families with a marker row (`ClosedFamilies`). `Idempotency`: lookup,
work and storing are steps of their own. A lookup that reads an expired row (`Miss`) sends
`DELETE ... WHERE key = ?` as a second statement (`DeleteExpired`), which takes whatever
row the key has by then; the row stays locked (`Locked`) and the deletion uncommitted
until the work is (`Work`, or `Fail`, which rolls it back). `epoch` counts how often a
response of the key expired. `PromptDeletes` says that no such DELETE comes so late that
another call has stored its response since the SELECT (section 5 says what happens then).

## 3. Runs

| Run | Configuration | Checks | Shows |
|---|---|---|---|
| `registry_safety` | 2 versions, 2 requests, staging on a host of its own, all faults, symmetry | `TypeOK`, `AtMostOneDeployed`, `WaitsGoUp`, `HistoryBacksPointer`, `PointerMovesOntoLoadedAdapter`, `ImplementsPointerHistory` | the registry is right, and nobody waits in a circle, under every interleaving and fault (421,555 states) |
| `registry_live` | one host, no fault, two flows: ladder with 2 versions and 2 requests, default environment with 3 and 3 | `LegacyOnlyPointerResident`, `Responds` | after every race exactly the production adapter is resident, and no request waits for ever (111,354 states) |
| `registry_prod_alias` | one host, no fault | `ProdAliasServes` violated | finding 1 |
| `registry_staging` | two hosts, no fault | `StagingKeepsPointer` violated | finding 2 |
| `training` | five flows: 2 workers of the entry point; 2 streaming workers, with slow heartbeats or with a kill; 2 registrars; 2 workers in the serving cycle, both settings, 5 requests, 2 mishaps, no SIGTERM during a training | `TypeOK`, `OneVersionPerRun`, `EntryImplementsLedger`, `StreamingRunsEnd`, `ArtifactsTypeOK`, `RegisteredAsTrained`, `ServedAsTrained`, `HandoffTypeOK`, `GpuExclusive`, `TrainsUnderLock`, `ServingComesBack` | runs end once with one version that holds what was trained; one user of the GPU, trainings under the lock, serving comes back (413,959 states) |
| `gpu_interrupt` | the serving cycle with 6 requests and SIGTERM at any time | `GpuExclusive` violated | finding 3 |
| `datasets` | 2 requests, 2 uploads of 2 contents, 2 versions, 2 reports, 1 feedback, both backends, `WritesApart`, symmetry | `TypeOK`, `CommittedWasExamined`, `TrainedWasExamined`, `BytesSurvive`, `SourcesAreApproved`, `ObjectsImmutable` | provenance from the upload to the training (1,484,348 states) |
| `datasets_local` | the local backend, any overlap | `ObjectsImmutable` violated | finding 6 |
| `datasets_provider` | the runner of the entry point | `TrainedWasExamined` violated | finding 4 |
| `datasets_sidecar` | a file that is named `schema.json` | `CommittedWasExamined` violated | finding 5 |
| `evaluation` | 2 workers, 2 versions, 3 triggers, any one fault | `TypeOK`, `AtMostOncePerTrigger`, `DecidedHasEvidence`, `EvaluationKeepsServed`, `DecisionsStand`, `QueuedAreEvaluated` | evaluations beside triggers, decisions, deploys and drift checks (442,209 states) |
| `requests` | 2 requests, 2 names, 2 accounts, 3 tokens; 4 calls, 2 keys, 2 expiries, `PromptDeletes` | `TypeOK`, `RotationIsLinear`, `RevokedFamilyEnds`, `ImplementsSessions`, `AdministratorExists`, `KeysTypeOK`, `AnswersAgree` | sessions and idempotency keys under overlapping requests (615,936 states) |

Components that share no state are checked by one run with a variable `flow` that picks
one of them in the initial state (`MCRequests`, `MCTraining`, `RegistryFlow`). Every
behaviour of the run is then a behaviour of that component; a flow restricts who works
and what arrives, never how it goes on.

**Bounds.** Two requests or workers are enough for every pairwise race: one between the
release of a lock and its commit, the other anywhere. A third version and a third
request are needed only when two deploys must supersede the same version, which is why
the second flow of `registry_live` has three of each; it leaves out the ladder and
simultaneous decisions on one version. In `training` two workers give a run a slow owner
and a thief; `MaxStaleRetries = 1` lets a run be stale once, retried, stale again and
failed; two runs let a retry, an overtaking priority and two numbers in flight occur. In
its flow `takeover` the younger run has the higher priority, so that the worker whose
detector flips the lost run trains the other one and publishes the flip on the way.
Three trainings of two base models and two kills allow an orphan under each of two
names, then a version that uses one of their numbers. Five requests are two cycles of
the GPU handoff and a stop, so an answer to the first one can meet the second and the
third; two mishaps allow a kill and a failed restart. The first version may be triggered
twice in `evaluation`, so a second evaluation can overtake a decision on the first. In
`datasets` two uploads, versions and reports allow every mismatched pair; the constraint
`FewRuns` keeps the distinct runs at one (any of the possible ones), and
`OneUploadBeside` lets feedback and evaluation sets meet one upload instead of two,
which they do not share state with. Four calls are enough for one that stores, one that
reads the expired response, one that stores again and one that replays. `WritesApart`
and `PromptDeletes` are no bounds but conditions: they leave out behaviours that the
code has and in which the property fails, and the theorems have them as hypotheses. All
counters are bounded in the guards by the constants named `Max...`. Versions, requests
and workers are interchangeable where symmetry is used, and no liveness run uses it.
`CHECK_DEADLOCK` is off where the system or the bounded model really stops (every
version rejected, bounds used up); the training workers poll for ever, and `training`
checks for deadlock.

**Fairness.** *Registry*: a request thread that can go on goes on (`WF` on
`Progress(r)`); a decision waits for a row lock that other requests may take again and
again, and PostgreSQL queues the waiters of a row, hence `SF` on `Write(r)`.
*Training* (streaming flows): a worker loop goes on (`Work`), the watchdog ends every
training (`TrainingEnds`), and time passes for a row nobody refreshes
(`HeartbeatLapses`). `Work` contains `Restart`: the compose file has no restart policy,
so an operator who starts a dead worker again is assumed. *GPU*: a worker executes the
cycle it entered and the controller on the host serves requests; nobody has to start a
cycle, and a killed worker has to do nothing. *Evaluation*: the workers poll, and an
endpoint or a deploy that started ends. Progress lines, heartbeats, kills, faults and new
requests carry no fairness anywhere.

## 4. Proofs

The assumptions are those that the modules state about their constants: `None` (`Absent`) is
distinct from every other value, sets of faults and routes are subsets of the named ones,
bounds are natural numbers. Sizes are arbitrary. In each module the property alone is not
inductive; the invariant adds what a step in flight has read or written.

**Registry** (`RegistryProofs`). `AtMostOneDeployed` is not inductive because a commit
publishes writes that were computed long before. `IInv` says what a request has flushed
at each step (`WritesPlanned`), that only one pointer move is past the unique index
(`OneInFlight`), that no third version becomes DEPLOYED meanwhile (`InFlightExcludes`),
that a superseded version differs from the target (`PreviousDiffers`), and that the steps
inside `gpu_lock` own the lock (`LockIsHeld`). From it follow `TypeCorrect`,
`OneDeployed` and `HistoryBacked`. `LInv` adds that the adapter of a move in flight is
resident and that nobody who holds the GPU lock is about to unload it, unless the version
is the production version already. It yields `PointerMovesResident` and
`RegistryImplementsPointerHistory`, for which it is shown in addition that what is
written from a decision is a version that somebody decides on (`UndecidedKept`,
`UndecidedEnds`), that a commit retires and promotes together (`CommitImplements`), and
that the version which a commit retires was the pointer, unless that was taken off
meanwhile.

Deadlock freedom is a safety property here: `Blocks` says who keeps whom from the next
step, through the GPU lock, a row or the unique index, and `WaitsAreAcyclic` shows that
whoever is waited for is further on in the one order of the locks (`LockRank`: none, the
GPU lock, past it). The argument is that rows are flushed under the GPU lock only, and
kept past it only by a request that needs no lock any more. `Responds` adds, for a small
instance, that the waiting ends. `StagingAloneKeepsPointer` draws the line of finding 2:
if requests do not overlap (`\A q, r \in Requests : q = r`, as with one slot), what a
staging deploy read is still true at its commit (`StageIsCurrent`, `PreviousIsPointer`),
and the pointer stays.

What is *resident* once nothing moves holds without the ladder only, since a staging
deploy evicts the production adapter (finding 1); the two theorems about it are stated of
`RegistryFlow`, whose `legacy` flow has decisions, deploys and rollbacks of the default
environment. `FInv` says what that flow keeps: no version is on the ladder (`NoLadder`),
a decision owns its version (`DecidesAlone`), a move works on a version that was promoted
once (`MovesPromoted`) and what it supersedes is retired or still deployed
(`SupersedesDeployed`). `RInv` gives the contents of the production server at every step
of a deploy, relative to the version that serves (`Serving`: the target of the move past
the unique index, or else the DEPLOYED version); a winner that commits while a loser is
between its load and its refused flush is the interesting case. With `Faults = {}` it
yields `LegacyResidency`: exactly the production adapter is resident. With failed unloads
and lost answers more may be resident, but never less: `AInv`, which says that nobody is
about to unload what serves, yields `LegacyProdAliasServes` from the one assumption that
no handler is aborted, because an abort between the unload of the previous adapter and
the commit leaves a DEPLOYED version without one.

**Training queue.** A worker registers for a run that it claimed before others
committed. The invariant says that a claimed run is worked on by the owner of the GPU
lock (`LockIsHeld`), that a row has one writer (`RowLocked`), that a completion stays
written until it is committed with its version (`Completing`), that nothing reopens a
run with a version (`VersionsClosed`) and that the run in hand has no version yet and
none under way (`AttendedOpen`). From it follow `QueueTypeCorrect` and `VersionedOnce`,
for provider and streaming workers alike; a progress line commits all that its worker
has written, and the invariant has to say of each of these rows what a commit may do to
it. `TrainingLedgerProofs` assumes `ProviderOnly`, that every worker is started as in
the container, and proves `QueueImplementsLedger`: claims stay hidden (`ClaimsHidden`),
a transaction writes only its own run (`WritesOwn`), and only one number is in flight
(`NumberFollows`). Without `ProviderOnly` the refinement is false: a streaming worker
that waited for the GPU lock can turn a completed run into a failed one. The run checks
the refinement for the entry flow as `EntryImplementsLedger`.

**Artifacts.** `AInv`: numbers at work are nobody else's and not committed
(`NumbersApart`); a directory being written holds what its owner wrote so far and no
metadata, and one that is written out holds the output and its checksum
(`DirectoriesOwned`); the recorded checksum of a version is that of its output even when
its files are damaged (`ChecksumsKept`). The argument rests on directories of different
numbers being different (`NumbersSeparate`) and on checksums being injective
(`ChecksumsDiffer`, which the model puts in the place of the collision resistance of
SHA-256). Between check and load, a directory that nobody damaged keeps what was checked,
because a committed version has no writer. Results: `ArtifactsTypeCorrect`,
`VersionsHoldOutput`, `ServedIsOutput`.

**GPU handoff.** `IInv`: the worker in a cycle holds the lock (`LockHeld`), requests are
left for its restart (`Budget`), the slots hold the newest request and an answer to one
that was taken (`Numbered`), a final answer to the last request means an idle host
(`Answers`), and from the VRAM check to the end of the training nothing is pending and
serving is stopped (`Parked`). `HandoffTypeCorrect` needs nothing else;
`HandoffExclusive` assumes `Calm`, that no SIGTERM finds a training subprocess: finding 3
is what happens without it. `TrainingsStayLocked` needs no such assumption: a subprocess
belongs to a worker that is still in its cycle (`Attended`), because a worker that is
interrupted keeps the lock until it has restarted serving and ended, its subprocess with
it. So SIGTERM puts serving beside a training, but never a second training.

**Datasets.** `DatasetsTypeCorrect` and `CitationsAreApproved` need no hypothesis, and
`TrainingIsExamined` needs `Pinned` only, that every runner resolves the pin (finding 4):
the pin is compared with the bytes that are read, so overwritten and half-written objects
end in an error. The theorems about the store assume `NamesApart`, that no dataset file
has the name of a sidecar (finding 5), and `[]WritesApart` (finding 6); with MinIO the
second hypothesis falls away (`MinioNeedsNoCare`), because two commits that both looked
hold the same bytes. The invariant says that a report carries
a hash of its own content (`ReportsSound`), that one report per version carries the hash
of a file (`OneFileReport`), that a commit in flight holds a report that matches its
directory, its file and, once written, its object (`CommitMatches`), that an object in
the store was examined (`ObjectsExamined`) and that a run pins what was examined
(`RunsExamined`). A handler that dies in the middle of a write leaves its object
partial; the staging directory is still there then, which is what `AcceptedBytesSurvive`
rests on. Results: `CommitsAreExamined`, `AcceptedBytesSurvive`, `ObjectsStayPut`,
`MinioNeedsNoCare`.

**Evaluation.** The row of a version has one worker (`RowLocked`), a pending request is
one that was queued and that nobody consumed (`Counted`), signals are only added to what
a worker read (`SeenOlder`), a deploy is one of a decided version (`DeployDecided`), and
while the host kept its adapters and answered every call a worker that generates has an
adapter that nobody else uses (`Undisturbed`). Results: `EvaluationTypeCorrect`,
`TriggersEvaluatedOnce`, `DecisionsHaveEvidence`, `ServedStaysLoaded`. For
`DecisionsAreKept`, every step leaves the status of a version alone, evaluates it once
more or decides on it (`StatusMoves`), and a version that left REGISTERED was evaluated
(`EvaluatedBefore`): a second evaluation takes a second queued request. The property
speaks of versions with one because it is false for others (section 5).

**Requests.** A token with a successor is used (`ParentsUsed`), a token that was issued
late is in a revoked family (`LateIsRevoked`), and what is about to be rotated was issued
in time (`RotatesLive`). Results: `AccountsTypeCorrect`, `SessionsDoNotFork`,
`LogoutEndsSession`. The refinement of `Sessions` needs in addition that no row is about
a number that was not given yet (`NumbersGiven`, or a login could open a closed session),
that a session always has an unused token (`SessionsLive`) and that what is about to be
revoked is a session that was opened (`RevokesOpened`). Result:
`AccountsImplementSessions`. `OneTokenPerSession` is then proved of the abstract
specification, whose invariant is two lines (`SessionsNumbered` and itself), and carried
over. `FirstIsAdministrator` counts accounts with the theorems on finite sets: there are
at most as many as identifiers were given, and while none was given whoever registers does
so as the administrator (`AccountsCounted`).
For the keys, an answer given in the present epoch of a key is the stored one, as long as
what a call deletes and keeps locked is expired. Results: `KeysTypeCorrect`, without a
hypothesis, and `ReplaysAgree`, whose hypothesis is `[]PromptDeletes`.

**Only model-checked.** `Responds`, `StreamingRunsEnd`, `ServingComesBack` and
`QueuedAreEvaluated`, since liveness under fairness is out of the prover's reach, and the
six violations, which are counterexamples. Every other property of the runs has a
theorem; `EntryImplementsLedger` has it for the flow that the run restricts it to.

## 5. Findings

1. *A staging deploy unloads the production adapter* (`deployment_service.py:310`). With
   the default configuration all environments share one host; `stage_deploy` reuses
   `deploy`, whose "previous" is the production version. The registry gets it back, the
   server does not.
2. *A staging deploy can take the version off production* (`promotion_service.py:306`).
   The status was read before the wait for the GPU lock and is overwritten after it. The
   same staleness lets a staging deploy restore a version that a move retired and
   unloaded meanwhile: the pointer goes back to a version whose adapter is gone, even
   when staging has a host of its own. Neither happens if requests do not overlap
   (`StagingAloneKeepsPointer`).
3. *SIGTERM during a training puts two users on the GPU* (`gpu_orchestrator.py:193`). The
   handler unwinds the cycle, which restarts serving; nothing ends the subprocess.
4. *The runner of the entry point trains on what the client names*
   (`training_provider.py:128`). The stored configuration with its `hf_dataset` is passed
   on beside the pin, and the script reads that.
5. *A commit writes its sidecars over the dataset* (`dataset_storage.py:242`) when the
   dataset file is named `schema.json` or `validation_report.json`.
6. *The local store overwrites* (`artifact_storage.py:216`). `put_immutable` of the
   default backend looks with `exists()` and then truncates and writes whatever it finds:
   of two overlapping commits of one version the second truncates the committed object of
   the first, and when it dies there, a PROCESSED version names bytes that nobody
   examined. If both commits named one staging directory and the first has removed it,
   the only copy is lost.

Met while modelling, without a run of their own:

* A rollback accepts STAGING and VALIDATED targets (`promotion_service.py:51`), so a
  version can reach production without the validation that line 340 calls required.
* A run with a compute resource raises `NameError` in the worker of the container
  (`training_worker.py:94`: `get_provider_for_resource` is defined below the `__main__`
  block, which never returns), stays PENDING and meets every restarted worker again.
* A crash between `finalize_version` and the commit blocks the model: the number is
  allocated again and the directory is refused, unless the base model differs.
* A handler that dies between the object and the commit of its row leaves the object
  behind, which the local backend may have written in part: `put_immutable` refuses it
  ever after, and that version can not be committed under that name.
* A damage between the check of the artifact and its load goes unnoticed
  (`deployment_service.py:288` and `:295`).
* A lookup of an idempotency key that read an expired row deletes by primary key
  (`idempotency_service.py:66`). When another call has deleted the row and stored its
  response in between, the late DELETE removes that live response; the next call of the
  key does the work again, and its client gets another response before the first one has
  expired. `AnswersAgree` fails without `PromptDeletes`.
* A trigger that read `evaluation_requested = TRUE` while a worker evaluates the version
  flips nothing, since the ORM leaves out what did not change (`model_service.py:383-388`).
  When the worker commits first, the trigger is answered with 200, its evaluation set is
  stored beside signals of another set, and no evaluation follows. `QueuedAreEvaluated`
  and `AtMostOncePerTrigger` count the requests that did flip the flag.
* A worker that selected a version before a trigger named another set claims the newer
  request and evaluates the older set, which it read with the version.
* The retry limit can fail a completed run (`training_service.py:166`), only with a
  runner that commits while it trains.
* A worker that selected a version while it was REGISTERED and claims its second request
  after a decision writes EVALUATED over it (`model_service.py:346` compares the status that
  it read); hence the condition on `queued` in `DecisionsStand`.
* A rollback to the deployments row of a staging deploy moves the production pointer,
  and loads the adapter on the staging host.
* With a restart of the host or a lost answer during an evaluation, the late unload hits
  a deployed adapter; a second evaluation that was queued before a decision changes the
  signals of a decided version.
* A worker that is killed between stop and start leaves serving down until the next
  cycle; no code looks after it.
* A version that is validated again after its commit can not be trained on any more: the
  latest report carries the hash of the records, and the pin never holds.
* Registrations that overlap can make several administrators.
* `finalize_version` of the object store hashes a staged `metadata.json`, if the training
  left one, and `verify_checksum` skips it: such a version can not be deployed. An
  artifact without metadata counts as verified.
* `artifact_transfer.py:4` says that a deployment is blocked when the verification of a
  transfer fails; no code asks for the status of a transfer.

## 6. Not modelled, and why

* The gates of `create_decision` (evidence, licence), audit rows, notifications, lineage,
  alerting, telemetry and response shapes: read-only or append-only in the transaction of
  their caller.
* `archive` and `unarchive` have no caller; the status `PRODUCTION` is never written.
* `GPUVPSProvider` and `SSHRemoteHost` (`providers/training_provider.py`,
  `services/ssh.py`): `execute` passes the argument vector where paramiko expects a
  buffer size and a timeout, so no remote job ever starts; there is no behaviour to
  check. `ColabProvider`: no endpoint marks its job as completed.
* Artifact transfer: `execute_transfer` and `verify_transfer` have no caller, so a
  transfer stays PENDING for ever.
* Compute resources: create, update, delete and probe of one row; the only race is the
  name, which a unique constraint decides.
* Password hashing, password reset, role checks and rate limits; the edits of feedback
  records; the statistics of a drift check.
* The database pool: connections held across GPU waits only produce errors.
* A deploy, a training worker and an evaluation on one host at the same time: each
  specification has the contention among its own actors, and `Evaluation` has deploys of
  two steps. The full product is beyond TLC at sizes that mean something.
* The heartbeat thread shares the session of its worker. The model lets it write between
  any two steps, not inside one, so SQLAlchemy's own race is not covered; neither is a
  worker that loses its database connection while it uploads and is replaced by one on a
  second host with a GPU lock of its own.
* The training script, the parsers, the rules H0 to H9 and the schema inference: data.
* The legacy polling worker, the HTTP middleware and the front end keep no authoritative
  state.

## 7. Where to go on

* A version of `TrainingQueue` whose `store` is `Artifacts`: today a directory there is
  either complete or absent.
* A run for the ladder passed by a rollback, and one for the routed run, once the code
  decides what it promises.
* The composition of one deploy, one training worker and one evaluation over one vLLM
  server, with the restart of the server by the handoff, which loses the adapters that
  the registry still shows.
