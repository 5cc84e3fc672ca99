------------------------------ MODULE Datasets ------------------------------
(***************************************************************************)
(* The intake of one dataset: uploads, validation, commit and the training *)
(* that reads what was committed (app/api/intake.py, intake_validate.py,   *)
(* validation.py and datasets.py, app/services/dataset_storage.py,         *)
(* validation_service.py, dataset_service.py, dataset_pinning.py,          *)
(* eval_set_service.py and feedback_service.py).                           *)
(*                                                                         *)
(* The bytes live on a staging disk and in an object store, the rows in a  *)
(* database: a handler that touches both does so in steps, and may die     *)
(* between any two of them.  A content is the bytes of a dataset file and  *)
(* the records they parse to.                                              *)
(***************************************************************************)
EXTENDS Integers, Sequences

CONSTANTS
    Contents,      \* the dataset files that clients upload
    RecordCount,   \* how many records a content holds
    InvalidCount,  \* how many of them break a rule of H0 to H7 or H9
    FailPercent,   \* settings.validation_gate_fail_ratio
    Names,         \* file names
    SidecarNames,  \* the names of the two files that a commit writes itself
    Manifest,      \* the bytes of such a file
    Partial,       \* what a file on disk holds until its last byte is written
    Backends,      \* settings.artifact_backend, of BackendKinds
    Feedbacks,     \* feedback_ids
    Requests,      \* the request slots
    HfDatasets,    \* hf_dataset: local files that training requests name, or None
    Runners,       \* which runners execute training runs, of RunnerKinds
    MaxUploads,    \* bound: staging directories
    MaxVersions,   \* bound: dataset versions
    MaxReports,    \* bound: validation reports
    MaxRuns,       \* bound: distinct training runs
    None

\* UnslothTrainingRunner, and LocalSubprocessProvider that the worker's entry
\* point starts.
RunnerKinds == {"unsloth", "provider"}

\* LocalFilesystemArtifactStorage, the default, and MinioArtifactStorage.
BackendKinds == {"local", "minio"}

ASSUME ContentsAssumption ==
    /\ RecordCount \in [Contents -> Nat \ {0}]
    /\ InvalidCount \in [Contents -> Nat]
    /\ None \notin Contents
    /\ Manifest \notin Contents \cup {None}
    /\ Partial \notin Contents \cup {Manifest, None}
    /\ HfDatasets \subseteq Contents \cup {None}
ASSUME SlotsAssumption ==
    /\ None \notin Requests
    /\ Runners \subseteq RunnerKinds /\ Backends \subseteq BackendKinds
ASSUME BoundsAssumption ==
    /\ FailPercent \in 1..100
    /\ {MaxUploads, MaxVersions, MaxReports, MaxRuns} \subseteq Nat

Uploads == 1..MaxUploads
Numbers == 1..MaxVersions

Gates == {"PASS", "NEEDS_REVIEW", "FAIL"}
Curations == {"PENDING", "APPROVED", "REJECTED"}

Files == [content : Contents, name : Names]
Keys == Numbers \X Names

\* A report carries the SHA-256 of the file or of its records as JSON text.
Hashes == {"file", "records"} \X Contents

Reports == [version : Numbers, content : Contents, hash : Hashes, gate : Gates]

\* A row of dataset_versions: status, canonical_file_uri, source_feedback_ids.
Rows == [status : {"PENDING", "PROCESSED"}, uri : Keys \cup {None},
         sources : SUBSET Feedbacks]

\* A training run: its dataset_pin and the hf_dataset that the client sent.
Runs == [version : Numbers, uri : Keys \cup {None}, hash : Hashes,
         hf : HfDatasets]

ASSUME NoneAssumption ==
    None \notin Files /\ None \notin Keys /\ None \notin Curations

VARIABLES
    backend,   \* where objects are kept: set once, for the whole deployment
    staged,    \* staged[s]: the file in staging directory s, or None
    uploads,   \* directories 1..uploads were created
    store,     \* store[k]: the content of the object at key k, or None
    versions,  \* the committed dataset versions, by number
    reports,   \* the committed validation reports, by run_at
    evalSet,   \* the contents with which the evaluation sets overlap
    feedback,  \* feedback[f]: curation_status, or None before it is submitted
    runs,      \* the training runs that were created
    trained,   \* what was trained on: version and content
    pc,        \* where each request is
    job        \* what each request works on

vars == <<backend, staged, uploads, store, versions, reports, evalSet, feedback,
          runs, trained, pc, job>>

Steps == {"idle", "inserting", "hashing", "listing", "putting", "filling",
          "clearing", "describing", "committing", "citing"}

\* upload: the staging_id; file: what it held; number: of the version; gate:
\* the verdict; report: its index; sources: the cited feedback.
Jobs == [upload : Uploads \cup {None}, file : Files \cup {None},
         number : 1..MaxVersions + 1, gate : Gates \cup {None},
         report : Nat, sources : SUBSET Feedbacks]

Idle == [upload |-> None, file |-> None, number |-> 1, gate |-> None,
         report |-> 0, sources |-> {}]

TypeOK ==
    /\ backend \in Backends
    /\ staged \in [Uploads -> Files \cup {None}]
    /\ uploads \in 0..MaxUploads
    /\ store \in [Keys -> Contents \cup {Manifest, Partial, None}]
    /\ versions \in Seq(Rows) /\ Len(versions) <= MaxVersions
    /\ reports \in Seq(Reports)
    /\ evalSet \subseteq Contents
    /\ feedback \in [Feedbacks -> Curations \cup {None}]
    /\ runs \subseteq Runs
    /\ trained \subseteq [version : Numbers, content : Contents]
    /\ pc \in [Requests -> Steps]
    /\ job \in [Requests -> Jobs]

-----------------------------------------------------------------------------
FileHash(c) == <<"file", c>>
RecordsHash(c) == <<"records", c>>

\* How many records the parser finds in a file, and how many of those break
\* a hard rule: only the two counts reach the gate.
Parsed(c) == RecordCount[c]
Invalid(c) == InvalidCount[c]

\* The gate of a report on content c when the evaluation records of e were
\* given to the leakage rule H8.
Gate(c, e) ==
    IF c \in e THEN "FAIL"
    ELSE IF Invalid(c) = 0 THEN "PASS"
    ELSE IF 100 * Invalid(c) >= FailPercent * Parsed(c) THEN "FAIL"
    ELSE "NEEDS_REVIEW"

\* Mutant of NextNumber: the maximum itself.
NextNumberOffByOne == Len(versions)

\* max(version) + 1
NextNumber == Len(versions) + 1

\* Mutant of ObjectKey: one prefix for all the versions.
ObjectKeyUnversioned(n, name) == <<1, name>>

\* datasets/{dataset_id}/v{n}/{name}
ObjectKey(n, name) == <<n, name>>

\* Mutant of ChecksumMatches: the file is not hashed again.
ChecksumUnchecked(c, hash) == TRUE

\* The commit hashes the staged file and compares.
ChecksumMatches(c, hash) == hash = FileHash(c)

OfVersion(n) == {i \in DOMAIN reports : reports[i].version = n}

\* The latest report of a version decides whether it may be trained on.
IsLatest(i, n) == i \in OfVersion(n) /\ \A j \in OfVersion(n) : j <= i

Goto(r, step) == pc' = [pc EXCEPT ![r] = step]

End(r) ==
    /\ Goto(r, "idle")
    /\ job' = [job EXCEPT ![r] = Idle]

Row(status, sources) == [status |-> status, uri |-> None, sources |-> sources]

Init ==
    /\ backend \in Backends
    /\ staged = [s \in Uploads |-> None]
    /\ uploads = 0
    /\ store = [k \in Keys |-> None]
    /\ versions = <<>>
    /\ reports = <<>>
    /\ evalSet = {}
    /\ feedback = [f \in Feedbacks |-> None]
    /\ runs = {}
    /\ trained = {}
    /\ pc = [r \in Requests |-> "idle"]
    /\ job = [r \in Requests |-> Idle]

-----------------------------------------------------------------------------
(* A file gets a staging directory of its own.                             *)
Stage(file) ==
    /\ uploads < MaxUploads
    /\ uploads' = uploads + 1
    /\ staged' = [staged EXCEPT ![uploads + 1] = file]
    /\ UNCHANGED <<backend, store, versions, reports, evalSet, feedback, runs,
                   trained, pc, job>>

InspectUpload == \E file \in Files : Stage(file)

\* Which file of a downloaded snapshot is staged.  A file that is named as a
\* sidecar is skipped, unless the client asks for the split of that name.
PickDataFile(split) == {file \in Files : split \/ file.name \notin SidecarNames}

ImportHfDataset(split) == \E file \in PickDataFile(split) : Stage(file)

(* intake/import-hf downloads a snapshot and stages one of its files.      *)
ImportHuggingFace == \E split \in BOOLEAN : ImportHfDataset(split)

(* intake/validate: parse the file, read the evaluation set that the       *)
(* client named, if any, and compute the next version number.              *)
ValidateIntake(r, s, e) ==
    /\ pc[r] = "idle"
    /\ staged[s] # None
    /\ job' = [job EXCEPT ![r] = [Idle EXCEPT !.upload = s, !.file = staged[s],
                                  !.number = NextNumber,
                                  !.gate = Gate(staged[s].content, e)]]
    /\ Goto(r, "inserting")
    /\ UNCHANGED <<backend, staged, uploads, store, versions, reports, evalSet,
                   feedback, runs, trained>>

(* The version row and its report are committed together, with the hash of *)
(* the records.  A number that was taken meanwhile breaks the unique       *)
(* constraint: the request fails.                                          *)
InsertPending(r) ==
    /\ pc[r] = "inserting"
    /\ \/ /\ job[r].number = NextNumber
          /\ job[r].number \in Numbers
          /\ Len(reports) < MaxReports
          /\ versions' = Append(versions, Row("PENDING", {}))
          /\ reports' = Append(reports,
                 [version |-> job[r].number, content |-> job[r].file.content,
                  hash |-> RecordsHash(job[r].file.content),
                  gate |-> job[r].gate])
          /\ job' = [job EXCEPT ![r].report = Len(reports) + 1]
          /\ Goto(r, "hashing")
       \/ /\ job[r].number # NextNumber
          /\ End(r)
          /\ UNCHANGED <<versions, reports>>
    /\ UNCHANGED <<backend, staged, uploads, store, evalSet, feedback, runs,
                   trained>>

(* A second commit replaces the hash by that of the file, unless a commit  *)
(* of the same upload removed it.                                          *)
StoreFileHash(r) ==
    /\ pc[r] = "hashing"
    /\ reports' = IF staged[job[r].upload] = None THEN reports
                  ELSE [reports EXCEPT ![job[r].report].hash =
                            FileHash(staged[job[r].upload].content)]
    /\ End(r)
    /\ UNCHANGED <<backend, staged, uploads, store, versions, evalSet,
                   feedback, runs, trained>>

-----------------------------------------------------------------------------
(* intake/commit: any staging directory may be named with any report that  *)
(* did not fail, if the file has the hash of the report.                   *)
CommitIntake(r, s, i) ==
    /\ pc[r] = "idle"
    /\ staged[s] # None
    /\ reports[i].gate # "FAIL"
    /\ ChecksumMatches(staged[s].content, reports[i].hash)
    /\ job' = [job EXCEPT ![r] = [Idle EXCEPT !.upload = s, !.report = i,
                                  !.number = reports[i].version]]
    /\ Goto(r, "listing")
    /\ UNCHANGED <<backend, staged, uploads, store, versions, reports, evalSet,
                   feedback, runs, trained>>

\* Mutant of ReadStaged: the staging directory is removed right away.
ReadStagedAndRemove(r) ==
    /\ pc[r] = "listing"
    /\ staged[job[r].upload] # None
    /\ store[ObjectKey(job[r].number, staged[job[r].upload].name)] = None
    /\ job' = [job EXCEPT ![r].file = staged[job[r].upload]]
    /\ Goto(r, "putting")
    /\ staged' = [staged EXCEPT ![job[r].upload] = None]
    /\ UNCHANGED <<backend, uploads, store, versions, reports, evalSet,
                   feedback, runs, trained>>

(* commit_file lists the directory, reads the file and looks whether the   *)
(* object exists: put_immutable refuses to write over one, complete or not.*)
ReadStaged(r) ==
    /\ pc[r] = "listing"
    /\ staged[job[r].upload] # None
    /\ store[ObjectKey(job[r].number, staged[job[r].upload].name)] = None
    /\ job' = [job EXCEPT ![r].file = staged[job[r].upload]]
    /\ Goto(r, "putting")
    /\ UNCHANGED <<backend, staged, uploads, store, versions, reports, evalSet,
                   feedback, runs, trained>>

Key(r) == ObjectKey(job[r].number, job[r].file.name)

Put(r, bytes, step) ==
    /\ store' = [store EXCEPT ![Key(r)] = bytes]
    /\ Goto(r, step)
    /\ UNCHANGED <<backend, staged, uploads, versions, reports, evalSet, feedback,
                   runs, trained, job>>

(* The object is written without a second look: by one call to MinIO ...   *)
PutObject(r) ==
    /\ pc[r] = "putting"
    /\ backend = "minio"
    /\ Put(r, job[r].file.content, "clearing")

(* ... or on disk, where write_bytes truncates the file that it finds ...  *)
OpenObject(r) ==
    /\ pc[r] = "putting"
    /\ backend = "local"
    /\ Put(r, Partial, "filling")

(* ... and then writes it.                                                 *)
FillObject(r) ==
    /\ pc[r] = "filling"
    /\ Put(r, job[r].file.content, "clearing")

ClearStaging(r) ==
    /\ pc[r] = "clearing"
    /\ staged' = [staged EXCEPT ![job[r].upload] = None]
    /\ Goto(r, "describing")
    /\ UNCHANGED <<backend, uploads, store, versions, reports, evalSet,
                   feedback, runs, trained, job>>

(* The two sidecars go next to the object, over whatever has their name.   *)
WriteSidecars(r) ==
    /\ pc[r] = "describing"
    /\ store' = [k \in Keys |-> IF k[1] = job[r].number /\ k[2] \in SidecarNames
                                THEN Manifest ELSE store[k]]
    /\ Goto(r, "committing")
    /\ UNCHANGED <<backend, staged, uploads, versions, reports, evalSet,
                   feedback, runs, trained, job>>

(* The version that the report belongs to becomes PROCESSED.               *)
MarkProcessed(r) ==
    /\ pc[r] = "committing"
    /\ versions' = [versions EXCEPT ![job[r].number].status = "PROCESSED",
                                    ![job[r].number].uri = Key(r)]
    /\ End(r)
    /\ UNCHANGED <<backend, staged, uploads, store, reports, evalSet, feedback,
                   runs, trained>>

(* A handler fails or its process dies: FileNotFoundError, an object that  *)
(* exists, a store or a database that cannot be reached, a restart.  A     *)
(* file that was opened and not filled stays as it is.                     *)
Abort(r) ==
    /\ pc[r] # "idle"
    /\ End(r)
    /\ UNCHANGED <<backend, staged, uploads, store, versions, reports, evalSet,
                   feedback, runs, trained>>

-----------------------------------------------------------------------------
(* versions/{v}/validate: a report on whatever records the client sends,   *)
(* against a stored evaluation set or records that the client sends too.   *)
ValidateVersion(n, c, e) ==
    /\ Len(reports) < MaxReports
    /\ reports' = Append(reports, [version |-> n, content |-> c,
                                   hash |-> RecordsHash(c), gate |-> Gate(c, e)])
    /\ UNCHANGED <<backend, staged, uploads, store, versions, evalSet,
                   feedback, runs, trained, pc, job>>

(* POST versions: a PROCESSED version whose bytes nobody uploaded.  Its    *)
(* retry loop makes the allocation of the number atomic.                   *)
CreateVersion ==
    /\ NextNumber \in Numbers
    /\ versions' = Append(versions, Row("PROCESSED", {}))
    /\ UNCHANGED <<backend, staged, uploads, store, reports, evalSet, feedback,
                   runs, trained, pc, job>>

(* POST versions/from-feedback reads the curation of the rows it cites ... *)
CiteFeedback(r, cited) ==
    /\ pc[r] = "idle"
    /\ \A f \in cited : feedback[f] = "APPROVED"
    /\ job' = [job EXCEPT ![r] = [Idle EXCEPT !.sources = cited]]
    /\ Goto(r, "citing")
    /\ UNCHANGED <<backend, staged, uploads, store, versions, reports, evalSet,
                   feedback, runs, trained>>

(* ... and inserts the version, retrying on a number that is taken.        *)
CreateVersionFromFeedback(r) ==
    /\ pc[r] = "citing"
    /\ NextNumber \in Numbers
    /\ versions' = Append(versions, Row("PROCESSED", job[r].sources))
    /\ End(r)
    /\ UNCHANGED <<backend, staged, uploads, store, reports, evalSet, feedback,
                   runs, trained>>

SubmitFeedback(f) ==
    /\ feedback[f] = None
    /\ feedback' = [feedback EXCEPT ![f] = "PENDING"]
    /\ UNCHANGED <<backend, staged, uploads, store, versions, reports, evalSet,
                   runs, trained, pc, job>>

\* Mutant of Curate: the UPDATE has no condition on the status.
CurateBlindly(f, decision) ==
    /\ feedback[f] # None
    /\ feedback' = [feedback EXCEPT ![f] = decision]
    /\ UNCHANGED <<backend, staged, uploads, store, versions, reports, evalSet,
                   runs, trained, pc, job>>

(* Approve or reject: one UPDATE ... WHERE curation_status = 'PENDING'.    *)
Curate(f, decision) ==
    /\ feedback[f] = "PENDING"
    /\ feedback' = [feedback EXCEPT ![f] = decision]
    /\ UNCHANGED <<backend, staged, uploads, store, versions, reports, evalSet,
                   runs, trained, pc, job>>

(* An evaluation set is refused when a report examined its records.        *)
CreateEvalSetVersion(c) ==
    /\ \A i \in DOMAIN reports : reports[i].content # c
    /\ evalSet' = evalSet \cup {c}
    /\ UNCHANGED <<backend, staged, uploads, store, versions, reports,
                   feedback, runs, trained, pc, job>>

-----------------------------------------------------------------------------
(* POST training-runs: the latest report must be PASS; the version and the *)
(* hash of that report are frozen into the run.  hf_dataset is kept.       *)
CreateTrainingRun(n, hf) ==
    /\ \E i \in OfVersion(n) :
           /\ IsLatest(i, n)
           /\ reports[i].gate = "PASS"
           /\ runs' = runs \cup {[version |-> n, uri |-> versions[n].uri,
                                  hash |-> reports[i].hash, hf |-> hf]}
    /\ UNCHANGED <<backend, staged, uploads, store, versions, reports, evalSet,
                   feedback, trained, pc, job>>

\* Mutant of PinHolds: the downloaded file is not hashed.
PinUnverified(run) == run.uri # None /\ store[run.uri] # None

\* resolve_pin_to_file: the object exists and hashes to the pinned checksum.
PinHolds(run) ==
    /\ run.uri # None
    /\ store[run.uri] # None
    /\ FileHash(store[run.uri]) = run.hash

\* What the training script reads: the resolved pin, or, when the provider
\* passes the stored configuration on, the local file hf_dataset.
TrainsOn(runner, run) ==
    IF runner = "unsloth"
    THEN IF PinHolds(run) THEN {store[run.uri]} ELSE {}
    ELSE {run.hf} \ {None}

(* A worker executes a run; a failed one may be retried with its pin.      *)
Train(runner, run) ==
    \E c \in TrainsOn(runner, run) :
        /\ trained' = trained \cup {[version |-> run.version, content |-> c]}
        /\ UNCHANGED <<backend, staged, uploads, store, versions, reports,
                       evalSet, feedback, runs, pc, job>>

-----------------------------------------------------------------------------
Intake(r) ==
    \/ \E s \in Uploads : \/ \E e \in SUBSET evalSet : ValidateIntake(r, s, e)
                          \/ \E i \in DOMAIN reports : CommitIntake(r, s, i)
    \/ \E cited \in SUBSET Feedbacks \ {{}} : CiteFeedback(r, cited)

Continue(r) ==
    \/ InsertPending(r) \/ StoreFileHash(r)
    \/ ReadStaged(r) \/ PutObject(r) \/ OpenObject(r) \/ FillObject(r)
    \/ ClearStaging(r) \/ WriteSidecars(r) \/ MarkProcessed(r)
    \/ CreateVersionFromFeedback(r)
    \/ Abort(r)

Curation ==
    \/ \E f \in Feedbacks : \/ SubmitFeedback(f)
                            \/ \E d \in {"APPROVED", "REJECTED"} : Curate(f, d)
    \/ \E c \in Contents : CreateEvalSetVersion(c)

Training ==
    \/ \E n \in DOMAIN versions, hf \in HfDatasets :
           CreateTrainingRun(n, hf)
    \/ \E runner \in Runners, run \in runs : Train(runner, run)

Next ==
    \/ InspectUpload \/ ImportHuggingFace
    \/ \E r \in Requests : Intake(r) \/ Continue(r)
    \/ \E n \in DOMAIN versions, c \in Contents, e \in SUBSET Contents :
           ValidateVersion(n, c, e)
    \/ CreateVersion
    \/ Curation
    \/ Training

Spec == Init /\ [][Next]_vars

-----------------------------------------------------------------------------
\* On disk, no two commits of one object are at once between the look of
\* put_immutable and the last byte: nothing in the code sees to that.  MinIO
\* needs no such condition.
WritesApart ==
    backend = "local" =>
        \A r, q \in Requests :
            /\ {pc[r], pc[q]} \subseteq {"putting", "filling"}
            /\ Key(r) = Key(q)
            => r = q

\* A non-FAIL (or PASS) report of version n on the content c.
Examined(n, c, gates) ==
    \E i \in DOMAIN reports :
        /\ reports[i].version = n
        /\ reports[i].content = c
        /\ reports[i].gate \in gates

(* A PROCESSED version of the intake names an object whose bytes a report  *)
(* of that very version examined and did not fail, although the report and *)
(* the staging directory are named separately by the client of the commit, *)
(* and directories and objects change between the steps of two commits.    *)
CommittedWasExamined ==
    \A n \in DOMAIN versions :
        versions[n].uri # None =>
            /\ store[versions[n].uri] # None
            /\ Examined(n, store[versions[n].uri], {"PASS", "NEEDS_REVIEW"})

(* The bytes that a training reads were examined by a PASS report of the   *)
(* version the run claims, whatever was validated again, committed again   *)
(* or failed since the run was created.                                    *)
TrainedWasExamined ==
    \A t \in trained : Examined(t.version, t.content, {"PASS"})

(* A file that the intake accepted is never lost between the disk and the  *)
(* store: whatever step a commit dies in, the bytes whose hash a report    *)
(* carries are still staged or are an object.                              *)
BytesSurvive ==
    \A i \in DOMAIN reports : reports[i].hash = FileHash(reports[i].content) =>
        \/ \E s \in Uploads : /\ staged[s] # None
                              /\ staged[s].content = reports[i].content
        \/ \E k \in Keys : store[k] = reports[i].content

(* Every version made from feedback cites approved feedback only, although *)
(* administrators approve and reject while the version is being created.   *)
SourcesAreApproved ==
    \A n \in DOMAIN versions : \A f \in versions[n].sources :
        feedback[f] = "APPROVED"

(* put_immutable refuses to overwrite: a complete object never changes its *)
(* bytes, although the look and the write are two steps and two commits    *)
(* may be between them.                                                    *)
ObjectsImmutable ==
    [][\A k \in Keys : store[k] \notin {None, Partial} => store'[k] = store[k]]_vars
=============================================================================
