----------------------------- MODULE Artifacts ------------------------------
(***************************************************************************)
(* The artifact of a model version, from the staging directory of a        *)
(* training to the adapter that is loaded: app/services/model_service.py   *)
(* (register_model_version), artifact_storage.py (both stores) and         *)
(* deployment_service.py (verify_artifact_checksum).                       *)
(*                                                                         *)
(* A store holds files, one written after the other, and no transaction    *)
(* takes them back: a worker that dies leaves what it wrote, while its     *)
(* version number is free again.  Two versions are in one directory when   *)
(* they have one number and one base model.                                *)
(***************************************************************************)
EXTENDS Integers, FiniteSets

CONSTANTS
    Registrars,  \* the worker processes of a host
    Trainings,   \* what was trained
    BaseOf,      \* the base model of each training
    Produces,    \* the files that each training leaves in its staging directory
    MaxNumber,   \* bound: version numbers
    MaxKills,    \* bound: how often a registrar is killed
    MaxDamaged,  \* bound: how many directories somebody damages
    Damaged,     \* the bytes of a damaged file
    Absent

ASSUME TrainingsAssumption ==
    /\ {Damaged, Absent} \cap (Trainings \cup Registrars) = {}
    /\ Damaged # Absent
    /\ {MaxNumber, MaxKills, MaxDamaged} \subseteq Nat

VersionNumbers == 1..MaxNumber

\* build_version_name: {model_id}-{base_model}-v{n}, below {model_id}.
VersionName(base, n) == <<base, n>>

Directories == {VersionName(BaseOf[t], n) : t \in Trainings, n \in VersionNumbers}

FileNames == UNION {Produces[t] : t \in Trainings}

\* The files of a directory: whose output each one holds.
Payloads == [FileNames -> Trainings \cup {Damaged, Absent}]

Output(t) == [f \in FileNames |-> IF f \in Produces[t] THEN t ELSE Absent]

\* A SHA-256 over the sorted paths and bytes: equal for equal files only.
Checksum(payload) == {<<f, payload[f]>> : f \in {g \in FileNames : payload[g] # Absent}}

Checksums == SUBSET (FileNames \X (Trainings \cup {Damaged}))

ASSUME ChecksumsAssumption == \A c \in Checksums : c # Absent

VARIABLES
    payload,     \* payload[d]: the files of directory d
    metadata,    \* metadata[d]: the checksum in metadata.json, or Absent
    registered,  \* registered[n]: the training of the committed version n
    registrar,   \* what each worker registers
    gpuHolder,   \* the worker that holds the GPU lock, or Absent
    checked,     \* the version whose artifact the deploy has verified, or Absent
    served,      \* what the serving host loaded last, or Absent
    kills,
    damaged      \* the directories that somebody damaged

deployVars == <<checked, served>>
artifactVars == <<payload, metadata, registered, registrar, gpuHolder, deployVars,
                  kills, damaged>>

\* left: the files that are still to be written.
Tasks == [step : {"idle", "looking", "writing", "committing"},
          training : Trainings \cup {Absent},
          number : VersionNumbers \cup {0}, left : SUBSET FileNames]

\* A deploy: had the artifact a checksum to compare, did nobody touch it since?
Deploys == [number : VersionNumbers, described : BOOLEAN, intact : BOOLEAN]

NoTask == [step |-> "idle", training |-> Absent, number |-> 0, left |-> {}]

ArtifactsTypeOK ==
    /\ payload \in [Directories -> Payloads]
    /\ metadata \in [Directories -> {Absent} \cup Checksums]
    /\ registered \in [VersionNumbers -> Trainings \cup {Absent}]
    /\ registrar \in [Registrars -> Tasks]
    /\ gpuHolder \in Registrars \cup {Absent}
    /\ checked \in Deploys \cup {Absent}
    /\ served = Absent \/ served \in [deploy : Deploys, files : Payloads]
    /\ kills \in 0..MaxKills
    /\ damaged \subseteq Directories

ArtifactsInit ==
    /\ payload = [d \in Directories |-> [f \in FileNames |-> Absent]]
    /\ metadata = [d \in Directories |-> Absent]
    /\ registered = [n \in VersionNumbers |-> Absent]
    /\ registrar = [w \in Registrars |-> NoTask]
    /\ gpuHolder = Absent
    /\ checked = Absent
    /\ served = Absent
    /\ kills = 0
    /\ damaged = {}

-----------------------------------------------------------------------------
Committed == {n \in VersionNumbers : registered[n] # Absent}

\* The largest number and one; numbers are given out without a gap.
NextVersion(n) ==
    /\ \A m \in Committed : m < n
    /\ n = 1 \/ n - 1 \in Committed

Target(w) == VersionName(BaseOf[registrar[w].training], registrar[w].number)

\* Where the version n is stored.
Location(n) == VersionName(BaseOf[registered[n]], n)

Unlock(w) == gpuHolder' = IF gpuHolder = w THEN Absent ELSE gpuHolder

(* register_model_version under the GPU lock: the row of the next version  *)
(* is inserted.  The unique index keeps the number from the others until   *)
(* the transaction ends.                                                   *)
InsertVersion(w, t, n) ==
    /\ registrar[w].step = "idle"
    /\ gpuHolder = Absent
    /\ NextVersion(n)
    /\ \A m \in Committed : registered[m] # t
    /\ \A q \in Registrars : registrar[q].training # t /\ registrar[q].number # n
    /\ gpuHolder' = w
    /\ registrar' = [registrar EXCEPT ![w] =
           [NoTask EXCEPT !.step = "looking", !.training = t, !.number = n]]
    /\ UNCHANGED <<payload, metadata, registered, deployVars, kills, damaged>>

\* Mutant of IsTaken: nobody looks.
IsTakenUnchecked(d) == FALSE

\* target.exists(), or an object below the prefix.
IsTaken(d) == metadata[d] # Absent \/ \E f \in FileNames : payload[d][f] # Absent

(* finalize_version looks once and writes afterwards ...                   *)
FinalizeVersion(w) ==
    /\ registrar[w].step = "looking"
    /\ ~IsTaken(Target(w))
    /\ registrar' = [registrar EXCEPT ![w].step = "writing",
                                      ![w].left = Produces[registrar[w].training]]
    /\ UNCHANGED <<payload, metadata, registered, gpuHolder, deployVars, kills, damaged>>

(* ... or refuses: ArtifactExistsError ends the worker.                    *)
FinalizeRefused(w) ==
    /\ registrar[w].step = "looking"
    /\ IsTaken(Target(w))
    /\ registrar' = [registrar EXCEPT ![w] = NoTask]
    /\ Unlock(w)
    /\ UNCHANGED <<payload, metadata, registered, deployVars, kills, damaged>>

(* One file after the other is moved or uploaded.                          *)
PutFile(w) ==
    /\ registrar[w].step = "writing"
    /\ \E f \in registrar[w].left :
           /\ payload' = [payload EXCEPT ![Target(w)][f] = registrar[w].training]
           /\ registrar' = [registrar EXCEPT ![w].left = @ \ {f}]
    /\ UNCHANGED <<metadata, registered, gpuHolder, deployVars, kills, damaged>>

\* Mutant of RecordedChecksums: metadata.json is hashed with the payload.
RecordedChecksumsWithMetadata(w) ==
    {Checksum(payload[Target(w)]) \cup {<<"metadata.json", registrar[w].training>>}}

\* The local store hashes what it finds in the directory, the object store
\* what it uploaded.
RecordedChecksums(w) ==
    {Checksum(payload[Target(w)]), Checksum(Output(registrar[w].training))}

(* The metadata are written last, and the GPU lock is released.            *)
PutMetadata(w) ==
    /\ registrar[w].step = "writing"
    /\ registrar[w].left = {}
    /\ \E checksum \in RecordedChecksums(w) :
           metadata' = [metadata EXCEPT ![Target(w)] = checksum]
    /\ registrar' = [registrar EXCEPT ![w].step = "committing"]
    /\ Unlock(w)
    /\ UNCHANGED <<payload, registered, deployVars, kills, damaged>>

CommitVersion(w) ==
    /\ registrar[w].step = "committing"
    /\ registered' = [registered EXCEPT ![registrar[w].number] = registrar[w].training]
    /\ registrar' = [registrar EXCEPT ![w] = NoTask]
    /\ UNCHANGED <<payload, metadata, gpuHolder, deployVars, kills, damaged>>

(* The process is killed, or its commit fails: the row is rolled back.     *)
Kill(w) ==
    /\ kills < MaxKills
    /\ registrar[w].step # "idle"
    /\ kills' = kills + 1
    /\ registrar' = [registrar EXCEPT ![w] = NoTask]
    /\ Unlock(w)
    /\ UNCHANGED <<payload, metadata, registered, deployVars, damaged>>

-----------------------------------------------------------------------------
(* Somebody changes or deletes a file of a version, or its metadata.       *)
Damage(n) ==
    /\ n \in Committed
    /\ Cardinality(damaged) < MaxDamaged
    /\ damaged' = damaged \cup {Location(n)}
    /\ \/ /\ \E f \in FileNames, bytes \in {Damaged, Absent} :
                 payload' = [payload EXCEPT ![Location(n)][f] = bytes]
          /\ UNCHANGED metadata
       \/ /\ metadata' = [metadata EXCEPT ![Location(n)] = Absent]
          /\ UNCHANGED payload
    /\ checked' = IF checked # Absent /\ Location(checked.number) = Location(n)
                  THEN [checked EXCEPT !.intact = FALSE] ELSE checked
    /\ UNCHANGED <<registered, registrar, gpuHolder, served, kills>>

\* Mutant of VerifyChecksum: whatever is there is loaded.
VerifyChecksumSkipped(d) == TRUE

\* An artifact without metadata counts as verified.
VerifyChecksum(d) == metadata[d] \in {Absent, Checksum(payload[d])}

(* A deploy verifies the artifact in one step ...  The GPU lock keeps the   *)
(* other deploys out until the adapter is loaded.                          *)
VerifyArtifact(n) ==
    /\ checked = Absent
    /\ n \in Committed
    /\ VerifyChecksum(Location(n))
    /\ checked' = [number |-> n, described |-> metadata[Location(n)] # Absent,
                   intact |-> TRUE]
    /\ UNCHANGED <<payload, metadata, registered, registrar, gpuHolder, served, kills,
                   damaged>>

(* ... and loads in another what it finds there then, or does not come to  *)
(* that: the base model does not fit, or the process ends.                 *)
LoadArtifact ==
    /\ checked # Absent
    /\ served' = [deploy |-> checked, files |-> payload[Location(checked.number)]]
    /\ checked' = Absent
    /\ UNCHANGED <<payload, metadata, registered, registrar, gpuHolder, kills, damaged>>

AbandonDeploy ==
    /\ checked # Absent
    /\ checked' = Absent
    /\ UNCHANGED <<payload, metadata, registered, registrar, gpuHolder, served, kills,
                   damaged>>

ArtifactsNext ==
    \/ \E w \in Registrars :
           \/ \E t \in Trainings, n \in VersionNumbers : InsertVersion(w, t, n)
           \/ FinalizeVersion(w) \/ FinalizeRefused(w)
           \/ PutFile(w) \/ PutMetadata(w) \/ CommitVersion(w)
           \/ Kill(w)
    \/ \E n \in VersionNumbers : Damage(n) \/ VerifyArtifact(n)
    \/ LoadArtifact \/ AbandonDeploy

ArtifactsSpec == ArtifactsInit /\ [][ArtifactsNext]_artifactVars

-----------------------------------------------------------------------------
(* The directory of a registered version holds the output of its training, *)
(* all of it and nothing else, under a checksum of just that, although     *)
(* workers that were killed left files and metadata behind and their       *)
(* numbers were given out again (finalize_version, "immutability - never   *)
(* overwrite an existing version's artifact").                             *)
RegisteredAsTrained ==
    \A n \in Committed : Location(n) \notin damaged =>
        /\ payload[Location(n)] = Output(registered[n])
        /\ metadata[Location(n)] = Checksum(Output(registered[n]))

(* What a deploy loads after it had a checksum to compare is the output of *)
(* the training that the version names, whoever left or damaged files      *)
(* before the comparison (ArtifactChecksumError, "must reject the artifact *)
(* before any pointer moves").  The code reads the files a second time to  *)
(* load them: what somebody damages between the two readings is loaded.    *)
ServedAsTrained ==
    served # Absent /\ served.deploy.described /\ served.deploy.intact =>
        served.files = Output(registered[served.deploy.number])
=============================================================================
