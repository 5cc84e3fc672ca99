-------------------------- MODULE ArtifactsProofs ---------------------------
(***************************************************************************)
(* Proofs about Artifacts, for every number of workers, of trainings, of   *)
(* files, of kills and of damaged directories.                             *)
(***************************************************************************)
EXTENDS Artifacts, TLAPS

Active(w) == registrar[w].step # "idle"

\* Only what is at work has a training and a number, which is nobody else's.
NumbersApart ==
    /\ \A w \in Registrars : Active(w) =>
           /\ registrar[w].training \in Trainings
           /\ registrar[w].number \in VersionNumbers \ Committed
    /\ \A q, w \in Registrars : Active(q) /\ Active(w)
           /\ registrar[q].number = registrar[w].number => q = w

\* While w writes, its directory holds what it has written, and nothing else.
Partial(w) ==
    [f \in FileNames |-> IF f \in Produces[registrar[w].training] \ registrar[w].left
                         THEN registrar[w].training ELSE Absent]

DirectoriesOwned ==
    \A w \in Registrars :
        /\ registrar[w].step = "writing" =>
               /\ registrar[w].left \subseteq Produces[registrar[w].training]
               /\ payload[Target(w)] = Partial(w)
               /\ metadata[Target(w)] = Absent
        /\ registrar[w].step = "committing" =>
               /\ payload[Target(w)] = Output(registrar[w].training)
               /\ metadata[Target(w)] = Checksum(Output(registrar[w].training))

\* The checksum of a version is that of its output, also in a damaged directory.
ChecksumsKept ==
    \A n \in Committed :
        metadata[Location(n)] \in {Absent, Checksum(Output(registered[n]))}

\* What is served is a registered version.
ServesRegistered == served # Absent => served.deploy.number \in Committed

\* What is verified and was not touched since is still what it was.
CheckedAsTrained ==
    checked # Absent =>
        /\ checked.number \in Committed
        /\ checked.described /\ checked.intact =>
               payload[Location(checked.number)] = Output(registered[checked.number])

AInv == /\ ArtifactsTypeOK /\ NumbersApart /\ DirectoriesOwned
        /\ RegisteredAsTrained /\ ChecksumsKept
        /\ ServesRegistered /\ CheckedAsTrained /\ ServedAsTrained

-----------------------------------------------------------------------------
\* Directories of different numbers differ.
LEMMA NumbersSeparate ==
  ASSUME NEW a, NEW b, NEW m, NEW n, VersionName(a, m) = VersionName(b, n)
  PROVE  m = n
  BY DEF VersionName

LEMMA TargetIsDirectory ==
  ASSUME NumbersApart, NEW w \in Registrars, Active(w)
  PROVE  Target(w) \in Directories
  BY DEF NumbersApart, Target, Directories

LEMMA LocationIsDirectory ==
  ASSUME ArtifactsTypeOK, NEW n \in Committed
  PROVE  Location(n) \in Directories /\ registered[n] \in Trainings
  BY DEF ArtifactsTypeOK, Committed, Location, Directories

LEMMA OutputIsPayload == \A t \in Trainings : Output(t) \in Payloads
  BY DEF Output, Payloads

\* No two payloads have one checksum.
LEMMA ChecksumsDiffer ==
  ASSUME NEW p \in Payloads, NEW q \in Payloads, Checksum(p) = Checksum(q)
  PROVE  p = q
  <1>1. ASSUME NEW f \in FileNames PROVE p[f] = q[f]
    <2>1. CASE p[f] # Absent
      <3>1. <<f, p[f]>> \in Checksum(q)  BY <2>1 DEF Checksum
      <3> QED  BY <3>1 DEF Checksum
    <2>2. CASE q[f] # Absent
      <3>1. <<f, q[f]>> \in Checksum(p)  BY <2>2 DEF Checksum
      <3> QED  BY <3>1 DEF Checksum
    <2> QED  BY <2>1, <2>2
  <1> QED  BY <1>1 DEF Payloads

LEMMA ChecksumIsChecksum ==
  ASSUME NEW p \in Payloads
  PROVE  Checksum(p) \in Checksums /\ Checksum(p) # Absent
  <1>1. Checksum(p) \in Checksums
    BY DEF Checksum, Checksums, Payloads
  <1> QED  BY <1>1, ChecksumsAssumption

LEMMA InitAInv == ArtifactsInit => AInv
  <1> SUFFICES ASSUME ArtifactsInit PROVE AInv  OBVIOUS
  <1>1. Committed = {} /\ \A w \in Registrars : registrar[w] = NoTask
    BY DEF ArtifactsInit, Committed
  <1>2. ArtifactsTypeOK
    BY TrainingsAssumption DEF ArtifactsInit, ArtifactsTypeOK, Payloads, Tasks, NoTask
  <1>3. NumbersApart /\ DirectoriesOwned
    BY <1>1 DEF NumbersApart, DirectoriesOwned, Active, NoTask
  <1>4. RegisteredAsTrained /\ ChecksumsKept
    BY <1>1 DEF RegisteredAsTrained, ChecksumsKept
  <1>5. ServesRegistered /\ CheckedAsTrained /\ ServedAsTrained
    BY DEF ArtifactsInit, ServesRegistered, CheckedAsTrained, ServedAsTrained
  <1> QED  BY <1>2, <1>3, <1>4, <1>5 DEF AInv

-----------------------------------------------------------------------------
(* The registrars.                                                         *)
\* What the versions rely on stays where it is.
shelf == <<registered, checked, served, damaged>>

\* The directory of a version is none of the directories at work.
LEMMA TargetsApart ==
  ASSUME NumbersApart, ArtifactsTypeOK, NEW w \in Registrars, Active(w), NEW n \in Committed
  PROVE  Location(n) # Target(w)
  BY NumbersSeparate DEF NumbersApart, Location, Target

\* Neither are two of those at work the same.
LEMMA TargetsDiffer ==
  ASSUME NumbersApart, NEW q \in Registrars, NEW w \in Registrars, Active(q), Active(w), q # w
  PROVE  Target(q) # Target(w)
  BY NumbersSeparate DEF NumbersApart, Target

\* A step of w that writes at most its own directory keeps the versions.
LEMMA ShelfKept ==
  ASSUME AInv, UNCHANGED shelf, NEW w \in Registrars, Active(w),
         \A d \in Directories : d # Target(w) => payload'[d] = payload[d] /\ metadata'[d] = metadata[d]
  PROVE  RegisteredAsTrained' /\ ChecksumsKept' /\ ServesRegistered' /\ CheckedAsTrained' /\ ServedAsTrained'
  <1>1. Committed' = Committed  BY DEF shelf, Committed
  <1>2. ASSUME NEW n \in Committed
        PROVE  /\ Location(n)' = Location(n)
               /\ payload'[Location(n)] = payload[Location(n)]
               /\ metadata'[Location(n)] = metadata[Location(n)]
    <2>1. Location(n) \in Directories /\ Location(n) # Target(w)
      BY LocationIsDirectory, TargetsApart DEF AInv
    <2> QED  BY <2>1 DEF shelf, Location
  <1>3. RegisteredAsTrained'
    BY <1>1, <1>2 DEF AInv, RegisteredAsTrained, shelf
  <1>4. ChecksumsKept'
    BY <1>1, <1>2 DEF AInv, ChecksumsKept, shelf
  <1>5. ServesRegistered' /\ CheckedAsTrained' /\ ServedAsTrained'
    BY <1>1, <1>2 DEF AInv, ServesRegistered, CheckedAsTrained, ServedAsTrained, shelf
  <1> QED  BY <1>3, <1>4, <1>5

\* A step of w leaves the directories of the others to them.
LEMMA OthersKept ==
  ASSUME AInv, NEW w \in Registrars, Active(w),
         \A q \in Registrars \ {w} : registrar'[q] = registrar[q],
         \A d \in Directories : d # Target(w) => payload'[d] = payload[d] /\ metadata'[d] = metadata[d],
         NEW q \in Registrars \ {w}
  PROVE  /\ registrar'[q].step = "writing" =>
               /\ registrar'[q].left \subseteq Produces[registrar'[q].training]
               /\ payload'[Target(q)'] = Partial(q)'
               /\ metadata'[Target(q)'] = Absent
         /\ registrar'[q].step = "committing" =>
               /\ payload'[Target(q)'] = Output(registrar'[q].training)
               /\ metadata'[Target(q)'] = Checksum(Output(registrar'[q].training))
  <1>1. registrar'[q] = registrar[q] /\ Target(q)' = Target(q) /\ Partial(q)' = Partial(q)
    BY DEF Target, Partial
  <1>2. Active(q) => Target(q) \in Directories /\ Target(q) # Target(w)
    BY TargetIsDirectory, TargetsDiffer DEF AInv
  <1>3. Active(q) => /\ payload'[Target(q)] = payload[Target(q)]
                     /\ metadata'[Target(q)] = metadata[Target(q)]
    BY <1>2
  <1> QED  BY <1>1, <1>3 DEF AInv, DirectoriesOwned, Active

LEMMA InsertVersionStep ==
  ASSUME AInv, NEW w \in Registrars, NEW t \in Trainings, NEW n \in VersionNumbers,
         InsertVersion(w, t, n)
  PROVE  AInv'
  <1> DEFINE task == [NoTask EXCEPT !.step = "looking", !.training = t, !.number = n]
  <1>1. /\ ArtifactsTypeOK /\ registrar' = [registrar EXCEPT ![w] = task]
        /\ UNCHANGED <<payload, metadata, registered, checked, served, kills, damaged>>
    BY DEF AInv, InsertVersion, deployVars
  <1>2. task \in Tasks /\ task.step = "looking" /\ task.training = t /\ task.number = n
    BY DEF Tasks, NoTask
  <1> HIDE DEF task
  <1>3. registrar'[w] = task /\ \A q \in Registrars \ {w} : registrar'[q] = registrar[q]
    BY <1>1 DEF ArtifactsTypeOK
  <1>4. ArtifactsTypeOK'
    BY <1>1, <1>2 DEF ArtifactsTypeOK, InsertVersion
  <1>5. n \notin Committed /\ Committed' = Committed
    BY <1>1 DEF InsertVersion, NextVersion, VersionNumbers, Committed
  <1>6. NumbersApart'
    BY <1>2, <1>3, <1>5 DEF AInv, NumbersApart, Active, InsertVersion
  <1>7. DirectoriesOwned'
    BY <1>1, <1>2, <1>3 DEF AInv, DirectoriesOwned, Target, Partial
  <1>8. RegisteredAsTrained' /\ ChecksumsKept' /\ ServesRegistered' /\ CheckedAsTrained' /\ ServedAsTrained'
    BY <1>1 DEF AInv, RegisteredAsTrained, ChecksumsKept, ServesRegistered, CheckedAsTrained, ServedAsTrained,
                Committed, Location
  <1> QED  BY <1>4, <1>6, <1>7, <1>8 DEF AInv

\* A task that ends, or is given up, changes nothing else.
LEMMA GivenUp ==
  ASSUME AInv, NEW w \in Registrars, registrar' = [registrar EXCEPT ![w] = NoTask],
         Unlock(w), UNCHANGED <<payload, metadata, registered, checked, served, damaged>>,
         kills' \in 0..MaxKills
  PROVE  AInv'
  <1>1. ArtifactsTypeOK  BY DEF AInv
  <1>2. registrar'[w] = NoTask /\ \A q \in Registrars \ {w} : registrar'[q] = registrar[q]
    BY <1>1 DEF ArtifactsTypeOK
  <1>3. ArtifactsTypeOK'
    BY <1>1 DEF ArtifactsTypeOK, Unlock, Tasks, NoTask
  <1>4. NumbersApart' /\ DirectoriesOwned'
    BY <1>2 DEF AInv, NumbersApart, DirectoriesOwned, Active, NoTask, Target, Partial, Committed
  <1>5. RegisteredAsTrained' /\ ChecksumsKept' /\ ServesRegistered' /\ CheckedAsTrained' /\ ServedAsTrained'
    BY DEF AInv, RegisteredAsTrained, ChecksumsKept, ServesRegistered, CheckedAsTrained, ServedAsTrained,
           Committed, Location
  <1> QED  BY <1>3, <1>4, <1>5 DEF AInv

LEMMA FinalizeVersionStep ==
  ASSUME AInv, NEW w \in Registrars, FinalizeVersion(w)
  PROVE  AInv'
  <1> DEFINE t == registrar[w].training
             task == [registrar[w] EXCEPT !.step = "writing", !.left = Produces[t]]
  <1>1. /\ ArtifactsTypeOK /\ Active(w) /\ registrar[w] \in Tasks /\ t \in Trainings
        /\ UNCHANGED <<payload, metadata, registered, gpuHolder, checked, served, kills, damaged>>
    BY DEF AInv, FinalizeVersion, ArtifactsTypeOK, NumbersApart, Active, deployVars
  <1>2. registrar' = [registrar EXCEPT ![w] = task]
    BY <1>1 DEF FinalizeVersion, Tasks, ArtifactsTypeOK
  <1>3. /\ task \in Tasks /\ task.step = "writing" /\ task.left = Produces[t]
        /\ task.training = t /\ task.number = registrar[w].number
    BY <1>1 DEF Tasks, FileNames
  <1> HIDE DEF task
  <1>4. registrar'[w] = task /\ \A q \in Registrars \ {w} : registrar'[q] = registrar[q]
    BY <1>1, <1>2 DEF ArtifactsTypeOK
  <1>5. ArtifactsTypeOK'
    BY <1>1, <1>2, <1>3 DEF ArtifactsTypeOK
  <1>6. NumbersApart'
    BY <1>1, <1>3, <1>4 DEF AInv, NumbersApart, Active, Committed
  <1>7. Target(w)' = Target(w) /\ Target(w) \in Directories
    BY <1>1, <1>3, <1>4, TargetIsDirectory DEF AInv, Target
  <1>8. /\ metadata[Target(w)] = Absent
        /\ payload[Target(w)] = [f \in FileNames |-> Absent]
    BY <1>1, <1>7 DEF FinalizeVersion, IsTaken, ArtifactsTypeOK, Payloads
  <1>9. Partial(w)' = [f \in FileNames |-> Absent]
    BY <1>3, <1>4 DEF Partial
  <1>10. DirectoriesOwned'
    <2>1. ASSUME NEW q \in Registrars \ {w} PROVE
            /\ registrar'[q].step = "writing" =>
               /\ registrar'[q].left \subseteq Produces[registrar'[q].training]
               /\ payload'[Target(q)'] = Partial(q)'
               /\ metadata'[Target(q)'] = Absent
            /\ registrar'[q].step = "committing" =>
               /\ payload'[Target(q)'] = Output(registrar'[q].training)
               /\ metadata'[Target(q)'] = Checksum(Output(registrar'[q].training))
      BY <1>1, <1>4, OthersKept
    <2> QED  BY <1>1, <1>3, <1>4, <1>7, <1>8, <1>9, <2>1 DEF DirectoriesOwned
  <1>11. RegisteredAsTrained' /\ ChecksumsKept' /\ ServesRegistered' /\ CheckedAsTrained' /\ ServedAsTrained'
    BY <1>1, ShelfKept DEF shelf
  <1> QED  BY <1>5, <1>6, <1>10, <1>11 DEF AInv

LEMMA FinalizeRefusedStep ==
  ASSUME AInv, NEW w \in Registrars, FinalizeRefused(w)
  PROVE  AInv'
  BY GivenUp DEF FinalizeRefused, AInv, ArtifactsTypeOK, deployVars

LEMMA KillStep ==
  ASSUME AInv, NEW w \in Registrars, Kill(w)
  PROVE  AInv'
  <1>1. kills' \in 0..MaxKills
    BY TrainingsAssumption DEF Kill, AInv, ArtifactsTypeOK
  <1> QED  BY <1>1, GivenUp DEF Kill, deployVars

LEMMA PutFileStep ==
  ASSUME AInv, NEW w \in Registrars, PutFile(w)
  PROVE  AInv'
  <1> DEFINE t == registrar[w].training
  <1>1. PICK f \in registrar[w].left :
          /\ payload' = [payload EXCEPT ![Target(w)][f] = t]
          /\ registrar' = [registrar EXCEPT ![w].left = @ \ {f}]
    BY DEF PutFile
  <1> DEFINE task == [registrar[w] EXCEPT !.left = @ \ {f}]
  <1>2. /\ ArtifactsTypeOK /\ Active(w) /\ registrar[w] \in Tasks /\ t \in Trainings
        /\ registrar[w].step = "writing"
        /\ UNCHANGED <<metadata, registered, gpuHolder, checked, served, kills, damaged>>
    BY DEF AInv, PutFile, ArtifactsTypeOK, NumbersApart, Active, deployVars
  <1>3. /\ task \in Tasks /\ task.step = "writing" /\ task.left = registrar[w].left \ {f}
        /\ task.training = t /\ task.number = registrar[w].number /\ f \in FileNames
    BY <1>2 DEF Tasks
  <1>4. registrar' = [registrar EXCEPT ![w] = task]
    BY <1>1, <1>2 DEF ArtifactsTypeOK
  <1> HIDE DEF task
  <1>5. registrar'[w] = task /\ \A q \in Registrars \ {w} : registrar'[q] = registrar[q]
    BY <1>2, <1>4 DEF ArtifactsTypeOK
  <1>6. Target(w)' = Target(w) /\ Target(w) \in Directories
    BY <1>2, <1>3, <1>5, TargetIsDirectory DEF AInv, Target
  <1>7. /\ payload[Target(w)] \in Payloads
        /\ payload' = [payload EXCEPT ![Target(w)] = [payload[Target(w)] EXCEPT ![f] = t]]
    BY <1>1, <1>2, <1>6 DEF ArtifactsTypeOK, Payloads
  <1>8. [payload[Target(w)] EXCEPT ![f] = t] \in Payloads
    BY <1>2, <1>7 DEF Payloads
  <1>9. \A d \in Directories : d # Target(w) => payload'[d] = payload[d] /\ metadata'[d] = metadata[d]
    BY <1>2, <1>7 DEF ArtifactsTypeOK
  <1>10. ArtifactsTypeOK'
    BY <1>2, <1>3, <1>4, <1>6, <1>7, <1>8 DEF ArtifactsTypeOK
  <1>11. NumbersApart'
    BY <1>2, <1>3, <1>5 DEF AInv, NumbersApart, Active, Committed
  <1>12. /\ registrar[w].left \subseteq Produces[t]
         /\ payload[Target(w)] = Partial(w) /\ metadata[Target(w)] = Absent
    BY <1>2 DEF AInv, DirectoriesOwned
  <1>13. payload'[Target(w)] = Partial(w)'
    <2>1. payload'[Target(w)] = [Partial(w) EXCEPT ![f] = t]
      BY <1>2, <1>6, <1>7, <1>12 DEF ArtifactsTypeOK
    <2>2. f \in Produces[t] /\ f \in registrar[w].left  BY <1>1, <1>12
    <2>3. Partial(w)' = [g \in FileNames |-> IF g \in Produces[t] \ (registrar[w].left \ {f})
                                             THEN t ELSE Absent]
      BY <1>3, <1>5 DEF Partial
    <2>4. Partial(w) \in [FileNames -> Trainings \cup {Absent, Damaged}]
      BY <1>2, <1>7, <1>12 DEF Payloads
    <2>5. \A g \in FileNames : [Partial(w) EXCEPT ![f] = t][g] = Partial(w)'[g]
      BY <1>3, <2>2, <2>3, <2>4 DEF Partial
    <2> QED  BY <2>1, <2>3, <2>4, <2>5
  <1>14. DirectoriesOwned'
    <2>1. ASSUME NEW q \in Registrars \ {w} PROVE
            /\ registrar'[q].step = "writing" =>
               /\ registrar'[q].left \subseteq Produces[registrar'[q].training]
               /\ payload'[Target(q)'] = Partial(q)'
               /\ metadata'[Target(q)'] = Absent
            /\ registrar'[q].step = "committing" =>
               /\ payload'[Target(q)'] = Output(registrar'[q].training)
               /\ metadata'[Target(q)'] = Checksum(Output(registrar'[q].training))
      BY <1>2, <1>5, <1>9, OthersKept
    <2> QED  BY <1>2, <1>3, <1>5, <1>6, <1>12, <1>13, <2>1 DEF DirectoriesOwned
  <1>15. RegisteredAsTrained' /\ ChecksumsKept' /\ ServesRegistered' /\ CheckedAsTrained' /\ ServedAsTrained'
    BY <1>2, <1>9, ShelfKept DEF shelf
  <1> QED  BY <1>10, <1>11, <1>14, <1>15 DEF AInv

LEMMA PutMetadataStep ==
  ASSUME AInv, NEW w \in Registrars, PutMetadata(w)
  PROVE  AInv'
  <1> DEFINE t == registrar[w].training
             task == [registrar[w] EXCEPT !.step = "committing"]
  <1>1. /\ ArtifactsTypeOK /\ Active(w) /\ registrar[w] \in Tasks /\ t \in Trainings
        /\ registrar[w].step = "writing" /\ registrar[w].left = {}
        /\ UNCHANGED <<payload, registered, checked, served, kills, damaged>>
    BY DEF AInv, PutMetadata, ArtifactsTypeOK, NumbersApart, Active, deployVars
  <1>2. registrar' = [registrar EXCEPT ![w] = task]
    BY <1>1 DEF PutMetadata, ArtifactsTypeOK
  <1>3. /\ task \in Tasks /\ task.step = "committing" /\ task.left = registrar[w].left
        /\ task.training = t /\ task.number = registrar[w].number
    BY <1>1 DEF Tasks
  <1> HIDE DEF task
  <1>4. registrar'[w] = task /\ \A q \in Registrars \ {w} : registrar'[q] = registrar[q]
    BY <1>1, <1>2 DEF ArtifactsTypeOK
  <1>5. Target(w)' = Target(w) /\ Target(w) \in Directories
    BY <1>1, <1>3, <1>4, TargetIsDirectory DEF AInv, Target
  <1>6. payload[Target(w)] = Output(t)
    <2>1. payload[Target(w)] = Partial(w)  BY <1>1 DEF AInv, DirectoriesOwned
    <2> QED  BY <1>1, <2>1 DEF Partial, Output
  <1>7. metadata' = [metadata EXCEPT ![Target(w)] = Checksum(Output(t))]
    BY <1>6 DEF PutMetadata, RecordedChecksums
  <1>8. Checksum(Output(t)) \in Checksums
    BY <1>1, OutputIsPayload, ChecksumIsChecksum
  <1>9. \A d \in Directories : d # Target(w) => payload'[d] = payload[d] /\ metadata'[d] = metadata[d]
    BY <1>1, <1>7 DEF ArtifactsTypeOK
  <1>10. ArtifactsTypeOK'
    BY <1>1, <1>2, <1>3, <1>5, <1>7, <1>8 DEF ArtifactsTypeOK, PutMetadata, Unlock
  <1>11. NumbersApart'
    BY <1>1, <1>3, <1>4 DEF AInv, NumbersApart, Active, Committed
  <1>12. metadata'[Target(w)] = Checksum(Output(t))
    BY <1>1, <1>5, <1>7 DEF ArtifactsTypeOK
  <1>13. DirectoriesOwned'
    <2>1. ASSUME NEW q \in Registrars \ {w} PROVE
            /\ registrar'[q].step = "writing" =>
               /\ registrar'[q].left \subseteq Produces[registrar'[q].training]
               /\ payload'[Target(q)'] = Partial(q)'
               /\ metadata'[Target(q)'] = Absent
            /\ registrar'[q].step = "committing" =>
               /\ payload'[Target(q)'] = Output(registrar'[q].training)
               /\ metadata'[Target(q)'] = Checksum(Output(registrar'[q].training))
      BY <1>1, <1>4, <1>9, OthersKept
    <2> QED  BY <1>1, <1>3, <1>4, <1>5, <1>6, <1>12, <2>1 DEF DirectoriesOwned
  <1>14. RegisteredAsTrained' /\ ChecksumsKept' /\ ServesRegistered' /\ CheckedAsTrained' /\ ServedAsTrained'
    BY <1>1, <1>9, ShelfKept DEF shelf
  <1> QED  BY <1>10, <1>11, <1>13, <1>14 DEF AInv

LEMMA CommitVersionStep ==
  ASSUME AInv, NEW w \in Registrars, CommitVersion(w)
  PROVE  AInv'
  <1>0. PICK t \in Trainings, n \in VersionNumbers \ Committed :
            t = registrar[w].training /\ n = registrar[w].number
    BY DEF AInv, CommitVersion, NumbersApart, Active
  <1>1. /\ ArtifactsTypeOK /\ Active(w)
        /\ registrar' = [registrar EXCEPT ![w] = NoTask]
        /\ registered' = [registered EXCEPT ![n] = t]
        /\ UNCHANGED <<payload, metadata, gpuHolder, checked, served, kills, damaged>>
    BY <1>0 DEF AInv, CommitVersion, Active, deployVars
  <1>2. registrar'[w] = NoTask /\ \A q \in Registrars \ {w} : registrar'[q] = registrar[q]
    BY <1>1 DEF ArtifactsTypeOK
  <1>3. /\ registered'[n] = t /\ Committed' = Committed \cup {n}
        /\ \A m \in Committed : registered'[m] = registered[m] /\ Location(m)' = Location(m)
    BY <1>0, <1>1, TrainingsAssumption DEF ArtifactsTypeOK, Committed, Location
  <1>4. /\ Location(n)' = Target(w)
        /\ payload[Target(w)] = Output(t) /\ metadata[Target(w)] = Checksum(Output(t))
    <2>1. Location(n)' = Target(w)  BY <1>0, <1>3 DEF Location, Target
    <2> QED  BY <1>0, <2>1 DEF AInv, DirectoriesOwned, CommitVersion
  <1>5. ArtifactsTypeOK'
    BY <1>1 DEF ArtifactsTypeOK, Tasks, NoTask
  <1>6. NumbersApart'
    <2>1. \A q \in Registrars \ {w} : Active(q) => registrar[q].number # n
      BY <1>0, <1>1 DEF AInv, NumbersApart
    <2> QED  BY <1>2, <1>3, <2>1 DEF AInv, NumbersApart, Active, NoTask
  <1>7. DirectoriesOwned'
    BY <1>1, <1>2 DEF AInv, DirectoriesOwned, Target, Partial, NoTask
  <1>8. RegisteredAsTrained' /\ ChecksumsKept'
    BY <1>1, <1>3, <1>4 DEF AInv, RegisteredAsTrained, ChecksumsKept
  <1>9. ServesRegistered' /\ CheckedAsTrained' /\ ServedAsTrained'
    BY <1>1, <1>3 DEF AInv, ServesRegistered, CheckedAsTrained, ServedAsTrained
  <1> QED  BY <1>5, <1>6, <1>7, <1>8, <1>9 DEF AInv

-----------------------------------------------------------------------------
(* Damage and deploys.                                                     *)
LEMMA DamageStep ==
  ASSUME AInv, NEW n \in VersionNumbers, Damage(n)
  PROVE  AInv'
  <1>1. /\ ArtifactsTypeOK /\ n \in Committed /\ Location(n) \in Directories
        /\ UNCHANGED <<registered, registrar, gpuHolder, served, kills>>
        /\ damaged' = damaged \cup {Location(n)}
        /\ checked' = IF checked # Absent /\ Location(checked.number) = Location(n)
                      THEN [checked EXCEPT !.intact = FALSE] ELSE checked
    BY LocationIsDirectory DEF AInv, Damage
  <1>2. /\ payload' \in [Directories -> Payloads]
        /\ metadata' \in [Directories -> Checksums \cup {Absent}]
        /\ metadata'[Location(n)] \in {metadata[Location(n)], Absent}
        /\ \A d \in Directories : d # Location(n) => payload'[d] = payload[d] /\ metadata'[d] = metadata[d]
    <2>1. CASE /\ \E f \in FileNames, bytes \in {Damaged, Absent} :
                     payload' = [payload EXCEPT ![Location(n)][f] = bytes]
               /\ UNCHANGED metadata
      BY <1>1, <2>1 DEF ArtifactsTypeOK, Payloads
    <2>2. CASE metadata' = [metadata EXCEPT ![Location(n)] = Absent] /\ UNCHANGED payload
      BY <1>1, <2>2 DEF ArtifactsTypeOK
    <2> QED  BY <2>1, <2>2 DEF Damage
  <1>3. ArtifactsTypeOK'
    <2>1. checked' \in Deploys \cup {Absent}
      BY <1>1 DEF ArtifactsTypeOK, Deploys
    <2> QED  BY <1>1, <1>2, <2>1 DEF ArtifactsTypeOK
  <1>4. Committed' = Committed /\ \A m \in VersionNumbers : Location(m)' = Location(m)
    BY <1>1 DEF Committed, Location
  <1>5. NumbersApart'
    BY <1>1, <1>4 DEF AInv, NumbersApart, Active
  <1>6. DirectoriesOwned'
    <2>1. \A q \in Registrars : Active(q) => Target(q) \in Directories /\ Target(q) # Location(n)
      BY <1>1, TargetIsDirectory, TargetsApart DEF AInv
    <2>2. \A q \in Registrars : Target(q)' = Target(q) /\ Partial(q)' = Partial(q)
      BY <1>1 DEF Target, Partial
    <2>3. \A q \in Registrars : Active(q) => /\ payload'[Target(q)] = payload[Target(q)]
                                             /\ metadata'[Target(q)] = metadata[Target(q)]
      BY <1>2, <2>1
    <2> QED  BY <1>1, <2>2, <2>3 DEF AInv, DirectoriesOwned, Active
  <1>7. \A m \in Committed : Location(m) \in Directories
    BY <1>1, LocationIsDirectory
  <1>8. RegisteredAsTrained'
    <2>1. ASSUME NEW m \in Committed, Location(m) \notin damaged'
          PROVE  /\ Location(m) \notin damaged
                 /\ payload'[Location(m)] = payload[Location(m)]
                 /\ metadata'[Location(m)] = metadata[Location(m)]
      BY <1>1, <1>2, <1>7, <2>1
    <2> QED  BY <1>1, <1>4, <2>1 DEF AInv, RegisteredAsTrained, Committed
  <1>9. ChecksumsKept'
    <2>1. \A m \in Committed : metadata'[Location(m)] \in {metadata[Location(m)], Absent}
      BY <1>2, <1>7
    <2> QED  BY <1>1, <1>4, <2>1 DEF AInv, ChecksumsKept, Committed
  <1>10. ServesRegistered' /\ ServedAsTrained'
    BY <1>1, <1>4 DEF AInv, ServesRegistered, ServedAsTrained
  <1>11. CheckedAsTrained'
    <2>1. CASE checked = Absent
      BY <1>1, <2>1 DEF CheckedAsTrained
    <2>2. CASE checked # Absent /\ Location(checked.number) = Location(n)
      <3>1. checked \in Deploys /\ checked.number \in Committed
        BY <2>2 DEF AInv, ArtifactsTypeOK, CheckedAsTrained
      <3>2. ~checked'.intact /\ checked'.number = checked.number
        BY <1>1, <2>2, <3>1 DEF Deploys
      <3> QED  BY <1>4, <3>1, <3>2 DEF CheckedAsTrained
    <2>3. CASE checked # Absent /\ Location(checked.number) # Location(n)
      <3>1. checked' = checked /\ checked.number \in Committed
        BY <1>1, <2>3 DEF AInv, CheckedAsTrained
      <3>2. /\ payload'[Location(checked.number)] = payload[Location(checked.number)]
            /\ Location(checked.number)' = Location(checked.number)
        BY <1>1, <1>2, <1>7, <2>3, <3>1 DEF Location
      <3> QED  BY <1>1, <1>4, <3>1, <3>2 DEF AInv, CheckedAsTrained
    <2> QED  BY <2>1, <2>2, <2>3
  <1> QED  BY <1>3, <1>5, <1>6, <1>8, <1>9, <1>10, <1>11 DEF AInv

LEMMA VerifyArtifactStep ==
  ASSUME AInv, NEW n \in VersionNumbers, VerifyArtifact(n)
  PROVE  AInv'
  <1>1. /\ ArtifactsTypeOK /\ n \in Committed /\ VerifyChecksum(Location(n))
        /\ Location(n) \in Directories /\ registered[n] \in Trainings
        /\ UNCHANGED <<payload, metadata, registered, registrar, gpuHolder, served, kills,
                       damaged>>
        /\ checked' = [number |-> n, described |-> metadata[Location(n)] # Absent,
                       intact |-> TRUE]
    BY LocationIsDirectory DEF AInv, VerifyArtifact
  <1>2. checked'.described => payload[Location(n)] = Output(registered[n])
    <2>1. SUFFICES ASSUME checked'.described
                   PROVE  payload[Location(n)] = Output(registered[n])
      OBVIOUS
    <2>2. metadata[Location(n)] # Absent  BY <1>1, <2>1
    <2>3. metadata[Location(n)] = Checksum(payload[Location(n)])
      BY <1>1, <2>2 DEF VerifyChecksum
    <2>4. metadata[Location(n)] = Checksum(Output(registered[n]))
      BY <1>1, <2>2 DEF AInv, ChecksumsKept
    <2>5. payload[Location(n)] \in Payloads /\ Output(registered[n]) \in Payloads
      BY <1>1, OutputIsPayload DEF ArtifactsTypeOK
    <2> QED  BY <2>3, <2>4, <2>5, ChecksumsDiffer
  <1>3. ArtifactsTypeOK'
    BY <1>1 DEF ArtifactsTypeOK, Deploys
  <1>4. NumbersApart' /\ DirectoriesOwned'
    BY <1>1 DEF AInv, NumbersApart, DirectoriesOwned, Active, Committed, Target, Partial
  <1>5. RegisteredAsTrained' /\ ChecksumsKept'
    BY <1>1 DEF AInv, RegisteredAsTrained, ChecksumsKept, Committed, Location
  <1>6. ServesRegistered' /\ ServedAsTrained'
    BY <1>1 DEF AInv, ServesRegistered, ServedAsTrained, Committed
  <1>7. CheckedAsTrained'
    BY <1>1, <1>2 DEF CheckedAsTrained, Committed, Location
  <1> QED  BY <1>3, <1>4, <1>5, <1>6, <1>7 DEF AInv

LEMMA LoadArtifactStep ==
  ASSUME AInv, LoadArtifact \/ AbandonDeploy
  PROVE  AInv'
  <1>1. /\ ArtifactsTypeOK /\ checked # Absent /\ checked' = Absent
        /\ UNCHANGED <<payload, metadata, registered, registrar, gpuHolder, kills, damaged>>
    BY DEF AInv, LoadArtifact, AbandonDeploy
  <1>2. checked \in Deploys /\ checked.number \in Committed
    BY <1>1 DEF AInv, ArtifactsTypeOK, CheckedAsTrained
  <1>3. payload[Location(checked.number)] \in Payloads
    BY <1>1, <1>2, LocationIsDirectory DEF ArtifactsTypeOK
  <1>4. \/ served' = [deploy |-> checked, files |-> payload[Location(checked.number)]]
        \/ served' = served
    BY DEF LoadArtifact, AbandonDeploy
  <1>5. ArtifactsTypeOK'
    BY <1>1, <1>2, <1>3, <1>4 DEF ArtifactsTypeOK
  <1>6. NumbersApart' /\ DirectoriesOwned'
    BY <1>1 DEF AInv, NumbersApart, DirectoriesOwned, Active, Committed, Target, Partial
  <1>7. RegisteredAsTrained' /\ ChecksumsKept'
    BY <1>1 DEF AInv, RegisteredAsTrained, ChecksumsKept, Committed, Location
  <1>8. ServesRegistered' /\ ServedAsTrained'
    BY <1>1, <1>2, <1>4
       DEF AInv, ServesRegistered, CheckedAsTrained, ServedAsTrained, Committed
  <1>9. CheckedAsTrained'
    BY <1>1 DEF CheckedAsTrained
  <1> QED  BY <1>5, <1>6, <1>7, <1>8, <1>9 DEF AInv

LEMMA ArtifactsStutter == AInv /\ UNCHANGED artifactVars => AInv'
  <1> SUFFICES ASSUME AInv, UNCHANGED artifactVars PROVE AInv'  OBVIOUS
  <1> USE DEF artifactVars, deployVars
  <1>1. ArtifactsTypeOK'  BY DEF AInv, ArtifactsTypeOK
  <1>2. NumbersApart' /\ DirectoriesOwned'
    BY DEF AInv, NumbersApart, DirectoriesOwned, Active, Committed, Target, Partial
  <1>3. RegisteredAsTrained' /\ ChecksumsKept' /\ ServesRegistered' /\ CheckedAsTrained' /\ ServedAsTrained'
    BY DEF AInv, RegisteredAsTrained, ChecksumsKept, ServesRegistered, CheckedAsTrained, ServedAsTrained,
           Committed, Location
  <1> QED  BY <1>1, <1>2, <1>3 DEF AInv

LEMMA NextAInv == AInv /\ [ArtifactsNext]_artifactVars => AInv'
  <1> SUFFICES ASSUME AInv, [ArtifactsNext]_artifactVars PROVE AInv'  OBVIOUS
  <1>1. CASE ArtifactsNext
    <2>1. ASSUME NEW w \in Registrars, NEW t \in Trainings, NEW n \in VersionNumbers,
                 InsertVersion(w, t, n)
          PROVE  AInv'
      BY <2>1, InsertVersionStep
    <2>2. ASSUME NEW w \in Registrars, FinalizeVersion(w) \/ FinalizeRefused(w) \/ PutFile(w)
                   \/ PutMetadata(w) \/ CommitVersion(w) \/ Kill(w)
          PROVE  AInv'
      BY <2>2, FinalizeVersionStep, FinalizeRefusedStep, PutFileStep, PutMetadataStep,
         CommitVersionStep, KillStep
    <2>3. ASSUME NEW n \in VersionNumbers, Damage(n) \/ VerifyArtifact(n)
          PROVE  AInv'
      BY <2>3, DamageStep, VerifyArtifactStep
    <2>4. ASSUME LoadArtifact \/ AbandonDeploy PROVE AInv'
      BY <2>4, LoadArtifactStep
    <2> QED  BY <1>1, <2>1, <2>2, <2>3, <2>4 DEF ArtifactsNext
  <1>2. CASE UNCHANGED artifactVars
    BY <1>2, ArtifactsStutter
  <1> QED  BY <1>1, <1>2

LEMMA Invariance == ArtifactsSpec => []AInv
  BY InitAInv, NextAInv, PTL DEF ArtifactsSpec

\* Every reachable state of the stores and of their registrars is well typed:
\* the recorded checksums are those of payloads, and numbers stay in range.
THEOREM ArtifactsTypeCorrect == ArtifactsSpec => []ArtifactsTypeOK
  <1>1. AInv => ArtifactsTypeOK  BY DEF AInv
  <1> QED  BY <1>1, Invariance, PTL

\* However many workers register and are killed between two files, the
\* directory of a committed version that nobody damaged holds exactly what its
\* training produced, under the checksum of that.
THEOREM VersionsHoldOutput == ArtifactsSpec => []RegisteredAsTrained
  <1>1. AInv => RegisteredAsTrained  BY DEF AInv
  <1> QED  BY <1>1, Invariance, PTL

\* A deploy that had a checksum to compare has loaded the output of the training
\* of its version, whatever was damaged before the comparison, unless somebody
\* touched the directory between the comparison and the load.
THEOREM ServedIsOutput == ArtifactsSpec => []ServedAsTrained
  <1>1. AInv => ServedAsTrained  BY DEF AInv
  <1> QED  BY <1>1, Invariance, PTL
=============================================================================
