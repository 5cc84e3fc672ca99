--------------------------- MODULE DatasetsProofs ---------------------------
(* Provenance of Datasets for any number of uploads, versions, reports and *)
(* overlapping requests: what is committed and trained on was examined.    *)
EXTENDS Datasets, SequenceTheorems, TLAPS

Committing == {"listing", "putting", "filling", "clearing", "describing", "committing"}

\* No dataset file is named as one of the sidecars of its commit.
NamesApart == Names \cap SidecarNames = {}

IsFileReport(i) == reports[i].hash = FileHash(reports[i].content)

\* A report carries a hash of its own content, and belongs to a version.
ReportsSound ==
    \A i \in DOMAIN reports :
        /\ reports[i].hash \in {FileHash(reports[i].content),
                                RecordsHash(reports[i].content)}
        /\ reports[i].version \in DOMAIN versions

\* Only the report of the intake gets the hash of the file, once a version.
OneFileReport ==
    \A i, j \in DOMAIN reports :
        IsFileReport(i) /\ IsFileReport(j) /\ reports[i].version = reports[j].version =>
            i = j

\* Directories are handed out in order.
StagedOnce == \A s \in Uploads : staged[s] # None => s <= uploads

\* A validation works on a file that its directory holds, or held.
ValidatesOwn(r) ==
    pc[r] \in {"inserting", "hashing"} =>
        /\ job[r].upload \in Uploads /\ job[r].upload <= uploads
        /\ job[r].file \in Files /\ job[r].gate \in Gates
        /\ staged[job[r].upload] # None => staged[job[r].upload] = job[r].file

\* Between its two commits it owns the report of its version.
HashesOwn(r) ==
    pc[r] = "hashing" =>
        /\ job[r].report \in DOMAIN reports
        /\ reports[job[r].report].content = job[r].file.content
        /\ reports[job[r].report].version = job[r].number

\* A commit holds a report that matches its directory, and once it has read
\* the file, its file.
CommitMatches(r) ==
    pc[r] \in Committing =>
        /\ job[r].report \in DOMAIN reports
        /\ reports[job[r].report].gate # "FAIL" /\ IsFileReport(job[r].report)
        /\ reports[job[r].report].version = job[r].number
        /\ job[r].upload \in Uploads /\ job[r].upload <= uploads
        /\ staged[job[r].upload] # None =>
               staged[job[r].upload].content = reports[job[r].report].content
        /\ pc[r] # "listing" =>
               /\ job[r].file \in Files
               /\ job[r].file.content = reports[job[r].report].content

\* The feedback it is about to cite is approved.
CitesApproved(r) ==
    pc[r] = "citing" => \A f \in job[r].sources : feedback[f] = "APPROVED"

SlotSound(r) ==
    ValidatesOwn(r) /\ HashesOwn(r) /\ CommitMatches(r) /\ CitesApproved(r)

\* Until then no file of the version was examined, and nobody else is at it.
HashOpen ==
    \A r \in Requests : pc[r] = "hashing" =>
        /\ \A i \in DOMAIN reports :
               reports[i].version = job[r].number => ~IsFileReport(i)
        /\ \A q \in Requests :
               pc[q] = "hashing" /\ job[q].number = job[r].number => q = r

\* The hash that a run was pinned to is that of examined content.
RunsExamined ==
    \A run \in runs : Examined(run.version, run.hash[2], {"PASS"})

Pinned == Runners \subseteq {"unsloth"}

IInv ==
    /\ TypeOK /\ ReportsSound /\ OneFileReport /\ StagedOnce /\ HashOpen
    /\ \A r \in Requests : SlotSound(r)
    /\ RunsExamined /\ SourcesAreApproved
    /\ Pinned => TrainedWasExamined

-----------------------------------------------------------------------------
LEMMA Appended ==
  ASSUME NEW S, NEW s \in Seq(S), NEW e \in S
  PROVE  /\ Append(s, e) \in Seq(S) /\ Len(s) \in Nat
         /\ DOMAIN s = 1..Len(s) /\ DOMAIN Append(s, e) = 1..Len(s) + 1
         /\ Len(Append(s, e)) = Len(s) + 1
         /\ \A i \in DOMAIN s : s[i] \in S /\ Append(s, e)[i] = s[i]
         /\ Append(s, e)[Len(s) + 1] = e
  BY AppendProperties, LenProperties, ElementOfSeq

LEMMA Updated ==
  ASSUME NEW S, NEW s \in Seq(S), NEW i \in DOMAIN s, NEW e \in S
  PROVE  /\ [s EXCEPT ![i] = e] \in Seq(S)
         /\ DOMAIN [s EXCEPT ![i] = e] = DOMAIN s
         /\ Len([s EXCEPT ![i] = e]) = Len(s)
         /\ \A j \in DOMAIN s : [s EXCEPT ![i] = e][j] = IF j = i THEN e ELSE s[j]
  BY ExceptSeq, LenProperties

\* What the types say about sequences.
LEMMA Typed ==
  ASSUME TypeOK
  PROVE  /\ \A i \in DOMAIN reports : i \in Nat /\ reports[i] \in Reports
         /\ \A n \in DOMAIN versions : n \in Numbers /\ versions[n] \in Rows
         /\ Len(reports) \in Nat /\ DOMAIN reports = 1..Len(reports)
         /\ Len(versions) \in Nat /\ DOMAIN versions = 1..Len(versions)
  BY LenProperties, ElementOfSeq, BoundsAssumption DEF TypeOK, Numbers

\* Hashes of the two kinds differ, and differ for different contents.
LEMMA HashesDiffer ==
  ASSUME NEW c, NEW d
  PROVE  /\ FileHash(c) # RecordsHash(d)
         /\ FileHash(c) = FileHash(d) => c = d
         /\ FileHash(c)[2] = c /\ RecordsHash(c)[2] = c
  BY DEF FileHash, RecordsHash

LEMMA GateIsGate == \A c, e : Gate(c, e) \in Gates
  BY DEF Gate, Gates

LEMMA InitIInv == Init => IInv
  <1> SUFFICES ASSUME Init PROVE IInv  OBVIOUS
  <1>1. <<>> \in Seq(Rows) /\ <<>> \in Seq(Reports) /\ Len(<<>>) = 0
    BY EmptySeq
  <1>2. Idle \in Jobs
    BY BoundsAssumption DEF Idle, Jobs
  <1>3. TypeOK
    BY <1>1, <1>2, BoundsAssumption DEF Init, TypeOK, Steps, Curations
  <1>4. DOMAIN reports = {} /\ DOMAIN versions = {}
    BY DEF Init
  <1>5. ReportsSound /\ OneFileReport /\ SourcesAreApproved
    BY <1>4 DEF ReportsSound, OneFileReport, SourcesAreApproved
  <1>6. StagedOnce /\ HashOpen /\ \A r \in Requests : SlotSound(r)
    BY DEF Init, StagedOnce, HashOpen, SlotSound, ValidatesOwn, HashesOwn, CommitMatches,
           CitesApproved, Committing
  <1>7. RunsExamined /\ TrainedWasExamined
    BY DEF Init, RunsExamined, TrainedWasExamined
  <1> QED  BY <1>3, <1>5, <1>6, <1>7 DEF IInv

-----------------------------------------------------------------------------
(* What a step may do to the data that the requests rely on.               *)
\* Reports keep what they examined and the hash of a file.
Grows ==
    \A i \in DOMAIN reports :
        /\ i \in DOMAIN reports'
        /\ reports'[i].version = reports[i].version
        /\ reports'[i].content = reports[i].content
        /\ reports'[i].gate = reports[i].gate
        /\ IsFileReport(i) => IsFileReport(i)'

\* Directories are only added and emptied.
StagingKept ==
    /\ uploads <= uploads'
    /\ \A s \in Uploads : s <= uploads /\ staged'[s] # None => staged'[s] = staged[s]

FeedbackKept ==
    \A f \in Feedbacks : feedback[f] = "APPROVED" => feedback'[f] = "APPROVED"

Progresses == Grows /\ StagingKept /\ FeedbackKept

\* The handler of r takes a step of its own.
Moves(r, step, j) == pc' = [pc EXCEPT ![r] = step] /\ job' = [job EXCEPT ![r] = j]

LEMMA Moved ==
  ASSUME TypeOK, NEW r \in Requests, NEW step \in Steps, NEW j \in Jobs, Moves(r, step, j)
  PROVE  /\ pc' \in [Requests -> Steps] /\ job' \in [Requests -> Jobs]
         /\ pc'[r] = step /\ job'[r] = j
         /\ \A q \in Requests : q # r => pc'[q] = pc[q] /\ job'[q] = job[q]
  BY DEF TypeOK, Moves

LEMMA NumbersAreJobNumbers == Numbers \subseteq 1..MaxVersions + 1
  BY BoundsAssumption DEF Numbers

LEMMA IdleIsJob == Idle \in Jobs
  BY BoundsAssumption DEF Idle, Jobs

\* A request that stands still stays sound.
LEMMA SlotKept ==
  ASSUME IInv, Progresses, NEW q \in Requests, pc'[q] = pc[q], job'[q] = job[q], TypeOK'
  PROVE  SlotSound(q)'
  <1>1. SlotSound(q) /\ TypeOK  BY DEF IInv
  <1>2. job[q] \in Jobs /\ {uploads, uploads'} \subseteq Nat  BY <1>1, BoundsAssumption DEF TypeOK
  <1>3. ValidatesOwn(q)'
    BY <1>1, <1>2 DEF SlotSound, ValidatesOwn, Progresses, StagingKept, Uploads
  <1>4. HashesOwn(q)'
    BY <1>1 DEF SlotSound, HashesOwn, Progresses, Grows
  <1>5. CitesApproved(q)'
    BY <1>1, <1>2 DEF SlotSound, CitesApproved, Progresses, FeedbackKept, Jobs
  <1>6. CommitMatches(q)'
    <2> SUFFICES ASSUME pc[q] \in Committing PROVE CommitMatches(q)'
      BY DEF CommitMatches
    <2> DEFINE i == job[q].report
    <2>1. /\ i \in DOMAIN reports /\ reports[i].gate # "FAIL" /\ IsFileReport(i)
          /\ reports[i].version = job[q].number /\ job[q].upload \in Uploads
          /\ job[q].upload <= uploads
          /\ staged[job[q].upload] # None => staged[job[q].upload].content = reports[i].content
          /\ pc[q] # "listing" => job[q].file \in Files /\ job[q].file.content = reports[i].content
      BY <1>1 DEF SlotSound, CommitMatches
    <2>2. /\ i \in DOMAIN reports' /\ reports'[i].gate = reports[i].gate /\ IsFileReport(i)'
          /\ reports'[i].version = reports[i].version /\ reports'[i].content = reports[i].content
      BY <2>1 DEF Progresses, Grows
    <2>3. job[q].upload <= uploads'
          /\ (staged'[job[q].upload] # None => staged'[job[q].upload] = staged[job[q].upload])
      BY <2>1, <1>2 DEF Progresses, StagingKept, Uploads
    <2> QED  BY <2>1, <2>2, <2>3 DEF CommitMatches, IsFileReport
  <1> QED  BY <1>3, <1>4, <1>5, <1>6 DEF SlotSound

\* Unless versions, runs or trainings are added, they stay examined.
LEMMA ExaminedKept ==
  ASSUME IInv, Progresses
  PROVE  /\ runs' = runs => RunsExamined'
         /\ versions' = versions => SourcesAreApproved'
         /\ trained' = trained => (Pinned => TrainedWasExamined')
  <1> USE DEF Progresses, Grows
  <1>3. runs' = runs => RunsExamined'
    BY DEF IInv, RunsExamined, Examined
  <1>4. versions' = versions => SourcesAreApproved'
    <2> SUFFICES ASSUME versions' = versions, NEW n \in DOMAIN versions, NEW f \in versions[n].sources
                 PROVE  feedback'[f] = "APPROVED"
      BY DEF SourcesAreApproved
    <2>1. f \in Feedbacks  BY Typed DEF IInv, Rows
    <2> QED  BY <2>1 DEF IInv, SourcesAreApproved, FeedbackKept
  <1>5. trained' = trained => (Pinned => TrainedWasExamined')
    BY DEF IInv, TrainedWasExamined, Examined
  <1> QED  BY <1>3, <1>4, <1>5

-----------------------------------------------------------------------------
(* Steps that move one request and nothing else.                           *)
rows == <<staged, uploads, versions, reports, evalSet, feedback, runs, trained>>

data == <<backend, store, rows>>

LEMMA StoreMove ==
  ASSUME IInv, UNCHANGED <<backend, rows>>,
         store' \in [Keys -> Contents \cup {Manifest, Partial, None}],
         NEW r \in Requests, NEW step \in Steps \ {"hashing"}, NEW j \in Jobs, Moves(r, step, j), SlotSound(r)'
  PROVE  IInv' /\ Progresses
  <1> USE DEF rows
  <1>1. TypeOK  BY DEF IInv
  <1>2. /\ pc' \in [Requests -> Steps] /\ job' \in [Requests -> Jobs] /\ pc'[r] = step
        /\ \A q \in Requests : q # r => pc'[q] = pc[q] /\ job'[q] = job[q]
    BY <1>1, Moved
  <1>3. TypeOK'  BY <1>1, <1>2 DEF TypeOK
  <1>4. Progresses
    BY <1>1, BoundsAssumption
       DEF TypeOK, Progresses, Grows, StagingKept, FeedbackKept, IsFileReport
  <1>5. \A q \in Requests : SlotSound(q)'
    BY <1>1, <1>2, <1>3, <1>4, SlotKept
  <1>6. HashOpen'
    BY <1>2 DEF IInv, HashOpen, IsFileReport
  <1>7. ReportsSound' /\ OneFileReport' /\ StagedOnce'
    BY DEF IInv, ReportsSound, OneFileReport, StagedOnce, IsFileReport
  <1> QED  BY <1>3, <1>4, <1>5, <1>6, <1>7, ExaminedKept DEF IInv

LEMMA MoveStep ==
  ASSUME IInv, UNCHANGED data, NEW r \in Requests, NEW step \in Steps \ {"hashing"},
         NEW j \in Jobs, Moves(r, step, j), SlotSound(r)'
  PROVE  IInv' /\ Progresses
  BY StoreMove DEF data, rows, IInv, TypeOK

LEMMA EndStep == ASSUME IInv, UNCHANGED data, NEW r \in Requests, End(r) PROVE IInv' /\ Progresses
  <1>1. Moves(r, "idle", Idle)  BY DEF End, Goto, Moves
  <1>2. pc'[r] = "idle"  BY DEF End, Goto, IInv, TypeOK
  <1>3. SlotSound(r)'
    BY <1>2 DEF SlotSound, ValidatesOwn, HashesOwn, CommitMatches, CitesApproved, Committing
  <1> QED  BY <1>1, <1>3, IdleIsJob, MoveStep DEF Steps

LEMMA ValidateIntakeStep ==
  ASSUME IInv, NEW r \in Requests, NEW s \in Uploads, NEW e, ValidateIntake(r, s, e)
  PROVE  IInv' /\ Progresses
  <1> DEFINE j == [Idle EXCEPT !.upload = s, !.file = staged[s], !.number = NextNumber,
                               !.gate = Gate(staged[s].content, e)]
  <1>1. TypeOK /\ staged[s] \in Files /\ s <= uploads
    BY DEF IInv, ValidateIntake, TypeOK, StagedOnce
  <1>2. NextNumber \in 1..MaxVersions + 1
    BY <1>1, Typed, BoundsAssumption DEF TypeOK, NextNumber
  <1>3. j \in Jobs
    BY <1>1, <1>2, GateIsGate, IdleIsJob DEF Jobs, Idle
  <1>4. Moves(r, "inserting", j)  BY DEF ValidateIntake, Goto, Moves
  <1>5. pc'[r] = "inserting" /\ job'[r] = j
    BY <1>1, <1>3, <1>4, Moved DEF Steps
  <1>6. UNCHANGED data  BY DEF ValidateIntake, data, rows
  <1>7. j.upload = s /\ j.file = staged[s] /\ j.gate \in Gates
    BY GateIsGate DEF Idle
  <1>8. SlotSound(r)'
    BY <1>1, <1>5, <1>6, <1>7
       DEF SlotSound, ValidatesOwn, HashesOwn, CommitMatches, CitesApproved, Committing, data, rows
  <1> QED  BY <1>3, <1>4, <1>6, <1>8, MoveStep DEF Steps

LEMMA CommitIntakeStep ==
  ASSUME IInv, NEW r \in Requests, NEW s \in Uploads, NEW i \in DOMAIN reports, CommitIntake(r, s, i)
  PROVE  IInv' /\ Progresses
  <1> DEFINE j == [Idle EXCEPT !.upload = s, !.report = i, !.number = reports[i].version]
  <1>1. TypeOK /\ staged[s] \in Files /\ s <= uploads /\ reports[i] \in Reports /\ i \in Nat
    BY Typed DEF IInv, CommitIntake, TypeOK, StagedOnce
  <1>2. reports[i].content = staged[s].content /\ IsFileReport(i)
    BY HashesDiffer DEF IInv, ReportsSound, CommitIntake, ChecksumMatches, IsFileReport
  <1>3. j \in Jobs
    BY <1>1, NumbersAreJobNumbers, IdleIsJob DEF Jobs, Idle, Reports
  <1>4. Moves(r, "listing", j)  BY DEF CommitIntake, Goto, Moves
  <1>5. pc'[r] = "listing" /\ job'[r] = j
    BY <1>1, <1>3, <1>4, Moved DEF Steps
  <1>6. UNCHANGED data /\ reports[i].gate # "FAIL"  BY DEF CommitIntake, data, rows
  <1>7. j.upload = s /\ j.report = i /\ j.number = reports[i].version
    BY DEF Idle
  <1>8. CommitMatches(r)'
    BY <1>1, <1>2, <1>5, <1>6, <1>7 DEF CommitMatches, data, rows, IsFileReport
  <1>9. SlotSound(r)'
    BY <1>5, <1>8 DEF SlotSound, ValidatesOwn, HashesOwn, CitesApproved
  <1> QED  BY <1>3, <1>4, <1>6, <1>9, MoveStep DEF Steps

LEMMA ReadStagedStep ==
  ASSUME IInv, NEW r \in Requests, ReadStaged(r)
  PROVE  IInv' /\ Progresses
  <1> DEFINE j == [job[r] EXCEPT !.file = staged[job[r].upload]]
  <1>1. TypeOK /\ pc[r] = "listing" /\ job[r] \in Jobs /\ CommitMatches(r) /\ UNCHANGED data
    BY DEF IInv, ReadStaged, TypeOK, SlotSound, data, rows
  <1>2. staged[job[r].upload] \in Files
    BY <1>1 DEF ReadStaged, CommitMatches, Committing, TypeOK
  <1>3. j \in Jobs  BY <1>1, <1>2 DEF Jobs
  <1>4. Moves(r, "putting", j)  BY <1>1 DEF ReadStaged, Goto, Moves, TypeOK
  <1>5. pc'[r] = "putting" /\ job'[r] = j
    BY <1>1, <1>3, <1>4, Moved DEF Steps
  <1>6. /\ j.upload = job[r].upload /\ j.report = job[r].report /\ j.number = job[r].number
        /\ j.file = staged[job[r].upload]
    BY <1>1 DEF Jobs
  <1>7. CommitMatches(r)'
    BY ZenonT(30), <1>1, <1>2, <1>5, <1>6 DEF ReadStaged, CommitMatches, Committing, data, rows, IsFileReport
  <1>8. SlotSound(r)'
    BY <1>5, <1>7 DEF SlotSound, ValidatesOwn, HashesOwn, CitesApproved
  <1> QED  BY <1>1, <1>3, <1>4, <1>8, MoveStep DEF Steps

LEMMA CiteFeedbackStep ==
  ASSUME IInv, NEW r \in Requests, NEW cited \in SUBSET Feedbacks, CiteFeedback(r, cited)
  PROVE  IInv' /\ Progresses
  <1> DEFINE j == [Idle EXCEPT !.sources = cited]
  <1>1. TypeOK /\ UNCHANGED data  BY DEF IInv, CiteFeedback, data, rows
  <1>2. j \in Jobs /\ j.sources = cited  BY IdleIsJob DEF Jobs, Idle
  <1>3. Moves(r, "citing", j)  BY DEF CiteFeedback, Goto, Moves
  <1>4. pc'[r] = "citing" /\ job'[r] = j
    BY <1>1, <1>2, <1>3, Moved DEF Steps
  <1>5. SlotSound(r)'
    BY <1>1, <1>2, <1>4
       DEF CiteFeedback, SlotSound, ValidatesOwn, HashesOwn, CommitMatches, CitesApproved,
           Committing, data, rows
  <1> QED  BY <1>1, <1>2, <1>3, <1>5, MoveStep DEF Steps

-----------------------------------------------------------------------------
(* Steps that add data while no request moves.                             *)
LEMMA StageStep ==
  ASSUME IInv, NEW file \in Files, Stage(file)
  PROVE  IInv' /\ Progresses
  <1> USE DEF Stage
  <1>1. TypeOK /\ uploads \in Nat /\ StagedOnce  BY BoundsAssumption DEF IInv, TypeOK
  <1>2. TypeOK' /\ uploads' \in Nat
    BY <1>1, BoundsAssumption DEF TypeOK, Uploads
  <1>3. Progresses
    BY <1>1 DEF Progresses, Grows, StagingKept, FeedbackKept, IsFileReport, TypeOK, Uploads
  <1>4. \A q \in Requests : SlotSound(q)'
    BY <1>2, <1>3, SlotKept
  <1>5. ReportsSound' /\ OneFileReport' /\ HashOpen'
    BY DEF IInv, ReportsSound, OneFileReport, HashOpen, IsFileReport
  <1>6. StagedOnce'
    BY <1>1 DEF StagedOnce, TypeOK, Uploads
  <1> QED  BY <1>2, <1>3, <1>4, <1>5, <1>6, ExaminedKept DEF IInv

LEMMA AddReport ==
  ASSUME IInv, NEW new \in Reports, new.version \in DOMAIN versions,
         new.hash = RecordsHash(new.content), reports' = Append(reports, new)
  PROVE  /\ reports' \in Seq(Reports) /\ Grows /\ OneFileReport'
         /\ Len(reports) + 1 \in DOMAIN reports' /\ reports'[Len(reports) + 1] = new
         /\ new.hash # FileHash(new.content)
         /\ \A i \in DOMAIN reports' :
                \/ i \in DOMAIN reports /\ reports'[i] = reports[i]
                \/ reports'[i] = new
  <1>1. reports \in Seq(Reports)  BY DEF IInv, TypeOK
  <1>2. /\ reports' \in Seq(Reports) /\ DOMAIN reports = 1..Len(reports)
        /\ DOMAIN reports' = 1..Len(reports) + 1 /\ Len(reports) \in Nat
        /\ \A i \in DOMAIN reports : reports'[i] = reports[i]
        /\ reports'[Len(reports) + 1] = new
    BY <1>1, Appended
  <1>3. new.hash # FileHash(new.content)
    BY HashesDiffer
  <1>4. \A i \in DOMAIN reports' :
         \/ i \in DOMAIN reports /\ reports'[i] = reports[i]
         \/ reports'[i] = new
    BY <1>2
  <1>5. Grows  BY <1>2 DEF Grows, IsFileReport
  <1>6. OneFileReport'
    BY <1>3, <1>4 DEF IInv, OneFileReport, IsFileReport
  <1> QED  BY <1>2, <1>3, <1>4, <1>5, <1>6

LEMMA ValidateVersionStep ==
  ASSUME IInv, NEW n \in DOMAIN versions, NEW c \in Contents, NEW e, ValidateVersion(n, c, e)
  PROVE  IInv' /\ Progresses
  <1> DEFINE new == [version |-> n, content |-> c, hash |-> RecordsHash(c), gate |-> Gate(c, e)]
  <1> USE DEF ValidateVersion
  <1>1. TypeOK /\ n \in Numbers  BY Typed DEF IInv
  <1>2. new \in Reports
    BY <1>1, GateIsGate DEF Reports, Hashes, RecordsHash
  <1>3. reports' = Append(reports, new)  OBVIOUS
  <1> HIDE DEF new
  <1>4. new.version = n /\ new.hash = RecordsHash(new.content)  BY DEF new
  <1>5. /\ reports' \in Seq(Reports) /\ Grows /\ OneFileReport'
        /\ \A i \in DOMAIN reports' :
               \/ i \in DOMAIN reports /\ reports'[i] = reports[i]
               \/ reports'[i] = new
        /\ new.hash # FileHash(new.content)
    BY <1>2, <1>3, <1>4, AddReport
  <1>6. TypeOK'  BY <1>1, <1>5 DEF TypeOK
  <1>7. Progresses
    BY <1>1, <1>5, BoundsAssumption DEF TypeOK, Progresses, StagingKept, FeedbackKept
  <1>8. \A q \in Requests : SlotSound(q)'
    BY <1>1, <1>6, <1>7, SlotKept
  <1>9. ReportsSound'
    BY <1>4, <1>5 DEF IInv, ReportsSound
  <1>10. HashOpen'
    BY <1>5 DEF IInv, HashOpen, IsFileReport
  <1>11. StagedOnce'
    BY <1>5 DEF IInv, StagedOnce, IsFileReport
  <1> QED  BY <1>5, <1>6, <1>7, <1>8, <1>9, <1>10, <1>11, ExaminedKept DEF IInv

\* A version without a file, made directly or from approved feedback.
LEMMA AddVersion ==
  ASSUME IInv, NextNumber \in Numbers, NEW new \in Rows, new.uri = None,
         \A f \in new.sources : feedback[f] = "APPROVED",
         versions' = Append(versions, new)
  PROVE  /\ versions' \in Seq(Rows) /\ Len(versions') <= MaxVersions
         /\ DOMAIN versions \subseteq DOMAIN versions'
         /\ NextNumber \in DOMAIN versions'
         /\ feedback' = feedback => SourcesAreApproved'
  <1>1. versions \in Seq(Rows)  BY DEF IInv, TypeOK
  <1>2. /\ versions' \in Seq(Rows) /\ Len(versions') = Len(versions) + 1 /\ Len(versions) \in Nat
        /\ DOMAIN versions = 1..Len(versions) /\ DOMAIN versions' = 1..Len(versions) + 1
        /\ \A n \in DOMAIN versions : versions'[n] = versions[n]
        /\ versions'[Len(versions) + 1] = new
    BY <1>1, Appended
  <1>3. \A n \in DOMAIN versions' : \/ n \in DOMAIN versions /\ versions'[n] = versions[n]
                                   \/ versions'[n] = new
    BY <1>2
  <1>5. feedback' = feedback => SourcesAreApproved'
    BY <1>3 DEF IInv, SourcesAreApproved
  <1> QED  BY <1>2, <1>5, BoundsAssumption DEF NextNumber, Numbers

LEMMA RowIsRow ==
  ASSUME NEW status \in {"PENDING", "PROCESSED"}, NEW sources \in SUBSET Feedbacks
  PROVE  /\ Row(status, sources) \in Rows /\ Row(status, sources).uri = None
         /\ Row(status, sources).sources = sources
  BY DEF Row, Rows

LEMMA CreateVersionStep == ASSUME IInv, CreateVersion PROVE IInv' /\ Progresses
  <1> USE DEF CreateVersion
  <1>1. TypeOK  BY DEF IInv
  <1>2. /\ versions' \in Seq(Rows) /\ Len(versions') <= MaxVersions
        /\ DOMAIN versions \subseteq DOMAIN versions' /\ SourcesAreApproved'
    BY RowIsRow, AddVersion
  <1>3. TypeOK'  BY <1>1, <1>2 DEF TypeOK
  <1>4. Progresses
    BY <1>1, BoundsAssumption
       DEF TypeOK, Progresses, Grows, StagingKept, FeedbackKept, IsFileReport
  <1>5. \A q \in Requests : SlotSound(q)'
    BY <1>1, <1>3, <1>4, SlotKept
  <1>6. ReportsSound' /\ OneFileReport' /\ StagedOnce' /\ HashOpen'
    BY <1>2 DEF IInv, ReportsSound, OneFileReport, StagedOnce, HashOpen, IsFileReport
  <1> QED  BY <1>2, <1>3, <1>4, <1>5, <1>6, ExaminedKept DEF IInv

\* Curation, evaluation sets, runs and trainings.
LEMMA LedgerStep ==
  ASSUME IInv, UNCHANGED <<backend, staged, uploads, store, versions, reports, pc, job>>,
         TypeOK', FeedbackKept, RunsExamined', Pinned => TrainedWasExamined'
  PROVE  IInv' /\ Progresses
  <1>1. TypeOK  BY DEF IInv
  <1>2. Progresses
    BY <1>1, BoundsAssumption DEF TypeOK, Progresses, Grows, StagingKept, IsFileReport
  <1>3. \A q \in Requests : SlotSound(q)'
    BY <1>1, <1>2, SlotKept
  <1>4. ReportsSound' /\ OneFileReport' /\ StagedOnce' /\ HashOpen'
    BY DEF IInv, ReportsSound, OneFileReport, StagedOnce, HashOpen, IsFileReport
  <1> QED  BY <1>2, <1>3, <1>4, ExaminedKept DEF IInv

LEMMA CurationStep == ASSUME IInv, Curation PROVE IInv' /\ Progresses
  <1>1. TypeOK  BY DEF IInv
  <1>2. RunsExamined /\ (Pinned => TrainedWasExamined)  BY DEF IInv
  <1>3. CASE \E f \in Feedbacks : SubmitFeedback(f) \/ \E d \in {"APPROVED", "REJECTED"} : Curate(f, d)
    <2>1. PICK f \in Feedbacks, d \in Curations :
              /\ feedback[f] # "APPROVED" /\ feedback' = [feedback EXCEPT ![f] = d]
              /\ UNCHANGED <<backend, staged, uploads, store, versions, reports, evalSet, runs, trained, pc, job>>
      BY <1>3, NoneAssumption DEF SubmitFeedback, Curate, Curations
    <2>2. TypeOK'  BY <1>1, <2>1 DEF TypeOK
    <2>3. FeedbackKept  BY <1>1, <2>1 DEF FeedbackKept, TypeOK
    <2>4. RunsExamined' /\ (Pinned => TrainedWasExamined')
      BY <1>2, <2>1 DEF RunsExamined, TrainedWasExamined, Examined
    <2> QED  BY <2>1, <2>2, <2>3, <2>4, LedgerStep
  <1>4. CASE \E c \in Contents : CreateEvalSetVersion(c)
    <2>1. PICK c \in Contents : CreateEvalSetVersion(c)  BY <1>4
    <2>2. TypeOK'  BY <1>1, <2>1 DEF TypeOK, CreateEvalSetVersion
    <2>3. FeedbackKept  BY <2>1 DEF FeedbackKept, CreateEvalSetVersion
    <2>4. RunsExamined' /\ (Pinned => TrainedWasExamined')
      BY <1>2, <2>1 DEF RunsExamined, TrainedWasExamined, Examined, CreateEvalSetVersion
    <2> QED  BY <2>1, <2>2, <2>3, <2>4, LedgerStep DEF CreateEvalSetVersion
  <1> QED  BY <1>3, <1>4, <1>3 DEF Curation

LEMMA CreateTrainingRunStep ==
  ASSUME IInv, NEW n \in DOMAIN versions, NEW hf \in HfDatasets, CreateTrainingRun(n, hf)
  PROVE  IInv' /\ Progresses
  <1>1. TypeOK  BY DEF IInv
  <1>2. PICK i \in OfVersion(n) :
            /\ reports[i].gate = "PASS"
            /\ runs' = runs \cup {[version |-> n, uri |-> versions[n].uri,
                                   hash |-> reports[i].hash, hf |-> hf]}
    BY DEF CreateTrainingRun
  <1> DEFINE run == [version |-> n, uri |-> versions[n].uri, hash |-> reports[i].hash, hf |-> hf]
  <1>3. /\ i \in DOMAIN reports /\ reports[i].version = n /\ reports[i] \in Reports
        /\ versions[n] \in Rows /\ n \in Numbers
    BY <1>1, Typed DEF OfVersion
  <1>4. run \in Runs  BY <1>3 DEF Runs, Reports, Rows
  <1>5. reports[i].hash[2] = reports[i].content
    BY <1>3, HashesDiffer DEF IInv, ReportsSound
  <1>6. Examined(run.version, run.hash[2], {"PASS"})
    BY <1>2, <1>3, <1>5 DEF Examined
  <1> HIDE DEF run
  <1>7. runs' = runs \cup {run}  BY <1>2 DEF run
  <1>8. UNCHANGED <<backend, staged, uploads, store, versions, reports, evalSet, feedback, trained, pc, job>>
    BY DEF CreateTrainingRun
  <1>9. TypeOK'  BY <1>1, <1>4, <1>7, <1>8 DEF TypeOK
  <1>10. RunsExamined'
    BY <1>6, <1>7, <1>8 DEF IInv, RunsExamined, Examined
  <1>11. FeedbackKept /\ (Pinned => TrainedWasExamined')
    BY <1>8 DEF IInv, FeedbackKept, TrainedWasExamined, Examined
  <1> QED  BY <1>8, <1>9, <1>10, <1>11, LedgerStep

LEMMA TrainStep ==
  ASSUME IInv, NEW runner \in Runners, NEW run \in runs, Train(runner, run)
  PROVE  IInv' /\ Progresses
  <1>1. TypeOK /\ run \in Runs  BY DEF IInv, TypeOK
  <1>2. PICK c \in TrainsOn(runner, run) :
            /\ trained' = trained \cup {[version |-> run.version, content |-> c]}
            /\ UNCHANGED <<backend, staged, uploads, store, versions, reports, evalSet, feedback, runs, pc, job>>
    BY DEF Train
  <1>3. c \in Contents
    <2>1. CASE runner = "unsloth"
      <3>1. PinHolds(run) /\ c = store[run.uri]  BY <1>2, <2>1 DEF TrainsOn
      <3>2. c = run.hash[2]  BY <3>1, HashesDiffer DEF PinHolds
      <3> QED  BY <1>1, <3>2 DEF Runs, Hashes
    <2>2. CASE runner # "unsloth"
      BY <1>1, <1>2, <2>2, ContentsAssumption DEF TrainsOn, Runs
    <2> QED  BY <2>1, <2>2
  <1>4. Pinned => Examined(run.version, c, {"PASS"})
    <2> SUFFICES ASSUME Pinned PROVE Examined(run.version, c, {"PASS"})  OBVIOUS
    <2>1. runner = "unsloth"  BY DEF Pinned
    <2>2. PinHolds(run) /\ c = store[run.uri]  BY <1>2, <2>1 DEF TrainsOn
    <2>3. run.hash[2] = c  BY <2>2, HashesDiffer DEF PinHolds
    <2> QED  BY <2>3 DEF IInv, RunsExamined
  <1>5. TypeOK'  BY <1>1, <1>2, <1>3 DEF TypeOK, Runs
  <1>6. Pinned => TrainedWasExamined'
    BY <1>2, <1>4 DEF IInv, TrainedWasExamined, Examined
  <1>7. FeedbackKept /\ RunsExamined'
    BY <1>2 DEF IInv, FeedbackKept, RunsExamined, Examined
  <1> QED  BY <1>2, <1>5, <1>6, <1>7, LedgerStep

-----------------------------------------------------------------------------
(* Steps that move one request and change data with it.                    *)
LEMMA EndMoved ==
  ASSUME TypeOK, NEW r \in Requests, End(r)
  PROVE  /\ pc' \in [Requests -> Steps] /\ job' \in [Requests -> Jobs] /\ pc'[r] = "idle"
         /\ \A q \in Requests : q # r => pc'[q] = pc[q] /\ job'[q] = job[q]
         /\ SlotSound(r)'
  <1>1. Moves(r, "idle", Idle)  BY DEF End, Goto, Moves
  <1>2. /\ pc' \in [Requests -> Steps] /\ job' \in [Requests -> Jobs] /\ pc'[r] = "idle"
        /\ \A q \in Requests : q # r => pc'[q] = pc[q] /\ job'[q] = job[q]
    BY <1>1, IdleIsJob, Moved DEF Steps
  <1>3. SlotSound(r)'
    BY <1>2 DEF SlotSound, ValidatesOwn, HashesOwn, CommitMatches, CitesApproved, Committing
  <1> QED  BY <1>2, <1>3

LEMMA CreateVersionFromFeedbackStep ==
  ASSUME IInv, NEW r \in Requests, CreateVersionFromFeedback(r)
  PROVE  IInv' /\ Progresses
  <1> USE DEF CreateVersionFromFeedback
  <1>1. TypeOK /\ job[r] \in Jobs /\ CitesApproved(r)  BY DEF IInv, TypeOK, SlotSound
  <1>2. job[r].sources \in SUBSET Feedbacks /\ \A f \in job[r].sources : feedback[f] = "APPROVED"
    BY <1>1 DEF Jobs, CitesApproved
  <1>3. /\ versions' \in Seq(Rows) /\ Len(versions') <= MaxVersions
        /\ DOMAIN versions \subseteq DOMAIN versions' /\ SourcesAreApproved'
    BY <1>2, RowIsRow, AddVersion
  <1>4. /\ pc' \in [Requests -> Steps] /\ job' \in [Requests -> Jobs] /\ pc'[r] = "idle"
        /\ \A q \in Requests : q # r => pc'[q] = pc[q] /\ job'[q] = job[q]
        /\ SlotSound(r)'
    BY <1>1, EndMoved
  <1>5. TypeOK'  BY <1>1, <1>3, <1>4 DEF TypeOK
  <1>6. Progresses
    BY <1>1, BoundsAssumption
       DEF TypeOK, Progresses, Grows, StagingKept, FeedbackKept, IsFileReport
  <1>7. \A q \in Requests : SlotSound(q)'
    BY <1>1, <1>4, <1>5, <1>6, SlotKept
  <1>8. HashOpen'
    BY <1>4 DEF IInv, HashOpen, IsFileReport
  <1>9. ReportsSound' /\ OneFileReport' /\ StagedOnce'
    BY <1>3 DEF IInv, ReportsSound, OneFileReport, StagedOnce, IsFileReport
  <1> QED  BY <1>3, <1>5, <1>6, <1>7, <1>8, <1>9, ExaminedKept DEF IInv

LEMMA InsertPendingStep ==
  ASSUME IInv, NEW r \in Requests, InsertPending(r)
  PROVE  IInv' /\ Progresses
  <1>1. TypeOK /\ job[r] \in Jobs /\ ValidatesOwn(r) /\ pc[r] = "inserting"
    BY DEF IInv, TypeOK, SlotSound, InsertPending
  <1>2. CASE End(r) /\ UNCHANGED <<versions, reports>>
    BY <1>2, EndStep DEF InsertPending, data, rows
  <1>3. CASE ~(End(r) /\ UNCHANGED <<versions, reports>>)
    <2> DEFINE new == [version |-> job[r].number, content |-> job[r].file.content,
                       hash |-> RecordsHash(job[r].file.content), gate |-> job[r].gate]
               j == [job[r] EXCEPT !.report = Len(reports) + 1]
    <2>1. /\ job[r].number = NextNumber /\ NextNumber \in Numbers
          /\ versions' = Append(versions, Row("PENDING", {}))
          /\ reports' = Append(reports, new)
          /\ Moves(r, "hashing", j)
          /\ UNCHANGED <<backend, staged, uploads, store, evalSet, feedback, runs, trained>>
      BY <1>1, <1>3 DEF InsertPending, Moves, Goto, TypeOK
    <2>2. job[r].file \in Files /\ job[r].gate \in Gates  BY <1>1 DEF ValidatesOwn
    <2>3. new \in Reports
      BY <2>1, <2>2 DEF Reports, Hashes, RecordsHash, Files
    <2>4. new.version = NextNumber /\ new.hash = RecordsHash(new.content)
          /\ new.content = job[r].file.content
      BY <2>1
    <2> HIDE DEF new
    <2>5. /\ versions' \in Seq(Rows) /\ Len(versions') <= MaxVersions
          /\ DOMAIN versions \subseteq DOMAIN versions' /\ NextNumber \in DOMAIN versions'
          /\ SourcesAreApproved'
      BY <2>1, RowIsRow, AddVersion
    <2>6. /\ Len(reports) \in Nat /\ Len(versions) \in Nat
          /\ DOMAIN versions = 1..Len(versions) /\ DOMAIN reports = 1..Len(reports)
      BY <1>1, Typed
    <2>7. NextNumber \notin DOMAIN versions
      BY <2>6 DEF NextNumber
    <2>8. new.hash # FileHash(new.content)  BY <2>4, HashesDiffer
    <2>9. reports \in Seq(Reports)  BY <1>1 DEF TypeOK
    <2>10. /\ reports' \in Seq(Reports)
           /\ DOMAIN reports' = 1..Len(reports) + 1
           /\ \A i \in DOMAIN reports : reports'[i] = reports[i]
           /\ reports'[Len(reports) + 1] = new
      BY <2>1, <2>3, <2>9, Appended
    <2>11. \A i \in DOMAIN reports' :
               \/ i \in DOMAIN reports /\ reports'[i] = reports[i]
               \/ i = Len(reports) + 1 /\ reports'[i] = new
      BY <2>6, <2>10
    <2>12. Grows  BY <2>6, <2>10 DEF Grows, IsFileReport
    <2>13. OneFileReport'
      BY <2>8, <2>11 DEF IInv, OneFileReport, IsFileReport
    <2>14. ReportsSound'
      BY <2>4, <2>5, <2>11 DEF IInv, ReportsSound
    <2>15. j \in Jobs  BY <1>1, <2>6 DEF Jobs
    <2>16. /\ j.report = Len(reports) + 1 /\ j.number = NextNumber /\ j.file = job[r].file
           /\ j.upload = job[r].upload /\ j.gate = job[r].gate
      BY <1>1, <2>1 DEF Jobs
    <2> HIDE DEF j
    <2>17. /\ pc' \in [Requests -> Steps] /\ job' \in [Requests -> Jobs]
           /\ pc'[r] = "hashing" /\ job'[r] = j
           /\ \A q \in Requests : q # r => pc'[q] = pc[q] /\ job'[q] = job[q]
      BY <1>1, <2>1, <2>15, Moved DEF Steps
    <2>18. TypeOK'  BY <1>1, <2>1, <2>5, <2>10, <2>17 DEF TypeOK
    <2>19. Progresses
      BY <1>1, <2>1, <2>12, BoundsAssumption
         DEF TypeOK, Progresses, StagingKept, FeedbackKept
    <2>20. ValidatesOwn(r)'
      BY <1>1, <2>1, <2>16, <2>17 DEF ValidatesOwn
    <2>21. HashesOwn(r)'
      BY <2>4, <2>6, <2>10, <2>16, <2>17 DEF HashesOwn
    <2>22. SlotSound(r)'
      BY <2>17, <2>20, <2>21 DEF SlotSound, CommitMatches, CitesApproved, Committing
    <2>23. \A q \in Requests : SlotSound(q)'
      BY <2>17, <2>18, <2>19, <2>22, SlotKept
    <2>24. \A q \in Requests : pc[q] = "hashing" => job[q].number # NextNumber
      BY <2>7 DEF IInv, SlotSound, HashesOwn, ReportsSound
    <2>25. \A i \in DOMAIN reports : reports[i].version # NextNumber
      BY <2>7 DEF IInv, ReportsSound
    <2>26. HashOpen'
      <3>1. \A q \in Requests : pc'[q] = "hashing" =>
                \A i \in DOMAIN reports' :
                    reports'[i].version = job'[q].number => reports'[i].hash # FileHash(reports'[i].content)
        BY <2>8, <2>11, <2>16, <2>17, <2>25 DEF IInv, HashOpen, IsFileReport
      <3>2. \A q, p \in Requests :
                pc'[q] = "hashing" /\ pc'[p] = "hashing" /\ job'[p].number = job'[q].number => p = q
        BY <2>16, <2>17, <2>24 DEF IInv, HashOpen
      <3> QED  BY <3>1, <3>2 DEF HashOpen, IsFileReport
    <2>27. StagedOnce'
      BY <2>1, <2>8, <2>11 DEF IInv, StagedOnce
    <2> QED  BY <2>1, <2>5, <2>13, <2>14, <2>18, <2>19, <2>23, <2>26, <2>27, ExaminedKept DEF IInv
  <1> QED  BY <1>2, <1>3

LEMMA StoreFileHashStep ==
  ASSUME IInv, NEW r \in Requests, StoreFileHash(r)
  PROVE  IInv' /\ Progresses
  <1> DEFINE i == job[r].report
             s == job[r].upload
  <1>1. TypeOK /\ SlotSound(r) /\ pc[r] = "hashing" /\ End(r)
    BY DEF IInv, StoreFileHash
  <1>2. CASE staged[s] = None
    BY <1>1, <1>2, EndStep DEF StoreFileHash, data, rows
  <1>3. CASE staged[s] # None
    <2> DEFINE new == [reports[i] EXCEPT !.hash = FileHash(staged[s].content)]
    <2>1. /\ reports' = [reports EXCEPT ![i] = new]
          /\ UNCHANGED <<backend, staged, uploads, store, versions, evalSet, feedback, runs, trained>>
      BY <1>3 DEF StoreFileHash
    <2>2. /\ i \in DOMAIN reports /\ reports[i].content = job[r].file.content
          /\ reports[i].version = job[r].number /\ s \in Uploads
          /\ staged[s] = job[r].file /\ job[r].file \in Files
      BY <1>1, <1>3 DEF SlotSound, ValidatesOwn, HashesOwn
    <2>3. reports[i] \in Reports /\ reports \in Seq(Reports)  BY <1>1, <2>2, Typed DEF TypeOK
    <2>4. /\ new \in Reports /\ new.version = reports[i].version /\ new.gate = reports[i].gate
          /\ new.content = reports[i].content /\ new.hash = FileHash(new.content)
      BY <2>2, <2>3 DEF Reports, Hashes, FileHash, Files
    <2> HIDE DEF new
    <2>5. /\ reports' \in Seq(Reports) /\ DOMAIN reports' = DOMAIN reports
          /\ \A k \in DOMAIN reports : reports'[k] = IF k = i THEN new ELSE reports[k]
      BY <2>1, <2>2, <2>3, <2>4, Updated
    <2>6. /\ pc' \in [Requests -> Steps] /\ job' \in [Requests -> Jobs] /\ pc'[r] = "idle"
          /\ \A q \in Requests : q # r => pc'[q] = pc[q] /\ job'[q] = job[q]
          /\ SlotSound(r)'
      BY <1>1, EndMoved
    <2>7. TypeOK'  BY <1>1, <2>1, <2>5, <2>6 DEF TypeOK
    <2>8. Grows  BY <2>2, <2>4, <2>5 DEF Grows, IsFileReport
    <2>9. Progresses
      BY <1>1, <2>1, <2>8, BoundsAssumption
         DEF TypeOK, Progresses, StagingKept, FeedbackKept
    <2>10. \A q \in Requests : SlotSound(q)'
      BY <1>1, <2>6, <2>7, <2>9, SlotKept
    <2>11. ReportsSound'
      BY <2>1, <2>2, <2>4, <2>5 DEF IInv, ReportsSound
    <2>12. \A k \in DOMAIN reports : reports[k].version = reports[i].version => ~IsFileReport(k)
      BY <1>1, <2>2 DEF IInv, HashOpen
    <2>13. OneFileReport'
      BY <2>2, <2>4, <2>5, <2>12 DEF IInv, OneFileReport, IsFileReport
    <2>14. \A q \in Requests : pc'[q] = "hashing" => job'[q].number # reports[i].version
      BY <1>1, <2>2, <2>6 DEF IInv, HashOpen
    <2>15. HashOpen'
      BY SMTT(30), <2>4, <2>5, <2>6, <2>14 DEF IInv, HashOpen, IsFileReport
    <2>16. StagedOnce'  BY <2>1 DEF IInv, StagedOnce
    <2> QED  BY <2>1, <2>7, <2>9, <2>10, <2>11, <2>13, <2>15, <2>16, ExaminedKept DEF IInv
  <1> QED  BY <1>2, <1>3

\* What a commit knows about its key.
LEMMA KeyIsKey ==
  ASSUME IInv, NEW r \in Requests, pc[r] \in Committing \ {"listing"}
  PROVE  /\ Key(r) \in Keys /\ Key(r)[1] = job[r].number
         /\ job[r].report \in DOMAIN reports /\ reports[job[r].report] \in Reports
         /\ job[r].number \in DOMAIN versions
         /\ reports[job[r].report].content = job[r].file.content /\ job[r].file.content \in Contents
  <1>1. CommitMatches(r) /\ TypeOK  BY DEF IInv, SlotSound
  <1>2. /\ job[r].report \in DOMAIN reports /\ job[r].file \in Files
        /\ reports[job[r].report].version = job[r].number
        /\ reports[job[r].report].content = job[r].file.content
    BY <1>1 DEF CommitMatches
  <1>3. reports[job[r].report] \in Reports /\ job[r].number \in DOMAIN versions
    BY <1>1, <1>2, Typed DEF IInv, ReportsSound
  <1> QED  BY <1>2, <1>3 DEF Key, ObjectKey, Keys, Files, Reports

\* A commit that keeps its job goes on to a step that follows the reading.
LEMMA CommitGoesOn ==
  ASSUME IInv, NEW r \in Requests, pc[r] \in Committing \ {"listing"},
         NEW step \in Committing \ {"listing"}, Goto(r, step), job' = job,
         UNCHANGED <<backend, rows>>,
         store' \in [Keys -> Contents \cup {Manifest, Partial, None}]
  PROVE  IInv' /\ Progresses
  <1>1. TypeOK /\ CommitMatches(r) /\ job[r] \in Jobs  BY DEF IInv, SlotSound, TypeOK
  <1>2. Moves(r, step, job[r])  BY <1>1 DEF Goto, Moves, TypeOK
  <1>3. pc'[r] = step /\ job'[r] = job[r]
    BY <1>1, <1>2, Moved DEF Steps, Committing
  <1>4. CommitMatches(r)'
    BY <1>1, <1>3 DEF CommitMatches, Committing, IsFileReport, rows
  <1>5. SlotSound(r)'
    BY <1>3, <1>4 DEF SlotSound, ValidatesOwn, HashesOwn, CitesApproved, Committing
  <1> QED  BY <1>1, <1>2, <1>5, StoreMove DEF Steps, Committing

LEMMA PutStep ==
  ASSUME IInv, NEW r \in Requests, PutObject(r) \/ OpenObject(r) \/ FillObject(r)
  PROVE  IInv' /\ Progresses
  <1>1. TypeOK /\ pc[r] \in {"putting", "filling"}
    BY DEF IInv, PutObject, OpenObject, FillObject
  <1>2. job[r].file.content \in Contents
    BY <1>1, KeyIsKey DEF Committing
  <1>3. PICK bytes \in Contents \cup {Partial}, step \in {"filling", "clearing"} : Put(r, bytes, step)
    BY <1>2 DEF PutObject, OpenObject, FillObject
  <1> QED  BY <1>1, <1>3, CommitGoesOn DEF Put, Committing, TypeOK, rows

LEMMA WriteSidecarsStep ==
  ASSUME IInv, NEW r \in Requests, WriteSidecars(r)
  PROVE  IInv' /\ Progresses
  BY CommitGoesOn DEF WriteSidecars, Committing, IInv, TypeOK, rows

LEMMA ClearStagingStep ==
  ASSUME IInv, NEW r \in Requests, ClearStaging(r)
  PROVE  IInv' /\ Progresses
  <1> DEFINE u == job[r].upload
  <1>1. /\ TypeOK /\ CommitMatches(r) /\ pc[r] = "clearing" /\ job[r] \in Jobs
        /\ staged' = [staged EXCEPT ![u] = None]
        /\ UNCHANGED <<backend, uploads, store, versions, reports, evalSet, feedback, runs, trained, job>>
    BY DEF IInv, SlotSound, ClearStaging, TypeOK
  <1>3. u \in Uploads  BY <1>1 DEF CommitMatches, Committing
  <1>4. Moves(r, "describing", job[r])  BY <1>1 DEF ClearStaging, Goto, Moves, TypeOK
  <1>5. /\ pc' \in [Requests -> Steps] /\ job' \in [Requests -> Jobs]
        /\ pc'[r] = "describing" /\ job'[r] = job[r]
        /\ \A q \in Requests : q # r => pc'[q] = pc[q] /\ job'[q] = job[q]
    BY <1>1, <1>4, Moved DEF Steps
  <1>6. staged' \in [Uploads -> Files \cup {None}] /\ staged'[u] = None
        /\ \A s \in Uploads : s # u => staged'[s] = staged[s]
    BY <1>1, <1>3 DEF TypeOK
  <1>7. TypeOK'  BY <1>1, <1>5, <1>6 DEF TypeOK
  <1>8. Progresses
    BY <1>1, <1>6, BoundsAssumption
       DEF TypeOK, Progresses, Grows, StagingKept, FeedbackKept, IsFileReport
  <1>9. Key(r)' = Key(r)  BY <1>1 DEF Key, ObjectKey
  <1>10. CommitMatches(r)'
    BY <1>1, <1>5, <1>6, <1>9 DEF CommitMatches, Committing, IsFileReport
  <1>11. SlotSound(r)'
    BY <1>5, <1>10 DEF SlotSound, ValidatesOwn, HashesOwn, CitesApproved
  <1>12. \A q \in Requests : SlotSound(q)'
    BY <1>1, <1>5, <1>7, <1>8, <1>11, SlotKept
  <1>13. HashOpen'
    BY <1>1, <1>5 DEF IInv, HashOpen, IsFileReport
  <1>14. ReportsSound' /\ OneFileReport' /\ StagedOnce'
    BY <1>1, <1>6 DEF IInv, ReportsSound, OneFileReport, StagedOnce, IsFileReport
  <1> QED  BY <1>1, <1>7, <1>8, <1>12, <1>13, <1>14, ExaminedKept DEF IInv

LEMMA MarkProcessedStep ==
  ASSUME IInv, NEW r \in Requests, MarkProcessed(r)
  PROVE  IInv' /\ Progresses
  <1> DEFINE n == job[r].number
             new == [versions[n] EXCEPT !.status = "PROCESSED", !.uri = Key(r)]
  <1>1. /\ TypeOK /\ CommitMatches(r) /\ pc[r] = "committing" /\ End(r)
        /\ versions' = [versions EXCEPT ![n] = new]
        /\ UNCHANGED <<backend, staged, uploads, store, reports, evalSet, feedback, runs, trained>>
    BY DEF IInv, SlotSound, MarkProcessed
  <1>2. /\ Key(r) \in Keys /\ Key(r)[1] = n /\ n \in DOMAIN versions
        /\ reports[job[r].report].content = job[r].file.content /\ job[r].file.content \in Contents
    BY <1>1, KeyIsKey DEF Committing
  <1>4. versions[n] \in Rows /\ versions \in Seq(Rows)  BY <1>1, <1>2, Typed DEF TypeOK
  <1>5. new \in Rows /\ new.uri = Key(r) /\ new.sources = versions[n].sources
    BY <1>2, <1>4 DEF Rows
  <1> HIDE DEF new
  <1>6. /\ versions' \in Seq(Rows) /\ DOMAIN versions' = DOMAIN versions
        /\ Len(versions') = Len(versions)
        /\ \A k \in DOMAIN versions : versions'[k] = IF k = n THEN new ELSE versions[k]
    BY <1>1, <1>2, <1>4, <1>5, Updated
  <1>7. /\ pc' \in [Requests -> Steps] /\ job' \in [Requests -> Jobs] /\ pc'[r] = "idle"
        /\ \A q \in Requests : q # r => pc'[q] = pc[q] /\ job'[q] = job[q]
        /\ SlotSound(r)'
    BY <1>1, EndMoved
  <1>8. TypeOK'  BY <1>1, <1>6, <1>7 DEF TypeOK
  <1>9. Progresses
    BY <1>1, BoundsAssumption
       DEF TypeOK, Progresses, Grows, StagingKept, FeedbackKept, IsFileReport
  <1>10. \A q \in Requests : SlotSound(q)'
    BY <1>1, <1>7, <1>8, <1>9, SlotKept
  <1>11. HashOpen'
    BY <1>1, <1>7 DEF IInv, HashOpen, IsFileReport
  <1>13. SourcesAreApproved'
    BY <1>1, <1>5, <1>6 DEF IInv, SourcesAreApproved
  <1>14. ReportsSound' /\ OneFileReport' /\ StagedOnce'
    BY <1>1, <1>6 DEF IInv, ReportsSound, OneFileReport, StagedOnce, IsFileReport
  <1> QED  BY <1>1, <1>8, <1>9, <1>10, <1>11, <1>13, <1>14, ExaminedKept DEF IInv

-----------------------------------------------------------------------------
LEMMA StutterStep == ASSUME IInv, UNCHANGED vars PROVE IInv' /\ Progresses
  <1> USE DEF vars
  <1>1. IInv'
    BY DEF IInv, TypeOK, ReportsSound, OneFileReport, StagedOnce, HashOpen, SlotSound,
           ValidatesOwn, HashesOwn, CommitMatches, CitesApproved, RunsExamined,
           SourcesAreApproved, TrainedWasExamined, IsFileReport, Examined
  <1>2. Progresses
    BY BoundsAssumption
       DEF IInv, TypeOK, Progresses, Grows, StagingKept, FeedbackKept, IsFileReport
  <1> QED  BY <1>1, <1>2

LEMMA IntakeStep == ASSUME IInv, NEW r \in Requests, Intake(r) PROVE IInv' /\ Progresses
  BY ValidateIntakeStep, CommitIntakeStep, CiteFeedbackStep DEF Intake

LEMMA ContinueStep == ASSUME IInv, NEW r \in Requests, Continue(r) PROVE IInv' /\ Progresses
  <1>1. CASE Abort(r)
    BY <1>1, EndStep DEF Abort, data, rows
  <1> QED
    BY <1>1, InsertPendingStep, StoreFileHashStep, ReadStagedStep, PutStep, ClearStagingStep,
       WriteSidecarsStep, MarkProcessedStep, CreateVersionFromFeedbackStep
    DEF Continue

LEMMA TrainingStep == ASSUME IInv, Training PROVE IInv' /\ Progresses
  BY CreateTrainingRunStep, TrainStep DEF Training

LEMMA NextIInv == IInv /\ [Next]_vars => IInv' /\ Progresses
  <1> SUFFICES ASSUME IInv, [Next]_vars PROVE IInv' /\ Progresses  OBVIOUS
  <1>1. CASE InspectUpload \/ ImportHuggingFace
    BY <1>1, StageStep DEF InspectUpload, ImportHuggingFace, ImportHfDataset, PickDataFile
  <1>2. CASE \E r \in Requests : Intake(r) \/ Continue(r)
    BY <1>2, IntakeStep, ContinueStep
  <1>3. CASE \E n \in DOMAIN versions, c \in Contents, e \in SUBSET Contents :
                ValidateVersion(n, c, e)
    BY <1>3, ValidateVersionStep
  <1>4. CASE CreateVersion \/ Curation \/ Training
    BY <1>4, CreateVersionStep, CurationStep, TrainingStep
  <1>5. CASE UNCHANGED vars
    BY <1>5, StutterStep
  <1> QED  BY <1>1, <1>2, <1>3, <1>4, <1>5 DEF Next

LEMMA Invariance == Spec => []IInv
  BY InitIInv, NextIInv, PTL DEF Spec

(* Every reachable state is well typed: in particular a version that is    *)
(* marked, a report whose hash is replaced and an object that is written   *)
(* are always those of an existing version.                                *)
THEOREM DatasetsTypeCorrect == Spec => []TypeOK
  <1>1. IInv => TypeOK  BY DEF IInv
  <1> QED  BY <1>1, Invariance, PTL

(* Where every run is executed by UnslothTrainingRunner, whatever is       *)
(* trained on was examined by a PASS report of the version that the run    *)
(* claims (snapshot_pin and resolve_pin_to_file), even if commits overlap  *)
(* on disk and leave an object cut short or overwritten.                   *)
THEOREM TrainingIsExamined == ASSUME Pinned PROVE Spec => []TrainedWasExamined
  <1>1. IInv => TrainedWasExamined  BY DEF IInv
  <1> QED  BY <1>1, Invariance, PTL

(* A version made from feedback cites approved feedback, although curation *)
(* goes on while it is made (the compare-and-set of feedback_service).     *)
THEOREM CitationsAreApproved == Spec => []SourcesAreApproved
  <1>1. IInv => SourcesAreApproved  BY DEF IInv
  <1> QED  BY <1>1, Invariance, PTL

-----------------------------------------------------------------------------
(* The objects.  On disk they are only safe while WritesApart holds.       *)
Complete(k) == store[k] \notin {None, Partial}

\* What a commit that has looked finds at its key.
Placed(r) ==
    /\ pc[r] = "putting" /\ backend = "local" => store[Key(r)] = None
    /\ pc[r] = "filling" => backend = "local" /\ store[Key(r)] = Partial
    /\ pc[r] \in {"clearing", "describing", "committing"} =>
           store[Key(r)] = job[r].file.content

Placing == {"putting", "filling", "clearing", "describing", "committing"}

\* An object was examined as a file of the version in its key.
ObjectExamined(k) ==
    \E i \in DOMAIN reports :
        /\ reports[i].version = k[1] /\ reports[i].content = store[k]
        /\ reports[i].gate # "FAIL" /\ IsFileReport(i)

\* A version points to an object of its own.
UriStored(n) ==
    versions[n].uri # None => Complete(versions[n].uri) /\ versions[n].uri[1] = n

Stored ==
    /\ \A r \in Requests : Placed(r)
    /\ \A k \in Keys : Complete(k) => ObjectExamined(k)
    /\ \A n \in DOMAIN versions : UriStored(n)
    /\ BytesSurvive

LEMMA InitStored == Init => Stored
  <1> SUFFICES ASSUME Init PROVE Stored  OBVIOUS
  <1>1. DOMAIN reports = {} /\ DOMAIN versions = {}  BY DEF Init
  <1>2. \A r \in Requests : Placed(r)  BY DEF Init, Placed
  <1>3. \A k \in Keys : ~Complete(k)  BY DEF Init, Complete
  <1> QED  BY <1>1, <1>2, <1>3 DEF Stored, BytesSurvive

\* Complete objects do not change.
Immutable == \A k \in Keys : Complete(k) => store'[k] = store[k]

\* The steps that leave objects, full directories and placed commits alone.
Quiet ==
    /\ UNCHANGED <<backend, store>>
    /\ \A s \in Uploads : staged[s] # None => staged'[s] = staged[s]
    /\ \A r \in Requests : pc'[r] \in Placing => pc'[r] = pc[r] /\ job'[r] = job[r]
    /\ \A n \in DOMAIN versions' : versions'[n].uri # None =>
           n \in DOMAIN versions /\ versions'[n].uri = versions[n].uri
    /\ \A i \in DOMAIN reports' : IsFileReport(i)' => i \in DOMAIN reports /\ IsFileReport(i)

LEMMA PlacedKept ==
  ASSUME NEW q \in Requests, Placed(q), backend' = backend,
         pc'[q] \in Placing => pc'[q] = pc[q] /\ job'[q] = job[q] /\ store'[Key(q)] = store[Key(q)]
  PROVE  Placed(q)'
  BY DEF Placed, Placing, Key, ObjectKey

\* Objects stay examined, and the files of old reports stay where they were.
LEMMA StoredKept ==
  ASSUME IInv, Stored, Progresses, Immutable,
         \A q \in Requests : Placed(q)',
         \A k \in Keys : Complete(k)' => store'[k] = store[k] \/ ObjectExamined(k)',
         \A n \in DOMAIN versions' : \/ UriStored(n)'
                                     \/ n \in DOMAIN versions /\ versions'[n].uri = versions[n].uri,
         BytesSurvive'
  PROVE  Stored'
  <1>1. \A k \in Keys : Complete(k)' => ObjectExamined(k)'
    <2> SUFFICES ASSUME NEW k \in Keys, Complete(k)', store'[k] = store[k]
                 PROVE  ObjectExamined(k)'
      OBVIOUS
    <2>1. ObjectExamined(k)  BY DEF Stored, Complete
    <2> QED  BY <2>1 DEF ObjectExamined, Progresses, Grows
  <1>2. \A n \in DOMAIN versions' : UriStored(n)'
    <2> SUFFICES ASSUME NEW n \in DOMAIN versions, n \in DOMAIN versions',
                        versions'[n].uri = versions[n].uri, versions[n].uri # None
                 PROVE  UriStored(n)'
      BY DEF UriStored
    <2>1. versions[n].uri \in Keys  BY Typed DEF IInv, Rows
    <2>2. UriStored(n)  BY DEF Stored
    <2> QED  BY <2>1, <2>2 DEF UriStored, Complete, Immutable
  <1> QED  BY <1>1, <1>2 DEF Stored

\* The bytes of old reports outlive a step that removes no directory.
LEMMA BytesKept ==
  ASSUME IInv, Stored, Immutable, Progresses,
         \A s \in Uploads : staged[s] # None => staged'[s] = staged[s],
         \A i \in DOMAIN reports' : IsFileReport(i)' => i \in DOMAIN reports /\ IsFileReport(i)
  PROVE  BytesSurvive'
  <1> SUFFICES ASSUME NEW i \in DOMAIN reports', IsFileReport(i)'
               PROVE  \/ \E s \in Uploads : staged'[s] # None /\ staged'[s].content = reports'[i].content
                      \/ \E k \in Keys : store'[k] = reports'[i].content
    BY DEF BytesSurvive, IsFileReport
  <1>1. /\ i \in DOMAIN reports /\ IsFileReport(i)
        /\ reports'[i].content = reports[i].content
    BY DEF Progresses, Grows
  <1>2. reports[i].content \in Contents  BY <1>1, Typed DEF IInv, Reports
  <1>3. CASE \E s \in Uploads : staged[s] # None /\ staged[s].content = reports[i].content
    BY <1>1, <1>3
  <1>4. CASE \E k \in Keys : store[k] = reports[i].content
    <2>1. PICK k \in Keys : store[k] = reports[i].content  BY <1>4
    <2>2. Complete(k)  BY <1>2, <2>1, ContentsAssumption DEF Complete
    <2> QED  BY <1>1, <2>1, <2>2 DEF Immutable
  <1> QED  BY <1>1, <1>3, <1>4 DEF Stored, BytesSurvive, IsFileReport

LEMMA QuietStored == ASSUME IInv, Stored, Progresses, Quiet PROVE Stored' /\ Immutable
  <1>1. Immutable  BY DEF Quiet, Immutable
  <1>2. \A q \in Requests : Placed(q)'
    BY PlacedKept DEF Quiet, Stored
  <1>3. BytesSurvive'
    BY <1>1, BytesKept DEF Quiet
  <1>4. ASSUME NEW n \in DOMAIN versions'
        PROVE  \/ UriStored(n)'
               \/ n \in DOMAIN versions /\ versions'[n].uri = versions[n].uri
    <2>1. CASE versions'[n].uri = None
      BY <2>1 DEF UriStored
    <2> QED  BY <2>1 DEF Quiet
  <1> QED  BY <1>1, <1>2, <1>3, <1>4, StoredKept DEF Quiet

-----------------------------------------------------------------------------
(* The quiet steps.                                                        *)
LEMMA IntakeQuiet == ASSUME IInv, NEW r \in Requests, Intake(r) PROVE Quiet
  <1>1. PICK step \in {"inserting", "listing", "citing"} :
            pc' = [pc EXCEPT ![r] = step] /\ UNCHANGED data
    BY DEF Intake, ValidateIntake, CommitIntake, CiteFeedback, Goto, data, rows
  <1>2. \A q \in Requests : q # r => job'[q] = job[q]
    BY DEF Intake, ValidateIntake, CommitIntake, CiteFeedback, IInv, TypeOK
  <1> QED  BY <1>1, <1>2 DEF Quiet, Placing, data, rows, IsFileReport, IInv, TypeOK

LEMMA AppendsQuiet ==
  ASSUME IInv, NEW row \in Rows, row.uri = None,
         versions' \in {versions, Append(versions, row)},
         \/ reports' = reports
         \/ \E c \in Contents, new \in Reports :
                /\ new.hash = RecordsHash(c) /\ new.content = c
                /\ reports' = Append(reports, new),
         UNCHANGED <<backend, staged, store>>,
         \A r \in Requests : pc'[r] \in Placing => pc'[r] = pc[r] /\ job'[r] = job[r]
  PROVE  Quiet
  <1>1. TypeOK  BY DEF IInv
  <1>2. \A n \in DOMAIN versions' : versions'[n].uri # None =>
           n \in DOMAIN versions /\ versions'[n].uri = versions[n].uri
    <2>1. CASE versions' = Append(versions, row)
      BY <1>1, <2>1, Appended DEF TypeOK
    <2> QED  BY <2>1
  <1>3. \A i \in DOMAIN reports' : IsFileReport(i)' => i \in DOMAIN reports /\ IsFileReport(i)
    <2>1. CASE reports' = reports
      BY <2>1 DEF IsFileReport
    <2>2. CASE \E c \in Contents, new \in Reports :
                   /\ new.hash = RecordsHash(c) /\ new.content = c
                   /\ reports' = Append(reports, new)
      <3>1. PICK c \in Contents, new \in Reports :
                   /\ new.hash = RecordsHash(c) /\ new.content = c
                   /\ reports' = Append(reports, new)
        BY <2>2
      <3>2. reports \in Seq(Reports) /\ new.hash # FileHash(new.content)
        BY <1>1, <3>1, HashesDiffer DEF TypeOK
      <3>3. /\ \A i \in DOMAIN reports : reports'[i] = reports[i]
            /\ \A i \in DOMAIN reports' : i \in DOMAIN reports \/ reports'[i] = new
        BY <3>1, <3>2, Appended
      <3> QED  BY <3>2, <3>3 DEF IsFileReport
    <2> QED  BY <2>1, <2>2
  <1> QED  BY <1>2, <1>3 DEF Quiet

LEMMA EndMovesOn ==
  ASSUME IInv, NEW r \in Requests, End(r)
  PROVE  \A q \in Requests : pc'[q] \in Placing => pc'[q] = pc[q] /\ job'[q] = job[q]
  BY DEF End, Goto, Placing, IInv, TypeOK

LEMMA InsertQuiet == ASSUME IInv, NEW r \in Requests, InsertPending(r) PROVE Quiet
  <1>1. CASE End(r) /\ UNCHANGED <<versions, reports>>
    BY <1>1, EndMovesOn DEF InsertPending, Quiet, IsFileReport
  <1>2. CASE ~(End(r) /\ UNCHANGED <<versions, reports>>)
    <2> DEFINE new == [version |-> job[r].number, content |-> job[r].file.content,
                       hash |-> RecordsHash(job[r].file.content), gate |-> job[r].gate]
    <2>1. job[r].file \in Files /\ job[r].gate \in Gates /\ job[r].number \in Numbers
      BY <1>2 DEF InsertPending, IInv, SlotSound, ValidatesOwn
    <2>2. /\ new \in Reports /\ new.content = job[r].file.content
          /\ new.hash = RecordsHash(job[r].file.content) /\ job[r].file.content \in Contents
      BY <2>1 DEF Reports, Hashes, RecordsHash, Files
    <2>3. reports' = Append(reports, new) /\ versions' = Append(versions, Row("PENDING", {}))
      BY <1>2 DEF InsertPending
    <2> HIDE DEF new
    <2>4. \A q \in Requests : pc'[q] \in Placing => pc'[q] = pc[q] /\ job'[q] = job[q]
      BY <1>2 DEF InsertPending, Goto, Placing, IInv, TypeOK
    <2>5. Row("PENDING", {}) \in Rows /\ Row("PENDING", {}).uri = None
      BY RowIsRow
    <2> QED  BY <2>2, <2>3, <2>4, <2>5, AppendsQuiet DEF InsertPending
  <1> QED  BY <1>1, <1>2

LEMMA ValidateVersionQuiet ==
  ASSUME IInv, NEW n \in DOMAIN versions, NEW c \in Contents, NEW e, ValidateVersion(n, c, e)
  PROVE  Quiet
  <1> DEFINE new == [version |-> n, content |-> c, hash |-> RecordsHash(c), gate |-> Gate(c, e)]
  <1>1. n \in Numbers  BY Typed DEF IInv
  <1>2. new \in Reports /\ new.hash = RecordsHash(c) /\ new.content = c
    BY <1>1, GateIsGate DEF Reports, Hashes, RecordsHash
  <1>3. reports' = Append(reports, new)  BY DEF ValidateVersion
  <1> HIDE DEF new
  <1>4. Row("PENDING", {}) \in Rows /\ Row("PENDING", {}).uri = None
    BY RowIsRow
  <1> QED  BY <1>2, <1>3, <1>4, AppendsQuiet DEF ValidateVersion

LEMMA VersionQuiet ==
  ASSUME IInv, CreateVersion \/ \E r \in Requests : CreateVersionFromFeedback(r)
  PROVE  Quiet
  <1>1. CASE CreateVersion
    <2>1. Row("PROCESSED", {}) \in Rows /\ Row("PROCESSED", {}).uri = None
      BY RowIsRow
    <2> QED  BY <1>1, <2>1, AppendsQuiet DEF CreateVersion
  <1>2. CASE \E r \in Requests : CreateVersionFromFeedback(r)
    <2>1. PICK r \in Requests : CreateVersionFromFeedback(r)  BY <1>2
    <2>2. job[r].sources \in SUBSET Feedbacks  BY DEF IInv, TypeOK, Jobs
    <2>3. /\ Row("PROCESSED", job[r].sources) \in Rows
          /\ Row("PROCESSED", job[r].sources).uri = None
      BY <2>2, RowIsRow
    <2>4. \A q \in Requests : pc'[q] \in Placing => pc'[q] = pc[q] /\ job'[q] = job[q]
      BY <2>1, EndMovesOn DEF CreateVersionFromFeedback
    <2> QED  BY <2>1, <2>3, <2>4, AppendsQuiet DEF CreateVersionFromFeedback
  <1> QED  BY <1>1, <1>2

LEMMA OthersQuiet ==
  ASSUME IInv, \/ InspectUpload \/ ImportHuggingFace \/ Curation \/ Training
               \/ \E r \in Requests : Abort(r)
               \/ UNCHANGED vars
  PROVE  Quiet
  <1>1. CASE InspectUpload \/ ImportHuggingFace
    <2>1. PICK file \in Files : Stage(file)
      BY <1>1 DEF InspectUpload, ImportHuggingFace, ImportHfDataset, PickDataFile
    <2>2. uploads \in Nat /\ uploads + 1 # uploads  BY BoundsAssumption DEF IInv, TypeOK
    <2>3. \A s \in Uploads : staged[s] # None => staged'[s] = staged[s]
      BY <2>1, <2>2 DEF Stage, IInv, StagedOnce, TypeOK, Uploads
    <2> QED  BY <2>1, <2>3 DEF Stage, Quiet, IsFileReport
  <1>2. CASE Curation \/ Training \/ UNCHANGED vars
    BY <1>2 DEF Curation, SubmitFeedback, Curate, CreateEvalSetVersion, Training,
                CreateTrainingRun, Train, vars, Quiet, IsFileReport
  <1>3. CASE \E r \in Requests : Abort(r)
    BY <1>3, EndMovesOn DEF Abort, Quiet, IsFileReport
  <1> QED  BY <1>1, <1>2, <1>3

-----------------------------------------------------------------------------
(* The steps that store, remove or publish a file.                         *)
LEMMA FileHashStored ==
  ASSUME IInv, Stored, NEW r \in Requests, Progresses, StoreFileHash(r)
  PROVE  Stored' /\ Immutable
  <1> DEFINE i == job[r].report
             s == job[r].upload
  <1>1. /\ TypeOK /\ End(r) /\ SlotSound(r) /\ pc[r] = "hashing"
        /\ UNCHANGED <<backend, staged, store, versions>>
    BY DEF IInv, StoreFileHash
  <1>2. Immutable  BY <1>1 DEF Immutable
  <1>3. \A q \in Requests : Placed(q)'
    BY <1>1, EndMovesOn, PlacedKept DEF Stored
  <1>4. BytesSurvive'
    <2>1. CASE staged[s] = None
      BY <1>1, <1>2, <2>1, BytesKept DEF StoreFileHash, IsFileReport
    <2>2. CASE staged[s] # None
      <3>1. /\ i \in DOMAIN reports /\ s \in Uploads /\ reports \in Seq(Reports)
            /\ reports[i].content = job[r].file.content /\ staged[s] = job[r].file
        BY <1>1, <2>2 DEF SlotSound, ValidatesOwn, HashesOwn, TypeOK
      <3>2. /\ DOMAIN reports' = DOMAIN reports
            /\ \A n \in DOMAIN reports : n # i => reports'[n] = reports[n]
            /\ reports'[i].content = reports[i].content
        BY <2>2, <3>1 DEF StoreFileHash, Progresses, Grows
      <3>3. \A n \in DOMAIN reports : n # i /\ IsFileReport(n) =>
                \/ \E u \in Uploads : staged[u] # None /\ staged[u].content = reports[n].content
                \/ \E k \in Keys : store[k] = reports[n].content
        BY DEF Stored, BytesSurvive, IsFileReport
      <3> QED  BY <1>1, <2>2, <3>1, <3>2, <3>3 DEF BytesSurvive, IsFileReport
    <2> QED  BY <2>1, <2>2
  <1> QED  BY <1>1, <1>2, <1>3, <1>4, StoredKept

\* Nothing was examined twice as a file of one version: a second write of an
\* object to MinIO repeats its bytes.
LEMMA ExaminedOnce ==
  ASSUME IInv, Stored, NEW r \in Requests, pc[r] \in Placing
  PROVE  /\ Key(r) \in Keys /\ job[r].file.content \in Contents
         /\ Complete(Key(r)) => store[Key(r)] = job[r].file.content
         /\ \E i \in DOMAIN reports :
                /\ reports[i].version = Key(r)[1] /\ reports[i].content = job[r].file.content
                /\ reports[i].gate # "FAIL" /\ IsFileReport(i)
  <1> DEFINE i == job[r].report
  <1>1. /\ Key(r) \in Keys /\ Key(r)[1] = job[r].number /\ i \in DOMAIN reports
        /\ reports[i].content = job[r].file.content /\ job[r].file.content \in Contents
    BY KeyIsKey DEF Placing, Committing
  <1>2. reports[i].version = job[r].number /\ reports[i].gate # "FAIL" /\ IsFileReport(i)
    BY DEF IInv, SlotSound, CommitMatches, Placing, Committing
  <1>3. Complete(Key(r)) => store[Key(r)] = job[r].file.content
    BY <1>1, <1>2 DEF IInv, Stored, ObjectExamined, OneFileReport
  <1> QED  BY <1>1, <1>2, <1>3

\* One object is written, and the commit goes on.
LEMMA PutStored ==
  ASSUME IInv, Stored, Progresses, NEW r \in Requests, pc[r] \in Placing,
         NEW bytes \in {job[r].file.content, Partial}, NEW step \in Placing, Put(r, bytes, step),
         bytes = Partial => ~Complete(Key(r)) /\ step = "filling" /\ backend = "local",
         bytes # Partial => step = "clearing",
         \A q \in Requests \ {r} :
             pc[q] \in {"putting", "filling"} /\ backend = "local" => Key(q) # Key(r),
         \A q \in Requests : pc[q] = "filling" => backend = "local"
  PROVE  Stored' /\ Immutable
  <1>1. /\ TypeOK /\ store' = [store EXCEPT ![Key(r)] = bytes] /\ pc' = [pc EXCEPT ![r] = step]
        /\ UNCHANGED <<backend, staged, versions, reports, job>>
    BY DEF IInv, Put, Goto
  <1>2. /\ Key(r) \in Keys /\ job[r].file.content \in Contents
        /\ Complete(Key(r)) => store[Key(r)] = job[r].file.content
        /\ \E i \in DOMAIN reports :
               /\ reports[i].version = Key(r)[1] /\ reports[i].content = job[r].file.content
               /\ reports[i].gate # "FAIL" /\ IsFileReport(i)
    BY ExaminedOnce
  <1>3. /\ store'[Key(r)] = bytes /\ \A k \in Keys : k # Key(r) => store'[k] = store[k]
        /\ pc'[r] = step /\ \A q \in Requests : q # r => pc'[q] = pc[q]
    BY <1>1, <1>2 DEF TypeOK
  <1>4. Immutable  BY <1>2, <1>3 DEF Immutable
  <1>5. ASSUME NEW q \in Requests PROVE Placed(q)'
    <2>1. CASE q = r
      <3>1. Key(r)' = Key(r)  BY <1>1 DEF Key, ObjectKey
      <3>2. job[r].file.content # Partial  BY <1>2, ContentsAssumption
      <3> QED  BY <1>1, <1>3, <2>1, <3>1, <3>2 DEF Placed
    <2>2. CASE q # r /\ pc[q] \in Placing
      <3>1. Key(q) \in Keys /\ Complete(Key(q)) => store'[Key(q)] = store[Key(q)]
        BY <1>4 DEF Immutable
      <3>2. Key(q) \in Keys /\ job[q].file.content \in Contents
        BY <2>2, ExaminedOnce
      <3>3. Placed(q)  BY DEF Stored
      <3>4. CASE pc[q] \in {"putting", "filling"} /\ backend = "local"
        BY <1>1, <1>3, <2>2, <3>2, <3>3, <3>4, PlacedKept
      <3>5. CASE pc[q] \in {"clearing", "describing", "committing"}
        <4>1. Complete(Key(q))
          BY <3>2, <3>3, <3>5, ContentsAssumption DEF Placed, Complete
        <4> QED  BY <1>1, <1>3, <2>2, <3>1, <3>2, <3>3, <4>1, PlacedKept
      <3>6. CASE pc[q] = "putting" /\ backend # "local"
        BY <1>1, <1>3, <2>2, <3>6 DEF Placed
      <3> QED  BY <2>2, <3>4, <3>5, <3>6 DEF Placing
    <2>3. CASE q # r /\ pc[q] \notin Placing
      BY <1>3, <2>3 DEF Placed, Placing
    <2> QED  BY <2>1, <2>2, <2>3
  <1>6. ASSUME NEW k \in Keys, Complete(k)' PROVE store'[k] = store[k] \/ ObjectExamined(k)'
    <2>1. CASE k = Key(r)
      <3>1. bytes = job[r].file.content  BY <1>3, <1>6, <2>1 DEF Complete
      <3> QED  BY <1>1, <1>2, <1>3, <2>1, <3>1 DEF ObjectExamined, IsFileReport
    <2> QED  BY <1>3, <2>1
  <1>7. BytesSurvive'
    BY <1>1, <1>4, BytesKept DEF IsFileReport
  <1> QED  BY <1>1, <1>4, <1>5, <1>6, <1>7, StoredKept

LEMMA WritesStored ==
  ASSUME IInv, Stored, Progresses, WritesApart, NEW r \in Requests,
         PutObject(r) \/ OpenObject(r) \/ FillObject(r)
  PROVE  Stored' /\ Immutable
  <1>1. pc[r] \in {"putting", "filling"}
    BY DEF PutObject, OpenObject, FillObject
  <1>2. \A q \in Requests \ {r} :
            pc[q] \in {"putting", "filling"} /\ backend = "local" => Key(q) # Key(r)
    BY <1>1 DEF WritesApart
  <1>3. \A q \in Requests : Placed(q)  BY DEF Stored
  <1>4. \A q \in Requests : pc[q] = "filling" => backend = "local"
    BY <1>3 DEF Placed
  <1>5. job[r].file.content # Partial
    BY <1>1, ExaminedOnce, ContentsAssumption DEF Placing
  <1>6. CASE PutObject(r) \/ FillObject(r)
    BY <1>1, <1>2, <1>4, <1>5, <1>6, PutStored DEF PutObject, FillObject, Placing
  <1>7. CASE OpenObject(r)
    <2>1. ~Complete(Key(r))  BY <1>3, <1>7 DEF OpenObject, Placed, Complete
    <2> QED  BY <1>1, <1>2, <1>4, <1>5, <1>7, <2>1, PutStored DEF OpenObject, Placing
  <1> QED  BY <1>6, <1>7

LEMMA ReadStored ==
  ASSUME IInv, Stored, Progresses, NEW r \in Requests, ReadStaged(r)
  PROVE  Stored' /\ Immutable
  <1> DEFINE file == staged[job[r].upload]
  <1>1. /\ TypeOK /\ UNCHANGED <<backend, staged, store, versions, reports>>
        /\ store[ObjectKey(job[r].number, file.name)] = None
        /\ pc' = [pc EXCEPT ![r] = "putting"] /\ job' = [job EXCEPT ![r].file = file]
    BY DEF IInv, ReadStaged, Goto
  <1>2. /\ pc'[r] = "putting" /\ job'[r].file = file /\ job'[r].number = job[r].number
        /\ \A q \in Requests : q # r => pc'[q] = pc[q] /\ job'[q] = job[q]
    BY <1>1 DEF TypeOK, Jobs
  <1>3. Placed(r)'  BY <1>1, <1>2 DEF Placed, Key
  <1>4. \A q \in Requests : q # r => Placed(q)'
    BY <1>1, <1>2, PlacedKept DEF Stored
  <1>5. Immutable  BY <1>1 DEF Immutable
  <1>6. BytesSurvive'  BY <1>1, <1>5, BytesKept DEF IsFileReport
  <1> QED  BY <1>1, <1>3, <1>4, <1>5, <1>6, StoredKept

LEMMA ClearStored ==
  ASSUME IInv, Stored, Progresses, NEW r \in Requests, ClearStaging(r)
  PROVE  Stored' /\ Immutable
  <1> DEFINE u == job[r].upload
  <1>1. /\ TypeOK /\ pc[r] = "clearing" /\ pc' = [pc EXCEPT ![r] = "describing"]
        /\ staged' = [staged EXCEPT ![u] = None]
        /\ UNCHANGED <<backend, store, versions, reports, job>>
    BY DEF IInv, ClearStaging, Goto
  <1>2. /\ pc'[r] = "describing" /\ job'[r] = job[r]
        /\ \A q \in Requests : q # r => pc'[q] = pc[q] /\ job'[q] = job[q]
    BY <1>1 DEF TypeOK
  <1>3. store[Key(r)] = job[r].file.content  BY <1>1 DEF Stored, Placed
  <1>4. Key(r)' = Key(r)  BY <1>2 DEF Key, ObjectKey
  <1>5. Placed(r)'  BY <1>1, <1>2, <1>3, <1>4 DEF Placed
  <1>6. \A q \in Requests : q # r => Placed(q)'
    BY <1>1, <1>2, PlacedKept DEF Stored
  <1>7. Immutable  BY <1>1 DEF Immutable
  <1>8. Key(r) \in Keys  BY <1>1, ExaminedOnce DEF Placing
  <1>9. u \in Uploads /\ (staged[u] # None => staged[u].content = job[r].file.content)
    <2>1. CommitMatches(r)  BY DEF IInv, SlotSound
    <2> QED  BY <1>1, <2>1 DEF CommitMatches, Committing
  <1>10. BytesSurvive'
    <2> SUFFICES ASSUME NEW i \in DOMAIN reports,
                        reports[i].hash = FileHash(reports[i].content)
                 PROVE  \/ \E s \in Uploads : /\ staged'[s] # None
                                              /\ staged'[s].content = reports[i].content
                        \/ \E k \in Keys : store[k] = reports[i].content
      BY <1>1 DEF BytesSurvive
    <2>1. \A s \in Uploads \ {u} : staged'[s] = staged[s]
      BY <1>1 DEF TypeOK
    <2>2. ASSUME NEW s \in Uploads, staged[s] # None,
                 staged[s].content = reports[i].content, s = u
          PROVE  store[Key(r)] = reports[i].content
      BY <1>3, <1>9, <2>2
    <2>3. \/ \E s \in Uploads : staged[s] # None /\ staged[s].content = reports[i].content
          \/ \E k \in Keys : store[k] = reports[i].content
      BY DEF Stored, BytesSurvive
    <2> QED  BY <1>8, <2>1, <2>2, <2>3
  <1> QED  BY <1>1, <1>5, <1>6, <1>7, <1>10, StoredKept

\* The sidecars are no objects of Keys.
LEMMA SidecarsApart ==
  ASSUME NamesApart, TypeOK, NEW r \in Requests, WriteSidecars(r)
  PROVE  store' = store
  <1>1. \A k \in Keys : k[2] \notin SidecarNames
    BY DEF Keys, NamesApart
  <1> QED  BY <1>1 DEF WriteSidecars, TypeOK

LEMMA SidecarsStored ==
  ASSUME NamesApart, IInv, Stored, Progresses, NEW r \in Requests, WriteSidecars(r)
  PROVE  Stored' /\ Immutable
  <1>1. /\ TypeOK /\ pc[r] = "describing" /\ pc' = [pc EXCEPT ![r] = "committing"]
        /\ UNCHANGED <<backend, store, staged, versions, reports, job>>
    BY SidecarsApart DEF IInv, WriteSidecars, Goto
  <1>2. /\ pc'[r] = "committing" /\ job'[r] = job[r]
        /\ \A q \in Requests : q # r => pc'[q] = pc[q] /\ job'[q] = job[q]
    BY <1>1 DEF TypeOK
  <1>3. store[Key(r)] = job[r].file.content  BY <1>1 DEF Stored, Placed
  <1>4. Key(r)' = Key(r)  BY <1>2 DEF Key, ObjectKey
  <1>5. Placed(r)'  BY <1>1, <1>2, <1>3, <1>4 DEF Placed
  <1>6. \A q \in Requests : q # r => Placed(q)'
    BY <1>1, <1>2, PlacedKept DEF Stored
  <1>7. Immutable  BY <1>1 DEF Immutable
  <1>8. BytesSurvive'  BY <1>1, <1>7, BytesKept DEF IsFileReport
  <1> QED  BY <1>1, <1>5, <1>6, <1>7, <1>8, StoredKept

LEMMA ProcessedStored ==
  ASSUME IInv, Stored, Progresses, NEW r \in Requests, MarkProcessed(r)
  PROVE  Stored' /\ Immutable
  <1> DEFINE n == job[r].number
  <1>1. /\ TypeOK /\ pc[r] = "committing" /\ End(r) /\ UNCHANGED <<backend, staged, store, reports>>
        /\ versions' = [versions EXCEPT ![n].status = "PROCESSED", ![n].uri = Key(r)]
    BY DEF IInv, MarkProcessed
  <1>2. Immutable  BY <1>1 DEF Immutable
  <1>3. \A q \in Requests : Placed(q)'
    BY <1>1, EndMovesOn, PlacedKept DEF Stored
  <1>4. BytesSurvive'  BY <1>1, <1>2, BytesKept DEF IsFileReport
  <1>5. /\ job[r].file.content \in Contents /\ Key(r) \in Keys /\ Key(r)[1] = n
        /\ n \in DOMAIN versions
    BY <1>1, KeyIsKey DEF Committing
  <1>6. store[Key(r)] = job[r].file.content  BY <1>1 DEF Stored, Placed
  <1>7. Complete(Key(r))  BY <1>5, <1>6, ContentsAssumption DEF Complete
  <1>8. versions[n] \in Rows /\ versions \in Seq(Rows)  BY <1>1, <1>5, Typed DEF TypeOK
  <1>9. /\ DOMAIN versions' = DOMAIN versions /\ versions'[n].uri = Key(r)
        /\ \A k \in DOMAIN versions : k # n => versions'[k] = versions[k]
    BY <1>1, <1>5, <1>8 DEF Rows
  <1>10. ASSUME NEW k \in DOMAIN versions'
         PROVE  \/ UriStored(k)'
                \/ k \in DOMAIN versions /\ versions'[k].uri = versions[k].uri
    <2>1. CASE k = n
      BY <1>1, <1>5, <1>7, <1>9, <2>1 DEF UriStored, Complete
    <2> QED  BY <1>9, <2>1
  <1> QED  BY <1>1, <1>2, <1>3, <1>4, <1>10, StoredKept

-----------------------------------------------------------------------------
LEMMA NextStored ==
  ASSUME NamesApart, IInv, Stored, WritesApart, [Next]_vars
  PROVE  Stored' /\ Immutable
  <1>1. Progresses  BY NextIInv
  <1>2. CASE \E r \in Requests : Continue(r)
    <2>1. PICK r \in Requests : Continue(r)  BY <1>2
    <2>2. CASE InsertPending(r) \/ CreateVersionFromFeedback(r) \/ Abort(r)
      BY <1>1, <2>2, InsertQuiet, VersionQuiet, OthersQuiet, QuietStored
    <2>3. CASE StoreFileHash(r) \/ ReadStaged(r) \/ ClearStaging(r)
      BY <1>1, <2>3, FileHashStored, ReadStored, ClearStored
    <2>4. CASE PutObject(r) \/ OpenObject(r) \/ FillObject(r)
      BY <1>1, <2>4, WritesStored
    <2>5. CASE WriteSidecars(r) \/ MarkProcessed(r)
      BY <1>1, <2>5, SidecarsStored, ProcessedStored
    <2> QED  BY <2>1, <2>2, <2>3, <2>4, <2>5 DEF Continue
  <1>3. CASE \E n \in DOMAIN versions, c \in Contents, e \in SUBSET Contents :
                ValidateVersion(n, c, e)
    BY <1>1, <1>3, ValidateVersionQuiet, QuietStored
  <1>4. CASE CreateVersion \/ \E r \in Requests : Intake(r)
    BY <1>1, <1>4, VersionQuiet, IntakeQuiet, QuietStored
  <1>5. CASE InspectUpload \/ ImportHuggingFace \/ Curation \/ Training \/ UNCHANGED vars
    BY <1>1, <1>5, OthersQuiet, QuietStored
  <1> QED  BY <1>2, <1>3, <1>4, <1>5 DEF Next

LEMMA StoredInvariance == ASSUME NamesApart PROVE Spec /\ []WritesApart => []Stored
  <1>1. IInv /\ Stored /\ WritesApart /\ [Next]_vars => Stored'
    BY NextStored
  <1> QED  BY <1>1, InitStored, Invariance, PTL DEF Spec

\* A file that was committed under a version was examined under it.
LEMMA UrisExamined == ASSUME IInv, Stored PROVE CommittedWasExamined
  <1> SUFFICES ASSUME NEW n \in DOMAIN versions, versions[n].uri # None
               PROVE  /\ store[versions[n].uri] # None
                      /\ Examined(n, store[versions[n].uri], {"PASS", "NEEDS_REVIEW"})
    BY DEF CommittedWasExamined
  <1>1. versions[n].uri \in Keys  BY Typed DEF IInv, Rows
  <1>2. Complete(versions[n].uri) /\ versions[n].uri[1] = n
    BY DEF Stored, UriStored
  <1>3. PICK i \in DOMAIN reports :
            /\ reports[i].version = n /\ reports[i].content = store[versions[n].uri]
            /\ reports[i].gate # "FAIL"
    BY <1>1, <1>2 DEF Stored, ObjectExamined
  <1>4. reports[i] \in Reports  BY <1>3, Typed DEF IInv
  <1> QED  BY <1>2, <1>3, <1>4 DEF Examined, Reports, Gates, Complete

(* For any number of overlapping commits, validations and handlers that    *)
(* die: the object a version points to holds bytes that a report of this   *)
(* very version examined and did not fail (commit_intake's checksum).  On  *)
(* disk two commits of one object must not overlap in their writes.        *)
THEOREM CommitsAreExamined ==
  ASSUME NamesApart PROVE Spec /\ []WritesApart => []CommittedWasExamined
  BY Invariance, StoredInvariance, UrisExamined, PTL

(* Whatever step a commit dies in, the bytes of a file that the intake     *)
(* examined are still staged or are an object (commit_file's order), also  *)
(* when it dies in the middle of write_bytes.                              *)
THEOREM AcceptedBytesSurvive ==
  ASSUME NamesApart PROVE Spec /\ []WritesApart => []BytesSurvive
  <1>1. Stored => BytesSurvive  BY DEF Stored
  <1> QED  BY <1>1, StoredInvariance, PTL

(* A complete object never changes its bytes, although put_immutable looks *)
(* and writes in two steps: whoever writes to MinIO between them writes    *)
(* the same bytes, and on disk nobody may.                                 *)
THEOREM ObjectsStayPut ==
  ASSUME NamesApart PROVE Spec /\ []WritesApart => ObjectsImmutable
  <1>1. IInv /\ Stored /\ WritesApart /\ [Next]_vars => [Immutable]_vars
    BY NextStored
  <1>2. Spec /\ []WritesApart => [][Immutable]_vars
    BY <1>1, Invariance, StoredInvariance, PTL DEF Spec
  <1> QED  BY <1>2 DEF ObjectsImmutable, Immutable, Complete

(* With MinIO no two commits can come into each other's way: the condition *)
(* on the writes is met by the backend itself.                             *)
THEOREM MinioNeedsNoCare ==
  ASSUME NamesApart, Backends \subseteq {"minio"}
  PROVE  Spec => []CommittedWasExamined /\ []BytesSurvive /\ ObjectsImmutable
  <1>1. IInv => WritesApart
    BY DEF IInv, TypeOK, WritesApart
  <1> QED
    BY <1>1, Invariance, CommitsAreExamined, AcceptedBytesSurvive, ObjectsStayPut, PTL
=============================================================================
