-------------------------- MODULE EvaluationProofs --------------------------
(* Evaluation for any number of versions, workers, triggers and faults.    *)
EXTENDS Evaluation, TLAPS

\* Whoever is past the selection has a version in hand.
Targeted == \A w \in Workers : pc[w] # "idle" => target[w] \in Versions

\* The row of a version is locked by one worker.
RowLocked ==
    \A w, u \in Workers :
        pc[w] \in Working /\ pc[u] \in Working /\ target[w] = target[u] => w = u

\* A pending request was queued and no evaluation has consumed it yet.
Counted ==
    \A v \in Versions : /\ evaluations[v] <= queued[v]
                        /\ row[v].requested => evaluations[v] + 1 <= queued[v]

\* Signals are only added to what a worker has read.
SeenOlder ==
    \A w \in Workers : pc[w] # "idle" => seen[w].signals \subseteq row[target[w]].signals

\* A deploy is one of a decided version.
DeployDecided == deploying # None => row[deploying].status # "REGISTERED"

\* The host has kept its adapters and answered every call.
Quiet == {"restart", "lost_answer"} \cap faults = {}

Served == Deployed \cup {deploying}

\* The drift check has the adapter of v loaded.
Drifting(v) == drift # None /\ drift.loaded /\ drift.version = v

\* Then a worker that generates, and a drift check that does, has an adapter
\* that nobody else uses.
Undisturbed ==
    Quiet =>
        /\ \A v \in Versions : v \in Served => v \in loaded
        /\ \A w \in Workers : pc[w] \in {"generating", "unloading"} =>
               target[w] \in loaded /\ target[w] \notin Served /\ ~Drifting(target[w])
        /\ \A v \in Versions : Drifting(v) => v \in loaded /\ v \notin Served

IInv ==
    /\ TypeOK /\ Targeted /\ RowLocked /\ Counted /\ SeenOlder /\ DeployDecided
    /\ DecidedHasEvidence /\ Undisturbed

LEMMA RegisteredIsRow ==
  Registered \in Rows /\ Registered.status = "REGISTERED" /\ ~Registered.requested
  BY DEF Registered, Rows, Status

LEMMA InitIInv == Init => IInv
  <1> SUFFICES ASSUME Init PROVE IInv  OBVIOUS
  <1>1. TypeOK
    BY RegisteredIsRow DEF Init, TypeOK, Working
  <1>2. Targeted /\ RowLocked /\ SeenOlder /\ DeployDecided
    BY DEF Init, Targeted, RowLocked, SeenOlder, DeployDecided, Working
  <1>3. Counted /\ DecidedHasEvidence
    BY RegisteredIsRow DEF Init, Counted, DecidedHasEvidence
  <1>4. Deployed = {}  BY RegisteredIsRow DEF Init, Deployed
  <1>5. Undisturbed
    BY <1>4, NoneAssumption DEF Init, Undisturbed, Drifting, Served
  <1> QED  BY <1>1, <1>2, <1>3, <1>5 DEF IInv

\* What steps do to the rows: evidence is added and decisions stay.
Advances ==
    \A v \in Versions : /\ row[v].signals \subseteq row'[v].signals
                        /\ row[v].status # "REGISTERED" => row'[v].status # "REGISTERED"

workers == <<pc, target, seen, result>>

LEMMA WorkingMeans == Working \subseteq {"claiming"} \cup Working /\ "idle" \notin Working
                      /\ "claiming" \notin Working
  BY DEF Working

-----------------------------------------------------------------------------
(* Steps that change no row.                                               *)
LEMMA RowsKept ==
  ASSUME IInv, UNCHANGED <<row, triggers, queued, evaluations>>
  PROVE  Counted' /\ DecidedHasEvidence' /\ Deployed' = Deployed
  BY DEF IInv, Counted, DecidedHasEvidence, Deployed

\* Neither does a worker move.
LEMMA HostStep ==
  ASSUME IInv, UNCHANGED <<row, triggers, queued, evaluations, workers>>, TypeOK', Undisturbed',
         DeployDecided'
  PROVE  IInv'
  BY RowsKept DEF IInv, workers, Targeted, RowLocked, SeenOlder

LEMMA TriggerReadStep ==
  ASSUME IInv, NEW v \in Versions, NEW e \in Sets, TriggerRead(v, e) PROVE IInv'
  <1>1. row[v] \in Rows  BY DEF IInv, TypeOK
  <1>2. TypeOK'  BY <1>1 DEF IInv, TypeOK, TriggerRead
  <1>3. Undisturbed' /\ DeployDecided'
    BY DEF IInv, Undisturbed, Drifting, DeployDecided, Quiet, Served, Deployed, TriggerRead
  <1> QED  BY <1>2, <1>3, HostStep DEF TriggerRead, workers

LEMMA DeployLoadStep == ASSUME IInv, NEW v \in Versions, DeployLoad(v) PROVE IInv'
  <1>1. TypeOK'  BY DEF IInv, TypeOK, DeployLoad
  <1>2. DeployDecided'  BY DEF DeployDecided, DeployLoad
  <1>3. Undisturbed'
    BY NoneAssumption DEF IInv, Undisturbed, Drifting, Quiet, Served, Deployed, DeployLoad, Targeted
  <1> QED  BY <1>1, <1>2, <1>3, HostStep DEF DeployLoad, workers

\* A fault is recorded: after one of these two the host is not quiet.
LEMMA FaultKept ==
  ASSUME TypeOK, NEW kind \in FaultKinds, Fault(kind)
  PROVE  /\ faults' \subseteq FaultKinds /\ (Quiet' => Quiet)
         /\ kind \in {"restart", "lost_answer"} => ~Quiet'
  BY DEF TypeOK, Fault, Quiet

LEMMA DriftSelectStep == ASSUME IInv, NEW v \in Versions, DriftSelect(v) PROVE IInv'
  <1>1. row[v] \in Rows  BY DEF IInv, TypeOK
  <1>2. TypeOK'  BY <1>1 DEF IInv, TypeOK, DriftSelect
  <1>3. ~drift'.loaded  BY DEF DriftSelect
  <1>4. Undisturbed' /\ DeployDecided'
    BY <1>3 DEF IInv, Undisturbed, Drifting, DeployDecided, Quiet, Served, Deployed, DriftSelect
  <1> QED  BY <1>2, <1>4, HostStep DEF DriftSelect, workers

\* A load that fails leaves the host as it is, or as it should not be.
LEMMA LoadRefusedFacts ==
  ASSUME TypeOK, NEW v \in Versions, NEW e, LoadRefused(v, e)
  PROVE  /\ loaded' \subseteq Versions /\ faults' \subseteq FaultKinds /\ (Quiet' => Quiet)
         /\ (Quiet' => loaded' = loaded)
  <1>1. CASE UNCHANGED <<loaded, faults>>  BY <1>1 DEF TypeOK, Quiet
  <1>2. CASE Fault("outage") /\ UNCHANGED loaded
    BY <1>2, FaultKept DEF TypeOK, FaultKinds
  <1>3. CASE Fault("lost_answer") /\ loaded' = loaded \cup {v}
    BY <1>3, FaultKept DEF TypeOK, FaultKinds
  <1> QED  BY <1>1, <1>2, <1>3 DEF LoadRefused

LEMMA DriftSkipStep == ASSUME IInv, DriftSkip PROVE IInv'
  <1>1. TypeOK /\ drift.version \in Versions
    BY DEF IInv, TypeOK, DriftSkip
  <1>2. /\ loaded' \subseteq Versions /\ faults' \subseteq FaultKinds /\ (Quiet' => Quiet)
        /\ (Quiet' => loaded' = loaded)
    BY <1>1, LoadRefusedFacts DEF DriftSkip
  <1>3. TypeOK'  BY <1>1, <1>2 DEF TypeOK, DriftSkip
  <1>4. Undisturbed' /\ DeployDecided'
    BY <1>2 DEF IInv, Undisturbed, Drifting, DeployDecided, Served, Deployed, DriftSkip
  <1> QED  BY <1>3, <1>4, HostStep DEF DriftSkip, workers

LEMMA DriftLoadStep == ASSUME IInv, DriftLoad PROVE IInv'
  <1>1. /\ TypeOK /\ drift \in [version : Versions, read : Rows, loaded : BOOLEAN]
        /\ drift' = [drift EXCEPT !.loaded = TRUE]
    BY DEF IInv, TypeOK, DriftLoad
  <1>2. drift' \in [version : Versions, read : Rows, loaded : BOOLEAN]
        /\ drift'.version = drift.version
    BY <1>1
  <1>3. TypeOK'  BY <1>1, <1>2 DEF TypeOK, DriftLoad
  <1>4. DeployDecided'  BY DEF IInv, DeployDecided, DriftLoad
  <1>5. \A v \in Versions : Drifting(v)' => v = drift.version
    BY <1>2 DEF Drifting
  <1>6. Undisturbed'
    BY <1>1, <1>5 DEF IInv, Undisturbed, Drifting, Quiet, Served, Deployed, DriftLoad, Targeted
  <1> QED  BY <1>3, <1>4, <1>6, HostStep DEF DriftLoad, workers

LEMMA DriftRecordStep == ASSUME IInv, NEW failing, DriftRecord(failing) PROVE IInv'
  <1> DEFINE new == [version |-> drift.version, regressed |-> ~(failing \subseteq drift.read.failing)]
  <1>1. TypeOK /\ drift \in [version : Versions, read : Rows, loaded : BOOLEAN] /\ drift # None
    BY DEF IInv, TypeOK, DriftRecord
  <1>2. new \in [version : Versions, regressed : BOOLEAN]
    BY <1>1, Zenon
  <1>3. /\ drifts' = drifts \cup {new} /\ drift' = None /\ Drifting(drift.version)
        /\ UNCHANGED <<row, pc, target, seen, result, trigger, deploying, triggers, queued, evaluations>>
    BY DEF DriftRecord, Drifting
  <1> HIDE DEF new
  <1>4. /\ loaded' \subseteq Versions /\ faults' \subseteq FaultKinds /\ (Quiet' => Quiet)
        /\ loaded' \in {loaded, loaded \ {drift.version}}
    <2>1. CASE loaded' = loaded \ {drift.version} /\ UNCHANGED faults
      BY <1>1, <2>1 DEF TypeOK, Quiet
    <2>2. CASE Fault("outage") /\ UNCHANGED loaded
      BY <1>1, <2>2, FaultKept DEF TypeOK, FaultKinds
    <2> QED  BY <2>1, <2>2 DEF DriftRecord
  <1>5. TypeOK'  BY <1>1, <1>2, <1>3, <1>4 DEF TypeOK
  <1>6. DeployDecided'  BY <1>3 DEF IInv, DeployDecided
  <1>7. Quiet => /\ drift.version \notin Served
                 /\ \A w \in Workers : pc[w] \in {"generating", "unloading"} =>
                        target[w] # drift.version
    BY <1>1, <1>3 DEF IInv, Undisturbed
  <1>8. Undisturbed'
    BY <1>3, <1>4, <1>7 DEF IInv, Undisturbed, Drifting, Served, Deployed
  <1> QED  BY <1>3, <1>5, <1>6, <1>8, HostStep DEF workers

LEMMA RestartHostStep == ASSUME IInv, RestartHost PROVE IInv'
  <1>1. faults' \subseteq FaultKinds /\ ~Quiet'
    BY FaultKept DEF IInv, RestartHost, FaultKinds
  <1>2. TypeOK'  BY <1>1 DEF IInv, TypeOK, RestartHost
  <1>3. Undisturbed' /\ DeployDecided'
    BY <1>1 DEF IInv, Undisturbed, DeployDecided, RestartHost
  <1> QED  BY <1>2, <1>3, HostStep DEF RestartHost, workers

-----------------------------------------------------------------------------
(* Steps that move a worker and change no row.                             *)
LEMMA SelectStep ==
  ASSUME IInv, NEW w \in Workers, NEW v \in Versions, Select(w, v) PROVE IInv'
  <1> USE DEF Select, Goto
  <1>1. row[v] \in Rows  BY DEF IInv, TypeOK
  <1>2. TypeOK'  BY <1>1 DEF IInv, TypeOK, Working
  <1>3. Targeted'  BY DEF IInv, TypeOK, Targeted
  <1>4. RowLocked'  BY DEF IInv, TypeOK, RowLocked, Working
  <1>5. SeenOlder'  BY DEF IInv, TypeOK, SeenOlder
  <1>6. DeployDecided'  BY DEF IInv, DeployDecided
  <1>7. Undisturbed'
    BY DEF IInv, TypeOK, Undisturbed, Drifting, Quiet, Served, Deployed
  <1> QED  BY <1>2, <1>3, <1>4, <1>5, <1>6, <1>7, RowsKept DEF IInv

\* The worker lets go of its version.
LEMMA ForgetFacts ==
  ASSUME TypeOK, NEW w \in Workers, Forget(w)
  PROVE  /\ pc' \in [Workers -> {"idle", "claiming"} \cup Working]
         /\ target' \in [Workers -> Versions \cup {None}]
         /\ seen' \in [Workers -> Rows] /\ result' \in [Workers -> SUBSET Records]
         /\ pc'[w] = "idle"
         /\ \A u \in Workers : u # w => pc'[u] = pc[u] /\ target'[u] = target[u] /\ seen'[u] = seen[u]
  BY RegisteredIsRow DEF Forget, Goto, TypeOK

LEMMA ForgetStep ==
  ASSUME IInv, NEW w \in Workers, Forget(w),
         UNCHANGED <<row, loaded, trigger, deploying, drift, drifts, triggers, queued, evaluations>>,
         faults' \subseteq FaultKinds, Quiet' => Quiet
  PROVE  IInv'
  <1>1. TypeOK  BY DEF IInv
  <1>2. TypeOK'
    BY <1>1, ForgetFacts, WorkingMeans DEF TypeOK
  <1>3. Targeted' /\ RowLocked' /\ SeenOlder'
    BY <1>1, ForgetFacts, WorkingMeans DEF IInv, Targeted, RowLocked, SeenOlder
  <1>4. DeployDecided'  BY DEF IInv, DeployDecided
  <1>5. Undisturbed'
    BY <1>1, ForgetFacts DEF IInv, Undisturbed, Drifting, Served, Deployed
  <1> QED  BY <1>2, <1>3, <1>4, <1>5, RowsKept DEF IInv

LEMMA ClaimStep == ASSUME IInv, NEW w \in Workers, Claim(w) PROVE IInv'
  <1>1. CASE Forget(w)
    BY <1>1, ForgetStep DEF Claim, Quiet, IInv, TypeOK
  <1>2. CASE Claimable(target[w]) /\ Goto(w, "loading") /\ UNCHANGED <<target, seen, result>>
    <2>1. /\ pc[w] = "claiming" /\ RowFree(target[w]) /\ row[target[w]].requested
          /\ pc' = [pc EXCEPT ![w] = "loading"] /\ UNCHANGED <<target, seen, result>>
          /\ UNCHANGED <<row, loaded, trigger, deploying, drift, drifts, triggers, queued, evaluations, faults>>
      BY <1>2 DEF Claim, Claimable, Goto
    <2>2. target[w] \in Versions  BY <2>1 DEF IInv, Targeted
    <2>3. TypeOK'
      BY <2>1, <2>2, NoneAssumption DEF IInv, TypeOK, Working
    <2>4. Targeted' /\ SeenOlder'
      BY <2>1 DEF IInv, TypeOK, Targeted, SeenOlder
    <2>5. RowLocked'
      BY <2>1 DEF IInv, TypeOK, RowLocked, RowFree
    <2>6. DeployDecided'  BY <2>1 DEF IInv, DeployDecided
    <2>7. Undisturbed'
      BY <2>1 DEF IInv, TypeOK, Undisturbed, Drifting, Quiet, Served, Deployed
    <2> QED  BY <2>1, <2>3, <2>4, <2>5, <2>6, <2>7, RowsKept DEF IInv
  <1> QED  BY <1>1, <1>2 DEF Claim

\* From one step of its work to the next.
LEMMA WorkingStep ==
  ASSUME IInv, NEW w \in Workers, pc[w] \in Working, NEW step \in Working,
         pc' = [pc EXCEPT ![w] = step],
         UNCHANGED <<row, target, seen, trigger, deploying, drift, drifts, triggers, queued, evaluations>>,
         result' \in [Workers -> SUBSET Records], loaded' \subseteq Versions,
         faults' \subseteq FaultKinds, Undisturbed'
  PROVE  IInv'
  <1>1. TypeOK'  BY DEF IInv, TypeOK
  <1>2. Targeted' /\ SeenOlder'  BY WorkingMeans DEF IInv, TypeOK, Targeted, SeenOlder
  <1>3. RowLocked'  BY DEF IInv, TypeOK, RowLocked
  <1>4. DeployDecided'  BY DEF IInv, DeployDecided
  <1> QED  BY <1>1, <1>2, <1>3, <1>4, RowsKept DEF IInv

LEMMA LoadStep == ASSUME IInv, NEW w \in Workers, Load(w) PROVE IInv'
  <1>1. target[w] \in Versions  BY DEF IInv, Targeted, Load
  <1>2. Undisturbed'
    BY <1>1 DEF Load, Goto, IInv, TypeOK, Undisturbed, Drifting, Quiet, Served, Deployed
  <1>3. pc[w] \in Working /\ "generating" \in Working  BY DEF Load, Working
  <1>4. loaded' \subseteq Versions  BY <1>1 DEF Load, IInv, TypeOK
  <1> QED  BY <1>2, <1>3, <1>4, WorkingStep DEF Load, Goto, IInv, TypeOK

LEMMA GenerateStep ==
  ASSUME IInv, NEW w \in Workers, NEW failing \in SUBSET Records, Generate(w, failing) PROVE IInv'
  <1>1. Undisturbed'
    BY DEF Generate, Goto, IInv, TypeOK, Undisturbed, Drifting, Quiet, Served, Deployed
  <1>2. pc[w] \in Working /\ "unloading" \in Working  BY DEF Generate, Working
  <1>3. result' \in [Workers -> SUBSET Records]  BY DEF Generate, IInv, TypeOK
  <1> QED  BY <1>1, <1>2, <1>3, WorkingStep DEF Generate, Goto, IInv, TypeOK

LEMMA UnloadStep == ASSUME IInv, NEW w \in Workers, Unload(w) PROVE IInv'
  <1>1. TypeOK /\ pc[w] = "unloading" /\ pc[w] \in Working /\ "submitting" \in Working
    BY DEF IInv, Unload, Working
  <1>2. loaded' \subseteq Versions  BY <1>1 DEF Unload, TypeOK
  <1>3. CASE loaded' = loaded \ {target[w]} /\ Goto(w, "submitting") /\ UNCHANGED faults
    <2>1. \A u \in Workers : u # w /\ pc[u] \in {"generating", "unloading"} => target[u] # target[w]
      BY <1>1 DEF IInv, RowLocked, Working
    <2>2. Undisturbed'
      BY <1>1, <1>3, <2>1 DEF Unload, Goto, IInv, TypeOK, Undisturbed, Drifting, Quiet, Served, Deployed
    <2> QED  BY <1>1, <1>2, <1>3, <2>2, WorkingStep DEF Unload, Goto, TypeOK
  <1>4. CASE Fault("outage") /\ Goto(w, "submitting") /\ UNCHANGED loaded
    <2>1. faults' \subseteq FaultKinds /\ (Quiet' => Quiet)
      BY <1>1, <1>4, FaultKept DEF FaultKinds
    <2>2. Undisturbed'
      BY <1>1, <1>4, <2>1 DEF Unload, Goto, IInv, TypeOK, Undisturbed, Drifting, Served, Deployed
    <2> QED  BY <1>1, <1>2, <1>4, <2>1, <2>2, WorkingStep DEF Unload, Goto, TypeOK
  <1>5. CASE Fault("lost_answer") /\ UNCHANGED pc
    <2>1. faults' \subseteq FaultKinds /\ ~Quiet'
      BY <1>1, <1>5, FaultKept DEF FaultKinds
    <2>2. Undisturbed'  BY <2>1 DEF Undisturbed
    <2>3. pc' = [pc EXCEPT ![w] = pc[w]]  BY <1>1, <1>5 DEF TypeOK
    <2> QED  BY <1>1, <1>2, <2>1, <2>2, <2>3, WorkingStep DEF Unload, TypeOK
  <1> QED  BY <1>3, <1>4, <1>5 DEF Unload

LEMMA CrashStep == ASSUME IInv, NEW w \in Workers, Crash(w) PROVE IInv'
  <1>1. faults' \subseteq FaultKinds /\ (Quiet' => Quiet)
    BY FaultKept DEF IInv, Crash, FaultKinds
  <1> QED  BY <1>1, ForgetStep DEF Crash

-----------------------------------------------------------------------------
(* Steps that change rows.                                                 *)
\* A worker that waits or works still knows only what the row holds.
LEMMA SeenKept ==
  ASSUME IInv, Advances, UNCHANGED workers
  PROVE  SeenOlder' /\ Targeted' /\ RowLocked'
  BY DEF IInv, Advances, workers, SeenOlder, Targeted, RowLocked

LEMMA TriggerWriteStep == ASSUME IInv, TriggerWrite PROVE IInv'
  <1>1. PICK v \in Versions : v = trigger.version
    BY DEF IInv, TypeOK, TriggerWrite
  <1>2. TypeOK /\ trigger \in [version : Versions, set : Sets, read : Rows] /\ row[v] \in Rows
    BY DEF IInv, TypeOK, TriggerWrite
  <1>3. PICK set \in Sets \cup {None}, requested \in BOOLEAN :
            /\ row' = [row EXCEPT ![v] = [row[v] EXCEPT !.set = set, !.requested = requested]]
            /\ row[v].requested => requested
            /\ requested => row[v].requested \/ ~trigger.read.requested
    <2>1. trigger.read.requested \in BOOLEAN /\ row[v].requested \in BOOLEAN
          /\ row[v].set \in Sets \cup {None} /\ trigger.set \in Sets
      BY <1>2 DEF Rows
    <2> DEFINE s == IF trigger.set = trigger.read.set THEN row[v].set ELSE trigger.set
               q == row[v].requested \/ ~trigger.read.requested
    <2>2. /\ s \in Sets \cup {None} /\ q \in BOOLEAN /\ (row[v].requested => q)
          /\ q => row[v].requested \/ ~trigger.read.requested
      BY <2>1
    <2>3. row' = [row EXCEPT ![v] = [row[v] EXCEPT !.set = s, !.requested = q]]
      BY <1>1 DEF TriggerWrite
    <2> QED  BY <2>2, <2>3
  <1> DEFINE new == [row[v] EXCEPT !.set = set, !.requested = requested]
  <1>4. /\ new \in Rows /\ new.status = row[v].status /\ new.signals = row[v].signals
        /\ new.requested = requested
    BY <1>2 DEF Rows
  <1>5. row' = [row EXCEPT ![v] = new]  BY <1>3
  <1> HIDE DEF new
  <1>6. /\ row' \in [Versions -> Rows] /\ row'[v] = new
        /\ \A u \in Versions : u # v => row'[u] = row[u]
    BY <1>2, <1>4, <1>5 DEF TypeOK
  <1>7. /\ triggers' = [triggers EXCEPT ![v] = triggers[v] + 1] /\ trigger' = None
        /\ queued' = [queued EXCEPT
                          ![v] = IF row[v].requested \/ trigger.read.requested THEN queued[v]
                                 ELSE queued[v] + 1]
        /\ UNCHANGED <<loaded, pc, target, seen, result, deploying, drift, drifts, evaluations, faults>>
    BY <1>1 DEF TriggerWrite
  <1>8. \A u \in Versions : row[u].requested => row'[u].requested
    BY <1>3, <1>4, <1>6
  <1>9. TypeOK'
    BY <1>2, <1>6, <1>7, <1>8 DEF TypeOK
  <1>10. Advances  BY <1>4, <1>6 DEF Advances
  <1>11. Counted'
    <2>1. queued \in [Versions -> Nat] /\ evaluations \in [Versions -> Nat]  BY <1>2 DEF TypeOK
    <2>2. \A u \in Versions : evaluations[u] <= queued[u]
                             /\ (row[u].requested => evaluations[u] + 1 <= queued[u])
      BY DEF IInv, Counted
    <2> QED  BY <1>3, <1>4, <1>6, <1>7, <2>1, <2>2 DEF Counted
  <1>12. DeployDecided'
    BY <1>2, <1>7, <1>10 DEF IInv, DeployDecided, Advances, TypeOK
  <1>13. DecidedHasEvidence'
    BY <1>4, <1>6 DEF IInv, DecidedHasEvidence
  <1>14. Deployed' = Deployed  BY <1>4, <1>6 DEF Deployed
  <1>15. Undisturbed'
    BY <1>7, <1>14 DEF IInv, Undisturbed, Drifting, Quiet, Served
  <1> QED  BY <1>7, <1>9, <1>10, <1>11, <1>12, <1>13, <1>15, SeenKept DEF IInv, workers

\* An evaluation ends: the row gets its outcome and the request is consumed.
LEMMA ConsumeStep ==
  ASSUME IInv, NEW w \in Workers, pc[w] \in Working, NEW o \in Rows, Consume(w, o),
         row[target[w]].signals \subseteq o.signals,
         row[target[w]].status # "REGISTERED" => o.status # "REGISTERED",
         o.status # "DEPLOYED" \/ row[target[w]].status = "DEPLOYED",
         o.status # "REGISTERED" => o.signals = Signals,
         UNCHANGED <<trigger, deploying, drift, drifts, triggers, queued>>,
         loaded' \subseteq Versions, faults' \subseteq FaultKinds, Quiet' => Quiet,
         Quiet' => loaded' = loaded
  PROVE  IInv'
  <1>1. PICK v \in Versions : v = target[w]
    BY WorkingMeans DEF IInv, Targeted
  <1>2. TypeOK /\ row[v].requested /\ row[v] \in Rows  BY <1>1 DEF IInv, TypeOK
  <1> DEFINE new == [o EXCEPT !.requested = FALSE]
  <1>3. /\ new \in Rows /\ new.status = o.status /\ new.signals = o.signals /\ ~new.requested
    BY DEF Rows
  <1>4. row' = [row EXCEPT ![v] = new] /\ evaluations' = [evaluations EXCEPT ![v] = evaluations[v] + 1]
        /\ Forget(w)
    BY <1>1 DEF Consume
  <1> HIDE DEF new
  <1>5. /\ row' \in [Versions -> Rows] /\ row'[v] = new
        /\ \A u \in Versions : u # v => row'[u] = row[u]
    BY <1>2, <1>3, <1>4 DEF TypeOK
  <1>6. \A u \in Workers : u # w /\ pc[u] \in Working => target[u] # v
    BY <1>1 DEF IInv, RowLocked
  <1>7. /\ pc' \in [Workers -> {"idle", "claiming"} \cup Working]
        /\ target' \in [Workers -> Versions \cup {None}]
        /\ seen' \in [Workers -> Rows] /\ result' \in [Workers -> SUBSET Records]
        /\ pc'[w] = "idle"
        /\ \A u \in Workers : u # w => pc'[u] = pc[u] /\ target'[u] = target[u] /\ seen'[u] = seen[u]
    BY <1>2, <1>4, ForgetFacts
  <1>8. \A u \in Workers : pc'[u] \in Working => target'[u] # None /\ row'[target'[u]].requested
    <2> SUFFICES ASSUME NEW u \in Workers, pc'[u] \in Working
                 PROVE  target'[u] # None /\ row'[target'[u]].requested
      OBVIOUS
    <2>1. u # w  BY <1>7, WorkingMeans
    <2>2. pc[u] \in Working /\ target'[u] = target[u] /\ target[u] \in Versions /\ target[u] # v
      BY <1>6, <1>7, <2>1, WorkingMeans DEF IInv, Targeted
    <2>3. row[target[u]].requested  BY <1>2, <2>2 DEF TypeOK
    <2> QED  BY <1>5, <2>2, <2>3, NoneAssumption
  <1>9. TypeOK'
    <2>1. evaluations' \in [Versions -> Nat]  BY <1>2, <1>4 DEF TypeOK
    <2> QED  BY <1>2, <1>5, <1>7, <1>8, <2>1 DEF TypeOK
  <1>10. Advances
    BY <1>1, <1>3, <1>5 DEF Advances
  <1>11. Targeted' /\ RowLocked' /\ SeenOlder'
    BY <1>7, <1>10, WorkingMeans DEF IInv, Targeted, RowLocked, SeenOlder, Advances
  <1>12. Counted'
    <2>1. queued \in [Versions -> Nat] /\ evaluations \in [Versions -> Nat]  BY <1>2 DEF TypeOK
    <2>2. \A u \in Versions : evaluations[u] <= queued[u]
                             /\ (row[u].requested => evaluations[u] + 1 <= queued[u])
      BY DEF IInv, Counted
    <2> QED  BY <1>2, <1>3, <1>4, <1>5, <2>1, <2>2 DEF Counted
  <1>13. DeployDecided'
    BY <1>2, <1>10 DEF IInv, DeployDecided, Advances, TypeOK
  <1>14. DecidedHasEvidence'
    BY <1>3, <1>5 DEF IInv, DecidedHasEvidence
  <1>15. Served' \subseteq Served
    BY <1>1, <1>3, <1>5 DEF Deployed, Served
  <1>16. Undisturbed'
    <2>1. \A u \in Versions : u \in Served' => u \in Served  BY <1>15
    <2>2. \A u \in Versions : Drifting(u)' <=> Drifting(u)  BY DEF Drifting
    <2>3. \A u \in Workers : pc'[u] \in {"generating", "unloading"} =>
              /\ pc[u] \in {"generating", "unloading"} /\ target'[u] = target[u]
              /\ target[u] \in Versions
      BY <1>2, <1>7, WorkingMeans DEF IInv, Targeted
    <2>4. \A u \in Workers : pc[u] \in {"generating", "unloading"} /\ target[u] \notin Served =>
              target[u] \notin Served'
      BY <1>15
    <2> QED  BY <2>1, <2>2, <2>3, <2>4 DEF IInv, Undisturbed
  <1> QED  BY <1>9, <1>11, <1>12, <1>13, <1>14, <1>16 DEF IInv

LEMMA LoadFailsStep == ASSUME IInv, NEW w \in Workers, LoadFails(w) PROVE IInv'
  <1>1. /\ TypeOK /\ pc[w] \in Working /\ target[w] \in Versions
        /\ UNCHANGED <<trigger, deploying, drift, drifts, triggers, queued>>
    BY WorkingMeans DEF IInv, LoadFails, Working, Targeted
  <1>2. row[target[w]] \in Rows /\ Consume(w, row[target[w]])
    BY <1>1 DEF TypeOK, LoadFails, Skip
  <1>3. row[target[w]].status # "REGISTERED" => row[target[w]].signals = Signals
    BY <1>1 DEF IInv, DecidedHasEvidence
  <1>4. /\ loaded' \subseteq Versions /\ faults' \subseteq FaultKinds /\ (Quiet' => Quiet)
        /\ (Quiet' => loaded' = loaded)
    BY <1>1, LoadRefusedFacts DEF LoadFails
  <1> QED  BY <1>1, <1>2, <1>3, <1>4, ConsumeStep

\* What submit_evaluation makes of the row: signals are added, and the status
\* stays or becomes EVALUATED with all of them.
LEMMA SubmitOutcome ==
  ASSUME IInv, NEW w \in Workers, Submit(w)
  PROVE  \E o \in Rows :
             /\ Consume(w, o)
             /\ row[target[w]].signals \subseteq o.signals
             /\ o.status \in {row[target[w]].status, "EVALUATED"}
             /\ o.status # "REGISTERED" => o.signals = Signals
  <1> DEFINE v == target[w]
             new == Computed(v, seen[w].set)
             evaluated == Complete(seen[w].signals \cup new) /\ seen[w].status = "REGISTERED"
             failing == IF ChecksAnew(w, new) THEN result[w] ELSE row[v].failing
             status == IF evaluated THEN "EVALUATED" ELSE row[v].status
             o == [row[v] EXCEPT !.signals = row[v].signals \cup new, !.failing = failing, !.status = status]
  <1>1. /\ TypeOK /\ v \in Versions /\ row[v] \in Rows
        /\ seen[w].signals \subseteq row[v].signals
    BY WorkingMeans DEF IInv, Submit, Working, Targeted, TypeOK, SeenOlder
  <1>2. Consume(w, o)  BY DEF Submit
  <1>3. new \subseteq Signals  BY DEF Computed, Signals
  <1>4. failing \in SUBSET Records  BY <1>1 DEF TypeOK, Rows
  <1>5. status \in Status  BY <1>1 DEF Rows, Status
  <1>6. row[v].signals \subseteq Signals  BY <1>1 DEF Rows
  <1> HIDE DEF new, failing
  <1>7. evaluated => row[v].signals \cup new = Signals
    BY <1>1, <1>3, <1>6 DEF Complete
  <1>8. row[v].status # "REGISTERED" => row[v].signals = Signals
    BY <1>1 DEF IInv, DecidedHasEvidence
  <1> HIDE DEF status
  <1>9. o \in Rows /\ o.status = status /\ o.signals = row[v].signals \cup new
    BY <1>1, <1>3, <1>4, <1>5, <1>6 DEF Rows
  <1>10. o.status \in {row[v].status, "EVALUATED"}
    BY <1>9 DEF status
  <1>11. o.status # "REGISTERED" => o.signals = Signals
    BY <1>3, <1>7, <1>8, <1>9 DEF status
  <1> HIDE DEF o
  <1> QED  BY <1>2, <1>9, <1>10, <1>11

LEMMA SubmitStep == ASSUME IInv, NEW w \in Workers, Submit(w) PROVE IInv'
  <1>1. /\ TypeOK /\ pc[w] \in Working
        /\ UNCHANGED <<loaded, trigger, deploying, drift, drifts, triggers, queued, faults>>
    BY DEF IInv, Submit, Working
  <1>2. PICK o \in Rows : /\ Consume(w, o)
                          /\ row[target[w]].signals \subseteq o.signals
                          /\ o.status \in {row[target[w]].status, "EVALUATED"}
                          /\ o.status # "REGISTERED" => o.signals = Signals
    BY SubmitOutcome
  <1>3. loaded' \subseteq Versions /\ faults' \subseteq FaultKinds /\ (Quiet' => Quiet)
    BY <1>1 DEF TypeOK, Quiet
  <1> QED  BY <1>1, <1>2, <1>3, ConsumeStep

LEMMA DecideStep ==
  ASSUME IInv, NEW v \in Versions, NEW d \in {"PROMOTED", "REJECTED"}, Decide(v, d) PROVE IInv'
  <1>1. TypeOK /\ row[v] \in Rows /\ row[v].status = "EVALUATED"  BY DEF IInv, TypeOK, Decide
  <1> DEFINE new == [row[v] EXCEPT !.status = d]
  <1>2. /\ new \in Rows /\ new.status = d /\ new.signals = row[v].signals
        /\ new.requested = row[v].requested
    BY <1>1 DEF Rows, Status
  <1>3. row' = [row EXCEPT ![v] = new]  BY DEF Decide
  <1> HIDE DEF new
  <1>4. /\ row' \in [Versions -> Rows] /\ row'[v] = new
        /\ \A u \in Versions : u # v => row'[u] = row[u]
    BY <1>1, <1>2, <1>3 DEF TypeOK
  <1>5. UNCHANGED <<loaded, pc, target, seen, result, trigger, deploying, drift, drifts, triggers, queued,
                    evaluations, faults>>
    BY DEF Decide
  <1>6. \A u \in Versions : row'[u].requested = row[u].requested  BY <1>2, <1>4
  <1>7. TypeOK'  BY <1>1, <1>4, <1>5, <1>6 DEF TypeOK
  <1>8. Advances  BY <1>1, <1>2, <1>4 DEF Advances
  <1>9. Counted'  BY <1>5, <1>6 DEF IInv, Counted
  <1>10. DeployDecided'  BY <1>1, <1>5, <1>8 DEF IInv, DeployDecided, Advances, TypeOK
  <1>11. DecidedHasEvidence'  BY <1>1, <1>2, <1>4 DEF IInv, DecidedHasEvidence
  <1>12. Deployed' = Deployed  BY <1>1, <1>2, <1>4 DEF Deployed
  <1>13. Undisturbed'  BY <1>5, <1>12 DEF IInv, Undisturbed, Drifting, Quiet, Served
  <1> QED  BY <1>5, <1>7, <1>8, <1>9, <1>10, <1>11, <1>13, SeenKept DEF IInv, workers

\* The pointer moves: what it leaves is RETIRED and unloaded.
LEMMA DeployCommitStep == ASSUME IInv, DeployCommit PROVE IInv'
  <1>1. PICK d \in Versions : d = deploying
    BY DEF IInv, TypeOK, DeployCommit
  <1> DEFINE new(v) == IF v = d THEN [row[v] EXCEPT !.status = "DEPLOYED"]
                       ELSE IF v \in Deployed THEN [row[v] EXCEPT !.status = "RETIRED"]
                       ELSE row[v]
  <1>2. /\ TypeOK /\ d # None /\ row' = [v \in Versions |-> new(v)]
        /\ loaded' = loaded \ (Deployed \ {d}) /\ deploying' = None
        /\ UNCHANGED <<pc, target, seen, result, trigger, drift, drifts, triggers, queued, evaluations, faults>>
        /\ \A v \in Versions : row[v] \in Rows
    BY <1>1 DEF IInv, TypeOK, DeployCommit
  <1>3. \A v \in Versions : /\ new(v) \in Rows /\ new(v).signals = row[v].signals
                            /\ new(v).requested = row[v].requested
    BY <1>2 DEF Rows, Status
  <1>4. \A v \in Versions : new(v).status = IF v = d THEN "DEPLOYED"
                                            ELSE IF v \in Deployed THEN "RETIRED"
                                            ELSE row[v].status
    BY <1>2 DEF Rows
  <1>5. \A v \in Versions : row'[v] = new(v)  BY <1>2
  <1> HIDE DEF new
  <1>6. /\ row' \in [Versions -> Rows]
        /\ \A v \in Versions : row'[v].signals = row[v].signals /\ row'[v].requested = row[v].requested
    BY <1>2, <1>3, <1>5
  <1>7. TypeOK'  BY <1>2, <1>6 DEF TypeOK
  <1>8. Advances
    BY <1>4, <1>5, <1>6 DEF Advances, Deployed
  <1>9. Counted'  BY <1>2, <1>6 DEF IInv, Counted
  <1>10. DeployDecided'  BY <1>2 DEF DeployDecided
  <1>11. DecidedHasEvidence'
    BY <1>1, <1>2, <1>4, <1>5, <1>6 DEF IInv, DecidedHasEvidence, DeployDecided, Deployed
  <1>12. Deployed' = {d}
    BY <1>4, <1>5 DEF Deployed
  <1>13. Undisturbed'
    BY <1>1, <1>2, <1>12, NoneAssumption DEF IInv, Undisturbed, Drifting, Quiet, Served, TypeOK
  <1> QED  BY <1>2, <1>7, <1>8, <1>9, <1>10, <1>11, <1>13, SeenKept DEF IInv, workers

-----------------------------------------------------------------------------
LEMMA StutterStep == ASSUME IInv, UNCHANGED vars PROVE IInv'
  <1> USE DEF vars
  <1>1. TypeOK'  BY DEF IInv, TypeOK
  <1>2. Undisturbed' /\ DeployDecided'
    BY DEF IInv, Undisturbed, Drifting, DeployDecided, Quiet, Served, Deployed
  <1> QED  BY <1>1, <1>2, HostStep DEF workers

LEMMA NextIInv == IInv /\ [Next]_vars => IInv'
  <1> SUFFICES ASSUME IInv, [Next]_vars PROVE IInv'  OBVIOUS
  <1>1. CASE UNCHANGED vars  BY <1>1, StutterStep
  <1>2. ASSUME NEW w \in Workers, Work(w) \/ Crash(w) PROVE IInv'
    BY <1>2, SelectStep, ClaimStep, LoadStep, LoadFailsStep, GenerateStep, UnloadStep, SubmitStep,
       CrashStep DEF Work
  <1>3. CASE Environment
    BY <1>3, TriggerReadStep, DecideStep, DeployLoadStep, TriggerWriteStep, DeployCommitStep,
       RestartHostStep DEF Environment
  <1>4. CASE DriftCheck
    BY <1>4, DriftSelectStep, DriftSkipStep, DriftLoadStep, DriftRecordStep DEF DriftCheck
  <1> QED  BY <1>1, <1>2, <1>3, <1>4 DEF Next

LEMMA Invariance == Spec => []IInv
  BY InitIInv, NextIInv, PTL DEF Spec

\* Rows, workers and requests keep their types; a worker that evaluates holds
\* a version whose trigger nobody else has consumed (claim_pending_evaluation
\* of evaluation_worker.py).
THEOREM EvaluationTypeCorrect == Spec => []TypeOK
  <1>1. IInv => TypeOK  BY DEF IInv
  <1> QED  BY <1>1, Invariance, PTL

\* However many workers select the same version, each accepted trigger of it
\* is evaluated once at most: the second worker finds the request consumed
\* when it gets the row (evaluation_worker.py).
THEOREM TriggersEvaluatedOnce == Spec => []AtMostOncePerTrigger
  <1>1. IInv => AtMostOncePerTrigger  BY DEF IInv, Counted, AtMostOncePerTrigger
  <1> QED  BY <1>1, Invariance, PTL

\* A version leaves REGISTERED with all three signals only, although a worker
\* applies its outcome to a row that it read before the claim
\* (submit_evaluation of model_service.py).
THEOREM DecisionsHaveEvidence == Spec => []DecidedHasEvidence
  <1>1. IInv => DecidedHasEvidence  BY DEF IInv
  <1> QED  BY <1>1, Invariance, PTL

\* As long as the host keeps its adapters and answers, evaluations and drift
\* checks never unload an adapter that production or a deploy in progress
\* needs, whatever their number, without the GPU lock (evaluation_engine.py,
\* drift_check_service.py).
THEOREM ServedStaysLoaded == Spec => []EvaluationKeepsServed
  <1>1. IInv => EvaluationKeepsServed
    BY DEF IInv, Undisturbed, Drifting, Quiet, Served, EvaluationKeepsServed
  <1> QED  BY <1>1, Invariance, PTL

-----------------------------------------------------------------------------
(* Decisions.  A version that left REGISTERED was evaluated before.        *)
EvaluatedBefore ==
    \A v \in Versions : row[v].status # "REGISTERED" => evaluations[v] >= 1

LEMMA InitEvaluatedBefore == Init => EvaluatedBefore
  BY RegisteredIsRow DEF Init, EvaluatedBefore

\* The status of a version moves when its pending request is consumed, or when
\* a decision or a deploy goes on from an evaluation.
StatusKept(v) ==
    row'[v].status = row[v].status /\ evaluations'[v] \in {evaluations[v], evaluations[v] + 1}

StatusEvaluated(v) == row[v].requested /\ evaluations'[v] = evaluations[v] + 1

StatusDecided(v) ==
    /\ row[v].status # "REGISTERED" /\ row'[v].status \notin Undecided
    /\ evaluations'[v] = evaluations[v]

StatusMoves == \A v \in Versions : StatusKept(v) \/ StatusEvaluated(v) \/ StatusDecided(v)

\* An evaluation that ends moves no version but its own.
LEMMA ConsumeMoves ==
  ASSUME IInv, NEW w \in Workers, pc[w] \in Working, NEW o, Consume(w, o)
  PROVE  StatusMoves
  <1>1. target[w] \in Versions /\ row[target[w]].requested
    BY WorkingMeans DEF IInv, Targeted, TypeOK
  <1>2. /\ \A v \in Versions \ {target[w]} : row'[v] = row[v] /\ evaluations'[v] = evaluations[v]
        /\ evaluations'[target[w]] = evaluations[target[w]] + 1
    BY <1>1 DEF Consume, IInv, TypeOK
  <1> QED  BY <1>1, <1>2 DEF StatusMoves, StatusKept, StatusEvaluated

LEMMA NextMoves == ASSUME IInv, [Next]_vars PROVE StatusMoves
  <1>1. CASE UNCHANGED <<row, evaluations>>
    BY <1>1 DEF StatusMoves, StatusKept
  <1>2. ASSUME NEW w \in Workers, LoadFails(w) \/ Submit(w) PROVE StatusMoves
    <2>1. pc[w] \in Working /\ \E o : Consume(w, o)
      BY <1>2 DEF LoadFails, Skip, Submit, Working
    <2> QED  BY <2>1, ConsumeMoves
  <1>3. ASSUME NEW w \in Workers, Claim(w) PROVE StatusMoves
    BY <1>1, <1>3 DEF Claim
  <1>4. ASSUME NEW w \in Workers, Work(w) \/ Crash(w) PROVE StatusMoves
    BY <1>1, <1>2, <1>3, <1>4 DEF Work, Select, Load, Generate, Unload, Crash
  <1>5. CASE TriggerWrite
    <2>1. UNCHANGED evaluations /\ \A v \in Versions : row'[v].status = row[v].status
      BY <1>5 DEF TriggerWrite, IInv, TypeOK, Rows
    <2> QED  BY <2>1 DEF StatusMoves, StatusKept
  <1>6. ASSUME NEW v \in Versions, NEW d \in {"PROMOTED", "REJECTED"}, Decide(v, d)
        PROVE  StatusMoves
    <2>1. /\ UNCHANGED evaluations /\ row[v].status = "EVALUATED" /\ row'[v].status = d
          /\ \A u \in Versions \ {v} : row'[u] = row[u]
      BY <1>6 DEF Decide, IInv, TypeOK, Rows
    <2> QED  BY <2>1 DEF StatusMoves, StatusKept, StatusDecided, Undecided
  <1>7. CASE DeployCommit
    <2>1. /\ deploying \in Versions /\ row[deploying].status # "REGISTERED"
          /\ UNCHANGED evaluations
      BY <1>7 DEF DeployCommit, IInv, TypeOK, DeployDecided
    <2>2. \A v \in Versions : row[v] \in Rows  BY DEF IInv, TypeOK
    <2>3. row'[deploying].status = "DEPLOYED"
      BY <1>7, <2>1, <2>2 DEF DeployCommit, Rows
    <2>4. \A v \in Deployed \ {deploying} : row'[v].status = "RETIRED"
      BY <1>7, <2>2 DEF DeployCommit, Deployed, Rows
    <2>5. \A v \in Versions \ (Deployed \cup {deploying}) : row'[v] = row[v]
      BY <1>7 DEF DeployCommit
    <2>6. \A v \in Deployed : row[v].status = "DEPLOYED"  BY DEF Deployed
    <2> QED
      BY <2>1, <2>3, <2>4, <2>5, <2>6 DEF StatusMoves, StatusKept, StatusDecided, Undecided
  <1>8. CASE Environment \/ DriftCheck
    BY <1>1, <1>5, <1>6, <1>7, <1>8
       DEF Environment, DriftCheck, TriggerRead, DeployLoad, RestartHost, DriftSelect, DriftSkip,
           DriftLoad, DriftRecord
  <1> QED  BY <1>1, <1>4, <1>8 DEF Next, vars

LEMMA NextEvaluatedBefore == IInv /\ EvaluatedBefore /\ [Next]_vars => EvaluatedBefore'
  <1> SUFFICES ASSUME IInv, EvaluatedBefore, [Next]_vars PROVE EvaluatedBefore'  OBVIOUS
  <1>1. StatusMoves /\ \A v \in Versions : evaluations[v] \in Nat
    BY NextMoves DEF IInv, TypeOK
  <1> QED
    BY <1>1 DEF EvaluatedBefore, StatusMoves, StatusKept, StatusEvaluated, StatusDecided

\* A version that was decided after its only trigger has no request left that
\* a worker could consume, so nobody writes EVALUATED over the decision, even
\* a worker that read REGISTERED long ago (submit_evaluation of
\* model_service.py).
THEOREM DecisionsAreKept == Spec => DecisionsStand
  <1>1. ASSUME IInv, EvaluatedBefore, [Next]_vars, NEW v \in Versions, queued[v] <= 1,
               row[v].status \notin Undecided
        PROVE  row'[v].status \notin Undecided
    <2>1. StatusKept(v) \/ StatusEvaluated(v) \/ StatusDecided(v)
      BY <1>1, NextMoves DEF StatusMoves
    <2>2. evaluations[v] \in Nat /\ queued[v] \in Nat /\ evaluations[v] >= 1
      BY <1>1 DEF IInv, TypeOK, EvaluatedBefore, Undecided
    <2>3. ~row[v].requested
      BY <1>1, <2>2 DEF IInv, Counted
    <2> QED  BY <1>1, <2>1, <2>3 DEF StatusKept, StatusEvaluated, StatusDecided
  <1>2. Spec => []EvaluatedBefore
    BY Invariance, InitEvaluatedBefore, NextEvaluatedBefore, PTL DEF Spec
  <1>3. IInv /\ EvaluatedBefore /\ [Next]_vars =>
            [\A v \in Versions : queued[v] <= 1 /\ row[v].status \notin Undecided =>
                 row'[v].status \notin Undecided]_vars
    BY <1>1
  <1> QED  BY Invariance, <1>2, <1>3, PTL DEF Spec, DecisionsStand
=============================================================================
