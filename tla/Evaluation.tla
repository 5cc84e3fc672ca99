----------------------------- MODULE Evaluation -----------------------------
(***************************************************************************)
(* The evaluation of registered versions: app/workers/evaluation_worker.py *)
(* and drift_check_worker.py, app/services/evaluation_engine.py and        *)
(* drift_check_service.py, submit_evaluation and trigger_evaluation of     *)
(* model_service.py and the trigger endpoint of app/api/models.py.         *)
(*                                                                         *)
(* A worker claims a version with one conditional UPDATE that it commits   *)
(* only with the outcome: it keeps the row locked while it loads the       *)
(* adapter, generates and unloads.  It applies the outcome to the object   *)
(* that it read before the claim.  Neither the evaluation nor the drift    *)
(* check takes the GPU lock that deploys hold.                             *)
(***************************************************************************)
EXTENDS Naturals, FiniteSets

CONSTANTS
    Versions,     \* ids of model versions, in the order of their creation
    Workers,      \* the evaluation worker processes
    EvalSets,     \* the stored versions of evaluation sets
    RecordsOf,    \* the records of each of them
    HasLoss,      \* versions whose training run recorded an eval_loss
    MaxTriggers,  \* bound: how many evaluations of each version are triggered
    MaxFaults,    \* bound: how many kinds of faults happen, each one once
    None

\* outage: the host cannot be reached; restart: it loses its adapters;
\* lost_answer: a call is carried out and its answer lost; crash: a worker is
\* killed.
FaultKinds == {"outage", "restart", "lost_answer", "crash"}

\* What a trigger may name: a stored version or one that does not exist.
Sets == EvalSets \cup {"unknown"}
Records == UNION {RecordsOf[e] : e \in EvalSets}

ASSUME VersionsAssumption == Versions \subseteq Nat /\ HasLoss \subseteq Versions
ASSUME SetsAssumption == None \notin Sets /\ IsFiniteSet(EvalSets)
ASSUME NoneAssumption == None \notin Versions /\ None \notin Workers
ASSUME BoundsAssumption == MaxTriggers \in [Versions -> Nat] /\ MaxFaults \in Nat

Status == {"REGISTERED", "EVALUATED", "PROMOTED", "REJECTED", "DEPLOYED", "RETIRED"}
Signals == {"eval_loss_trend", "qualitative_comparison",
            "general_domain_regression_check"}

\* failing: regressions_found.
Rows == [status : Status, requested : BOOLEAN, set : Sets \cup {None},
         signals : SUBSET Signals, failing : SUBSET Records]

VARIABLES
    row,          \* the committed rows of model_versions
    loaded,       \* the adapters resident in the vLLM server
    pc,           \* where each worker is
    target,       \* the version that each worker selected
    seen,         \* its row as the worker read it
    result,       \* the records that failed in the evaluation of the worker
    trigger,      \* the trigger request that runs: version, set and row it read
    deploying,    \* the version that a deploy loaded and has not committed
    drift,        \* the drift check: version, row it read, whether it loaded it
    drifts,       \* the drift checks: version and whether it regressed
    triggers,     \* how many triggers of each version were accepted
    queued,       \* how many of them queued an evaluation
    evaluations,  \* how many claims of each version were committed
    faults        \* the kinds of faults that happened

vars == <<row, loaded, pc, target, seen, result, trigger, deploying, drift,
          drifts, triggers, queued, evaluations, faults>>

Registered == [status |-> "REGISTERED", requested |-> FALSE, set |-> None,
               signals |-> {}, failing |-> {}]

Working == {"loading", "generating", "unloading", "submitting"}

TypeOK ==
    /\ row \in [Versions -> Rows]
    /\ loaded \subseteq Versions
    /\ pc \in [Workers -> {"idle", "claiming"} \cup Working]
    /\ target \in [Workers -> Versions \cup {None}]
    /\ \A w \in Workers : pc[w] \in Working =>
           target[w] # None /\ row[target[w]].requested
    /\ seen \in [Workers -> Rows]
    /\ result \in [Workers -> SUBSET Records]
    /\ trigger \in [version : Versions, set : Sets, read : Rows] \cup {None}
    /\ deploying \in Versions \cup {None}
    /\ drift \in [version : Versions, read : Rows, loaded : BOOLEAN] \cup {None}
    /\ drifts \subseteq [version : Versions, regressed : BOOLEAN]
    /\ triggers \in [Versions -> Nat]
    /\ queued \in [Versions -> Nat]
    /\ evaluations \in [Versions -> Nat]
    /\ faults \subseteq FaultKinds

Init ==
    /\ row = [v \in Versions |-> Registered]
    /\ loaded = {}
    /\ pc = [w \in Workers |-> "idle"]
    /\ target = [w \in Workers |-> None]
    /\ seen = [w \in Workers |-> Registered]
    /\ result = [w \in Workers |-> {}]
    /\ trigger = None
    /\ deploying = None
    /\ drift = None
    /\ drifts = {}
    /\ triggers = [v \in Versions |-> 0]
    /\ queued = [v \in Versions |-> 0]
    /\ evaluations = [v \in Versions |-> 0]
    /\ faults = {}

-----------------------------------------------------------------------------
\* No worker has the row of v locked.
RowFree(v) == \A w \in Workers : pc[w] \in Working => target[w] # v

Fault(kind) ==
    /\ kind \notin faults
    /\ Cardinality(faults) < MaxFaults
    /\ faults' = faults \cup {kind}

Goto(w, step) == pc' = [pc EXCEPT ![w] = step]

\* The iteration of the worker ends: its session is closed.
Forget(w) ==
    /\ Goto(w, "idle")
    /\ target' = [target EXCEPT ![w] = None]
    /\ seen' = [seen EXCEPT ![w] = Registered]
    /\ result' = [result EXCEPT ![w] = {}]

Deployed == {v \in Versions : row[v].status = "DEPLOYED"}

-----------------------------------------------------------------------------
(* POST .../evaluation reads the version, which must not be decided yet,   *)
(* and takes its evaluation set from the request or from the version.      *)
TriggerRead(v, e) ==
    /\ trigger = None
    /\ triggers[v] < MaxTriggers[v]
    /\ row[v].status \in {"REGISTERED", "EVALUATED"}
    /\ trigger' = [version |-> v, set |-> e, read |-> row[v]]
    /\ UNCHANGED <<row, loaded, pc, target, seen, result, deploying, drift,
                   drifts, triggers, queued, evaluations, faults>>

(* Only the columns that differ from the row it read are written, after a  *)
(* worker that holds the row has committed.  A trigger that read a pending *)
(* request queues nothing, even when it is no longer pending.              *)
TriggerWrite ==
    LET v == trigger.version IN
    /\ trigger # None
    /\ trigger.set # trigger.read.set \/ ~trigger.read.requested => RowFree(v)
    /\ row' = [row EXCEPT
                   ![v].set = IF trigger.set = trigger.read.set THEN @ ELSE trigger.set,
                   ![v].requested = @ \/ ~trigger.read.requested]
    /\ triggers' = [triggers EXCEPT ![v] = @ + 1]
    /\ queued' = [queued EXCEPT
                      ![v] = IF row[v].requested \/ trigger.read.requested THEN @ ELSE @ + 1]
    /\ trigger' = None
    /\ UNCHANGED <<loaded, pc, target, seen, result, deploying, drift, drifts,
                   evaluations, faults>>

-----------------------------------------------------------------------------
(* The oldest version with evaluation_requested.                           *)
Select(w, v) ==
    /\ pc[w] = "idle"
    /\ row[v].requested
    /\ \A u \in Versions : row[u].requested => v <= u
    /\ target' = [target EXCEPT ![w] = v]
    /\ seen' = [seen EXCEPT ![w] = row[v]]
    /\ Goto(w, "claiming")
    /\ UNCHANGED <<row, loaded, result, trigger, deploying, drift, drifts,
                   triggers, queued, evaluations, faults>>

\* Mutant of Claimable: the UPDATE has no condition.
ClaimableAlways(v) == TRUE

Claimable(v) == row[v].requested

\* Mutant of Claim: the row is not locked while the version is evaluated.
ClaimUnlocked(w) ==
    /\ pc[w] = "claiming"
    /\ \/ /\ Claimable(target[w])
          /\ Goto(w, "loading")
          /\ UNCHANGED <<target, seen, result>>
       \/ /\ ~Claimable(target[w])
          /\ Forget(w)
    /\ UNCHANGED <<row, loaded, trigger, deploying, drift, drifts, triggers, queued,
                   evaluations, faults>>

(* UPDATE ... WHERE evaluation_requested, after the lock of another worker *)
(* was released.                                                           *)
Claim(w) ==
    /\ pc[w] = "claiming"
    /\ RowFree(target[w])
    /\ \/ /\ Claimable(target[w])
          /\ Goto(w, "loading")
          /\ UNCHANGED <<target, seen, result>>
       \/ /\ ~Claimable(target[w])
          /\ Forget(w)
    /\ UNCHANGED <<row, loaded, trigger, deploying, drift, drifts, triggers, queued,
                   evaluations, faults>>

\* The claim is committed, whether or not the evaluation was computed.
Consume(w, outcome) ==
    /\ row' = [row EXCEPT ![target[w]] = [outcome EXCEPT !.requested = FALSE]]
    /\ evaluations' = [evaluations EXCEPT ![target[w]] = @ + 1]
    /\ Forget(w)

\* Mutant of Skip: the exception rolls the claim back.
SkipRollsBack(w) == Forget(w) /\ UNCHANGED <<row, evaluations>>

\* ValueError: the version stays as it is, without a pending request.
Skip(w) == Consume(w, row[target[w]])

(* The evaluation set must exist; vLLM refuses an adapter that is resident *)
(* or the host cannot be reached.                                          *)
LoadRefused(v, e) ==
    \/ /\ e \notin EvalSets \/ v \in loaded
       /\ UNCHANGED <<loaded, faults>>
    \/ /\ e \in EvalSets
       /\ Fault("outage")
       /\ UNCHANGED loaded
    \/ /\ e \in EvalSets
       /\ Fault("lost_answer")
       /\ loaded' = loaded \cup {v}

LoadFails(w) ==
    /\ pc[w] = "loading"
    /\ LoadRefused(target[w], seen[w].set)
    /\ Skip(w)
    /\ UNCHANGED <<trigger, deploying, drift, drifts, triggers, queued>>

\* Mutant of Load: an adapter that is resident already is taken as loaded.
LoadResident(w) ==
    /\ pc[w] = "loading"
    /\ seen[w].set \in EvalSets
    /\ loaded' = loaded \cup {target[w]}
    /\ Goto(w, "generating")
    /\ UNCHANGED <<row, target, seen, result, trigger, deploying, drift,
                   drifts, triggers, queued, evaluations, faults>>

Load(w) ==
    /\ pc[w] = "loading"
    /\ seen[w].set \in EvalSets
    /\ target[w] \notin loaded
    /\ loaded' = loaded \cup {target[w]}
    /\ Goto(w, "generating")
    /\ UNCHANGED <<row, target, seen, result, trigger, deploying, drift,
                   drifts, triggers, queued, evaluations, faults>>

(* A record fails when no text is generated for it: all of them without    *)
(* the adapter.                                                            *)
Generate(w, failing) ==
    /\ pc[w] = "generating"
    /\ failing \subseteq RecordsOf[seen[w].set]
    /\ target[w] \notin loaded => failing = RecordsOf[seen[w].set]
    /\ result' = [result EXCEPT ![w] = failing]
    /\ Goto(w, "unloading")
    /\ UNCHANGED <<row, loaded, target, seen, trigger, deploying, drift,
                   drifts, triggers, queued, evaluations, faults>>

(* unload never raises: it gives up on a host that it cannot reach, and    *)
(* sends the call again when its answer is lost.                           *)
Unload(w) ==
    /\ pc[w] = "unloading"
    /\ \/ /\ loaded' = loaded \ {target[w]}
          /\ Goto(w, "submitting")
          /\ UNCHANGED faults
       \/ /\ Fault("outage")
          /\ Goto(w, "submitting")
          /\ UNCHANGED loaded
       \/ /\ Fault("lost_answer")
          /\ loaded' = loaded \ {target[w]}
          /\ UNCHANGED pc
    /\ UNCHANGED <<row, target, seen, result, trigger, deploying, drift,
                   drifts, triggers, queued, evaluations>>

\* The signals that an evaluation computes: two need a record, one the loss
\* of the training.
Computed(v, e) ==
    (IF RecordsOf[e] = {} THEN {}
     ELSE {"qualitative_comparison", "general_domain_regression_check"})
    \cup (IF v \in HasLoss THEN {"eval_loss_trend"} ELSE {})

\* Mutant of Complete: the loss of the training is not asked for.
CompleteWithoutTrend(signals) ==
    {"qualitative_comparison", "general_domain_regression_check"} \subseteq signals

Complete(signals) == signals = Signals

\* The check is written when the worker did not read the same one.
ChecksAnew(w, new) ==
    /\ "general_domain_regression_check" \in new
    /\ \/ "general_domain_regression_check" \notin seen[w].signals
       \/ seen[w].failing # result[w]

(* submit_evaluation merges the signals into the version and moves one     *)
(* that was REGISTERED when it was selected on to EVALUATED.               *)
Submit(w) ==
    LET v == target[w]
        new == Computed(v, seen[w].set)
        evaluated == /\ Complete(seen[w].signals \cup new)
                     /\ seen[w].status = "REGISTERED" IN
    /\ pc[w] = "submitting"
    /\ Consume(w, [row[v] EXCEPT
           !.signals = @ \cup new,
           !.failing = IF ChecksAnew(w, new) THEN result[w] ELSE @,
           !.status = IF evaluated THEN "EVALUATED" ELSE @])
    /\ UNCHANGED <<loaded, trigger, deploying, drift, drifts, triggers, queued, faults>>

(* The process is killed: its transaction is rolled back, its adapter      *)
(* stays.                                                                  *)
Crash(w) ==
    /\ pc[w] # "idle"
    /\ Fault("crash")
    /\ Forget(w)
    /\ UNCHANGED <<row, loaded, trigger, deploying, drift, drifts, triggers, queued,
                   evaluations>>

-----------------------------------------------------------------------------
(* An administrator promotes or rejects an evaluated version.              *)
Decide(v, decision) ==
    /\ row[v].status = "EVALUATED"
    /\ RowFree(v)
    /\ row' = [row EXCEPT ![v].status = decision]
    /\ UNCHANGED <<loaded, pc, target, seen, result, trigger, deploying, drift,
                   drifts, triggers, queued, evaluations, faults>>

(* A deploy or a rollback loads the adapter, which fails when it is        *)
(* resident ...                                                            *)
DeployLoad(v) ==
    /\ deploying = None
    /\ row[v].status \in {"PROMOTED", "RETIRED"}
    /\ v \notin loaded
    /\ loaded' = loaded \cup {v}
    /\ deploying' = v
    /\ UNCHANGED <<row, pc, target, seen, result, trigger, drift, drifts,
                   triggers, queued, evaluations, faults>>

(* ... then unloads what it supersedes and moves the pointer, once nobody  *)
(* holds the rows.                                                         *)
DeployCommit ==
    /\ deploying # None
    /\ \A v \in Deployed \cup {deploying} : RowFree(v)
    /\ row' = [v \in Versions |->
                   IF v = deploying THEN [row[v] EXCEPT !.status = "DEPLOYED"]
                   ELSE IF v \in Deployed THEN [row[v] EXCEPT !.status = "RETIRED"]
                   ELSE row[v]]
    /\ loaded' = loaded \ (Deployed \ {deploying})
    /\ deploying' = None
    /\ UNCHANGED <<pc, target, seen, result, trigger, drift, drifts, triggers, queued,
                   evaluations, faults>>

-----------------------------------------------------------------------------
(* The drift check selects the DEPLOYED version ...                        *)
DriftSelect(v) ==
    /\ drift = None
    /\ v \in Deployed
    /\ drift' = [version |-> v, read |-> row[v], loaded |-> FALSE]
    /\ UNCHANGED <<row, loaded, pc, target, seen, result, trigger, deploying,
                   drifts, triggers, queued, evaluations, faults>>

(* ... and gives it up when vLLM refuses its adapter, which is resident    *)
(* unless the host lost it or the version was retired meanwhile ...        *)
DriftSkip ==
    /\ drift # None
    /\ ~drift.loaded
    /\ LoadRefused(drift.version, drift.read.set)
    /\ drift' = None
    /\ UNCHANGED <<row, pc, target, seen, result, trigger, deploying, drifts,
                   triggers, queued, evaluations>>

(* ... and evaluates it otherwise.                                         *)
DriftLoad ==
    /\ drift # None
    /\ ~drift.loaded
    /\ drift.read.set \in EvalSets
    /\ drift.version \notin loaded
    /\ loaded' = loaded \cup {drift.version}
    /\ drift' = [drift EXCEPT !.loaded = TRUE]
    /\ UNCHANGED <<row, pc, target, seen, result, trigger, deploying, drifts,
                   triggers, queued, evaluations, faults>>

(* A record that fails now and is not in the stored evaluation is a new    *)
(* regression; the adapter is unloaded in any case, from a host that       *)
(* answers.                                                                *)
DriftRecord(failing) ==
    /\ drift # None
    /\ drift.loaded
    /\ failing \subseteq RecordsOf[drift.read.set]
    /\ drift.version \notin loaded => failing = RecordsOf[drift.read.set]
    /\ drifts' = drifts \cup
           {[version |-> drift.version,
             regressed |-> ~(failing \subseteq drift.read.failing)]}
    /\ \/ loaded' = loaded \ {drift.version} /\ UNCHANGED faults
       \/ Fault("outage") /\ UNCHANGED loaded
    /\ drift' = None
    /\ UNCHANGED <<row, pc, target, seen, result, trigger, deploying, triggers,
                   queued, evaluations>>

(* The host restarts and has no adapter left.                              *)
RestartHost ==
    /\ Fault("restart")
    /\ loaded' = {}
    /\ UNCHANGED <<row, pc, target, seen, result, trigger, deploying, drift,
                   drifts, triggers, queued, evaluations>>

-----------------------------------------------------------------------------
Work(w) ==
    \/ \E v \in Versions : Select(w, v)
    \/ Claim(w)
    \/ Load(w) \/ LoadFails(w)
    \/ \E failing \in SUBSET Records : Generate(w, failing)
    \/ Unload(w)
    \/ Submit(w)

Environment ==
    \/ \E v \in Versions : \/ \E e \in Sets : TriggerRead(v, e)
                           \/ \E d \in {"PROMOTED", "REJECTED"} : Decide(v, d)
                           \/ DeployLoad(v)
    \/ TriggerWrite
    \/ DeployCommit
    \/ RestartHost

DriftCheck ==
    \/ \E v \in Versions : DriftSelect(v)
    \/ DriftSkip
    \/ DriftLoad
    \/ \E failing \in SUBSET Records : DriftRecord(failing)

Next ==
    \/ \E w \in Workers : Work(w) \/ Crash(w)
    \/ Environment
    \/ DriftCheck

Spec == Init /\ [][Next]_vars

\* run_forever polls for ever; what an endpoint started ends.
FairSpec == /\ Spec
            /\ \A w \in Workers : WF_vars(Work(w))
            /\ WF_vars(TriggerWrite) /\ WF_vars(DeployCommit)

-----------------------------------------------------------------------------
(* Workers together commit at most one evaluation for each request that a  *)
(* trigger queued, although several of them select the same version and    *)
(* wait for its row while the first one evaluates it, and although other   *)
(* triggers are accepted meanwhile.                                        *)
AtMostOncePerTrigger == \A v \in Versions : evaluations[v] <= queued[v]

(* A version that left REGISTERED has all three signals: a merge of        *)
(* partial evaluations, or a worker that applies what it read long ago,    *)
(* never opens the way to a decision without evidence.                     *)
DecidedHasEvidence ==
    \A v \in Versions : row[v].status # "REGISTERED" => row[v].signals = Signals

(* A decision stands: no evaluation takes a version back from it, and no   *)
(* deploy either, although a worker compares the status that it read when  *)
(* it selected the version (submit_evaluation).  It takes a second queued  *)
(* evaluation to open the way to a worker that selected it long ago.       *)
Undecided == {"REGISTERED", "EVALUATED"}

DecisionsStand ==
    [][\A v \in Versions :
           queued[v] <= 1 /\ row[v].status \notin Undecided =>
               row'[v].status \notin Undecided]_vars

(* The adapter of a version in production, or of a deploy in progress, is  *)
(* never unloaded by an evaluation or a drift check, which do not take the *)
(* GPU lock, as long as the host keeps what it loaded and answers every    *)
(* call that it carries out.                                               *)
EvaluationKeepsServed ==
    {"restart", "lost_answer"} \cap faults = {} =>
        \A v \in Versions : v \in Deployed \cup {deploying} => v \in loaded

(* Every trigger that queues an evaluation gets one of its own: the n-th   *)
(* of a version is followed by the end of its n-th evaluation, and a       *)
(* version that cannot be evaluated does not keep the others waiting.  A   *)
(* trigger that read a pending request queues none, and no evaluation is   *)
(* promised to it: the worker may have ended before the trigger is         *)
(* answered, and what it evaluated may be another set (trigger_evaluation).*)
QueuedAreEvaluated ==
    \A v \in Versions : \A n \in 1..MaxTriggers[v] :
        queued[v] >= n ~> evaluations[v] >= n
=============================================================================
