----------------------------- MODULE MCTraining -----------------------------
(* Five flows of one host; each behaviour keeps to one of them.            *)
(*   entry:     TrainingQueue with the workers that the container starts   *)
(*              (python -m app.workers.training_worker), with every fault. *)
(*   streaming: TrainingQueue with the runner that commits on every        *)
(*              progress line (run_forever(UnslothTrainingRunner())), with *)
(*              slow heartbeats only; liveness is checked here,            *)
(*   takeover:  and here, where a worker of this kind is killed.           *)
(*   artifacts: Artifacts.                                                 *)
(*   handoff:   GpuHandoff, with every fault but a SIGTERM that finds a    *)
(*              training subprocess; liveness again.                       *)
(* Only who works and what may fail is restricted, never how it goes on.   *)
EXTENDS TrainingQueue, Artifacts, GpuHandoff, TLC

CONSTANTS w1, w2, s1, s2, t1, t2, t3

VARIABLE flow

EntryWorkers == {w1, w2}
StreamingWorkers == {s1, s2}
MCWorkers == EntryWorkers \cup StreamingWorkers
MCRunnerOf == [w \in MCWorkers |-> IF w \in EntryWorkers THEN "provider" ELSE "streaming"]
MCPriorities == {1, 2}

MCTrainings == {t1, t2, t3}
MCBaseOf == (t1 :> "qwen") @@ (t2 :> "qwen") @@ (t3 :> "llama")
MCProduces == [t \in MCTrainings |-> IF t = t2 THEN {"adapter"} ELSE {"adapter", "checkpoint"}]

MCTrainers == EntryWorkers

\* SIGTERM finds no training subprocess.
CalmFaults == HandoffFaultKinds \ {"interrupt"}

FlowInit ==
    /\ Init /\ ArtifactsInit /\ HandoffInit
    /\ flow \in {"entry", "streaming", "takeover", "artifacts", "handoff"}
    /\ flow # "handoff" => control = "shell"

allVars == <<vars, artifactVars, handoffVars, flow>>

Streaming == flow \in {"streaming", "takeover"}

Asleep(w) == pc'[w] = "idle"

(* Nobody is killed, heartbeats may be late.                               *)
Slow ==
    /\ crashes' = 0
    /\ \A r \in Runs : request'[r].priority = 1

(* s1 may be killed after its first progress; heartbeats are in time.  The  *)
(* younger run has the higher priority, so that the worker whose detector  *)
(* flips the lost run goes on to train another one.                        *)
TakenOver ==
    /\ crashes' # crashes =>
          pc[s1] = "running" /\ status[job[s1]] = "RUNNING" /\ pc'[s1] = "down"
    /\ \A r \in Runs : Beating(r) => lapsed'[r] = lapsed[r]
    /\ \A r \in Runs : request'[r].route = "local"
    /\ created' # created => request'[created'].priority = created'

Admitted ==
    \/ flow = "entry" /\ \A w \in StreamingWorkers : Asleep(w)
    \/ /\ Streaming
       /\ \A w \in EntryWorkers : Asleep(w)
       /\ \A w \in StreamingWorkers : pc[w] = "preflight" => pc'[w] # "committing"
       /\ IF flow = "streaming" THEN Slow ELSE TakenOver

(* The requests of this flow are used up: only then may it stop.           *)
HandoffOver ==
    /\ issued + 2 > MaxRequests
    /\ \A w \in Trainers : at[w] = "idle"
    /\ host = "idle" /\ handled = issued
    /\ UNCHANGED handoffVars

FlowNext ==
    /\ UNCHANGED flow
    /\ \/ Next /\ Admitted /\ UNCHANGED <<artifactVars, handoffVars>>
       \/ flow = "artifacts" /\ ArtifactsNext /\ UNCHANGED <<vars, handoffVars>>
       \/ /\ flow = "handoff" /\ (HandoffNext \/ HandoffOver)
          /\ UNCHANGED <<vars, artifactVars>>

(* The fairness of TrainingQueue, for the workers of the streaming flows,  *)
(* and that of GpuHandoff.                                                 *)
FlowFairness ==
    /\ \A w \in StreamingWorkers :
           WF_vars(Streaming /\ Work(w)) /\ WF_vars(Streaming /\ TrainingEnds(w))
    /\ \A r \in Runs : WF_vars(Streaming /\ HeartbeatLapses(r))
    /\ HandoffFairness

FlowSpec == FlowInit /\ [][FlowNext]_allVars /\ FlowFairness

(* ImplementsTrainingLedger for the entry flow: with the runner of the     *)
(* other one a worker that waited for the GPU lock turns a run that        *)
(* completed meanwhile into a failed one.                                  *)
EntryLedger == INSTANCE TrainingLedger WITH
    outcome <- IF flow = "entry" THEN Outcome ELSE [r \in Runs |-> "open"],
    versions <- IF flow = "entry" THEN versions ELSE {}

EntryImplementsLedger == EntryLedger!Spec

(* EveryRunEnds, which a run with a compute resource breaks for the        *)
(* workers of the entry flow.                                              *)
StreamingRunsEnd ==
    \A r \in Runs : Streaming /\ Exists(r) ~> status[r] \in {"COMPLETED", "FAILED"}
=============================================================================
