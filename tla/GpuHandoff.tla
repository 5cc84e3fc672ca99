----------------------------- MODULE GpuHandoff -----------------------------
(***************************************************************************)
(* The GPU is passed between the serving process (vLLM) and one training   *)
(* subprocess: serving_cycle of app/workers/gpu_orchestrator.py around the *)
(* subprocess of app/providers/training_provider.py, inside gpu_lock.      *)
(*                                                                         *)
(* With SERVING_CONTROL=file_signal a worker writes request.json, a single *)
(* slot, and polls response.json, another one, which the controller on the *)
(* host writes.  With SERVING_CONTROL=shell it runs the commands itself.   *)
(* The worker is the first process of its container: when it ends, its     *)
(* training subprocess ends too.                                           *)
(***************************************************************************)
EXTENDS Integers, FiniteSets

CONSTANTS
    Trainers,
    Controls,      \* the settings SERVING_CONTROL to consider
    MaxRequests,   \* bound: how many requests the workers write
    MaxMishaps,    \* bound: how many kills and failed restarts of serving
    HandoffFaults,        \* which faults may happen, a subset of FaultKinds
    Nobody

AllControls == {"file_signal", "shell"}

\* An answer comes after the deadline; serving cannot be stopped; the VRAM is
\* not free; a worker is killed or serving not started; SIGTERM arrives while
\* no training subprocess lives, or while one does.
HandoffFaultKinds == {"late", "stop", "vram", "mishap", "sigterm", "interrupt"}

ASSUME TrainersAssumption == Nobody \notin Trainers
ASSUME ControlsAssumption == Controls \subseteq AllControls
ASSUME LimitsAssumption == MaxRequests \in Nat /\ MaxMishaps \in Nat
ASSUME FaultsAssumption == HandoffFaults \subseteq HandoffFaultKinds

VARIABLES
    control,   \* the setting SERVING_CONTROL, the same during a behaviour
    lock,      \* the worker that holds the flock of gpu_lock_file, or Nobody
    at,        \* where each worker is
    waiting,   \* the request whose answer each worker waits for
    cached,    \* _last_vram_free_mb of each worker is above the threshold
    closing,   \* a ServingInterrupted unwinds the worker: it ends afterwards
    children,  \* the workers whose training subprocess is alive
    requestFile,   \* request.json
    responseFile,  \* response.json
    issued,    \* how many requests were written: the last one is the newest
    host,      \* what the controller on the host does
    handled,   \* the last request that it took
    serving,   \* vLLM holds the GPU
    mishaps    \* kills and failed restarts so far

worker == <<lock, at, waiting, cached, closing, children>>
files == <<requestFile, responseFile, issued>>
machine == <<host, handled, serving>>
handoffVars == <<control, worker, files, machine, mishaps>>

CycleSteps == {"idle", "entering", "stopping", "checking", "training", "restarting",
          "starting", "leaving", "down"}

Actions == {"none", "stop_serving", "start_serving"}

\* The phases of a response: two intermediate ones, then a terminal one.
Phases == {"none", "stopping", "starting", "vram_checked", "healthy", "error"}

HandoffTypeOK ==
    /\ control \in Controls
    /\ lock \in Trainers \cup {Nobody}
    /\ at \in [Trainers -> CycleSteps]
    /\ waiting \in [Trainers -> 0..MaxRequests]
    /\ cached \in [Trainers -> BOOLEAN]
    /\ closing \in [Trainers -> BOOLEAN]
    /\ children \subseteq Trainers
    /\ requestFile \in [id : 0..MaxRequests, action : Actions]
    /\ responseFile \in [id : 0..MaxRequests, phase : Phases, free : BOOLEAN]
    /\ issued \in 0..MaxRequests
    /\ host \in {"idle", "stopping", "starting"}
    /\ handled \in 0..MaxRequests
    /\ serving \in BOOLEAN
    /\ mishaps \in 0..MaxMishaps

HandoffInit ==
    /\ control \in Controls
    /\ lock = Nobody
    /\ at = [w \in Trainers |-> "idle"]
    /\ waiting = [w \in Trainers |-> 0]
    /\ cached = [w \in Trainers |-> FALSE]
    /\ closing = [w \in Trainers |-> FALSE]
    /\ children = {}
    /\ requestFile = [id |-> 0, action |-> "none"]
    /\ responseFile = [id |-> 0, phase |-> "none", free |-> FALSE]
    /\ issued = 0
    /\ host = "idle" /\ handled = 0
    /\ serving = TRUE
    /\ mishaps = 0

-----------------------------------------------------------------------------
GoOn(w, step) == at' = [at EXCEPT ![w] = step]

Signals == control = "file_signal"

Fault(kind) == kind \in HandoffFaults

Mishap == Fault("mishap") /\ mishaps < MaxMishaps /\ mishaps' = mishaps + 1

(* A worker has a run to execute.  Two requests are left for its cycle.    *)
Acquire(w) ==
    /\ at[w] = "idle"
    /\ lock = Nobody
    /\ issued + 2 <= MaxRequests
    /\ lock' = w
    /\ GoOn(w, "entering")
    /\ UNCHANGED <<control, waiting, cached, closing, children, files, machine, mishaps>>

(* request.json is replaced, whether or not anybody has read the old one.  *)
WriteRequest(w, action) ==
    /\ requestFile' = [id |-> issued + 1, action |-> action]
    /\ issued' = issued + 1
    /\ waiting' = [waiting EXCEPT ![w] = issued + 1]
    /\ UNCHANGED responseFile

\* Mutant: the answer to any request will do.
AnsweredByAny(w, phase) == responseFile.phase = phase

(* _poll_response: the intermediate phases and other requests are skipped. *)
Answered(w, phase) == responseFile.id = waiting[w] /\ responseFile.phase = phase

-----------------------------------------------------------------------------
(* Entry of the cycle: serving is stopped ...                              *)
StopServing(w) ==
    /\ Signals
    /\ at[w] = "entering"
    /\ WriteRequest(w, "stop_serving")
    /\ GoOn(w, "stopping")
    /\ UNCHANGED <<control, lock, cached, closing, children, machine, mishaps>>

StopConfirmed(w) ==
    /\ at[w] = "stopping"
    /\ Answered(w, "vram_checked")
    /\ cached' = [cached EXCEPT ![w] = responseFile.free]
    /\ GoOn(w, "checking")
    /\ UNCHANGED <<control, lock, waiting, closing, children, files, machine, mishaps>>

\* Mutant: a stop that failed needs no restart.
StopFailedLeaves(w) ==
    /\ at[w] = "stopping"
    /\ Answered(w, "error") \/ Fault("late")
    /\ GoOn(w, "leaving")
    /\ UNCHANGED <<control, lock, waiting, cached, closing, children, files, machine, mishaps>>

\* Mutant: a stop that timed out is requested again, and again.
StopFailedRetries(w) ==
    /\ at[w] = "stopping"
    /\ Answered(w, "error") \/ Fault("late")
    /\ GoOn(w, "entering")
    /\ UNCHANGED <<control, lock, waiting, cached, closing, children, files, machine, mishaps>>

(* ... or not: ServingStopFailed, on an error or after the deadline.       *)
StopFailed(w) ==
    /\ at[w] = "stopping"
    /\ Answered(w, "error") \/ Fault("late")
    /\ GoOn(w, "restarting")
    /\ UNCHANGED <<control, lock, waiting, cached, closing, children, files, machine, mishaps>>

\* What a stop that failed leaves behind.
StopsOrNot == serving' \in BOOLEAN /\ (serving' => serving)

StopCommand(w) ==
    /\ control = "shell"
    /\ at[w] = "entering"
    /\ \/ serving' = FALSE /\ GoOn(w, "checking")
       \/ Fault("stop") /\ StopsOrNot /\ GoOn(w, "restarting")
    /\ UNCHANGED <<control, lock, waiting, cached, closing, children, files, host, handled,
                   mishaps>>

\* nvidia-smi reads the memory now; the file reader has the value that came
\* with the answer to this stop.  Others may use the GPU too.
Reading(w) ==
    IF Signals THEN {cached[w]}
    ELSE {free \in BOOLEAN : IF free THEN ~serving /\ children = {} ELSE Fault("vram")}

(* The VRAM is free: the provider spawns the training subprocess ...       *)
Submit(w) ==
    /\ at[w] = "checking"
    /\ TRUE \in Reading(w)
    /\ children' = children \cup {w}
    /\ GoOn(w, "training")
    /\ UNCHANGED <<control, lock, waiting, cached, closing, files, machine, mishaps>>

(* ... or it was not until the deadline: VRAMNotFree.                      *)
VRAMNotFree(w) ==
    /\ at[w] = "checking"
    /\ FALSE \in Reading(w)
    /\ GoOn(w, "restarting")
    /\ UNCHANGED <<control, lock, waiting, cached, closing, children, files, machine, mishaps>>

(* The subprocess exits or is killed by its watchdog ...                  *)
SubprocessEnds(w) ==
    /\ w \in children
    /\ children' = children \ {w}
    /\ UNCHANGED <<control, lock, at, waiting, cached, closing, files, machine, mishaps>>

(* ... and the adapter that polls the provider sees it.  The cycle is left *)
(* in the same way whatever the outcome is.                                *)
RunReturns(w) ==
    /\ at[w] = "training"
    /\ w \notin children
    /\ GoOn(w, "restarting")
    /\ UNCHANGED <<control, lock, waiting, cached, closing, children, files, machine, mishaps>>

-----------------------------------------------------------------------------
(* Exit of the cycle, on every path: serving is started again.             *)
StartServing(w) ==
    /\ Signals
    /\ at[w] = "restarting"
    /\ WriteRequest(w, "start_serving")
    /\ GoOn(w, "starting")
    /\ UNCHANGED <<control, lock, cached, closing, children, machine, mishaps>>

(* A failure to start is logged and does not change the outcome.           *)
StartAnswered(w) ==
    /\ at[w] = "starting"
    /\ Answered(w, "healthy") \/ Answered(w, "error") \/ Fault("late")
    /\ GoOn(w, "leaving")
    /\ UNCHANGED <<control, lock, waiting, cached, closing, children, files, machine, mishaps>>

StartCommand(w) ==
    /\ control = "shell"
    /\ at[w] = "restarting"
    /\ \/ serving' = TRUE /\ UNCHANGED mishaps
       \/ Mishap /\ UNCHANGED serving
    /\ GoOn(w, "leaving")
    /\ UNCHANGED <<control, lock, waiting, cached, closing, children, files, host, handled>>

\* Mutant of Ends: the subprocess goes on without the worker.
EndsAlone(w) ==
    /\ lock' = IF lock = w THEN Nobody ELSE lock
    /\ closing' = [closing EXCEPT ![w] = FALSE]
    /\ cached' = [cached EXCEPT ![w] = FALSE]
    /\ GoOn(w, "down")
    /\ UNCHANGED children

\* The process of w ends: its lock is free, its subprocess is killed with it.
Ends(w) ==
    /\ lock' = IF lock = w THEN Nobody ELSE lock
    /\ children' = children \ {w}
    /\ closing' = [closing EXCEPT ![w] = FALSE]
    /\ cached' = [cached EXCEPT ![w] = FALSE]
    /\ GoOn(w, "down")

(* The health check is only logged.  The lock is released, and a worker    *)
(* that was interrupted ends.                                              *)
Leave(w) ==
    /\ at[w] = "leaving"
    /\ \/ closing[w] /\ Ends(w)
       \/ /\ ~closing[w]
          /\ lock' = Nobody
          /\ GoOn(w, "idle")
          /\ UNCHANGED <<cached, closing, children>>
    /\ UNCHANGED <<control, waiting, files, machine, mishaps>>

-----------------------------------------------------------------------------
InCycle == {"entering", "stopping", "checking", "training"}

(* SIGTERM before the exit of the cycle: ServingInterrupted unwinds to the *)
(* restart.  The subprocess is not touched.                                *)
Interrupt(w) ==
    /\ at[w] \in InCycle
    /\ Fault(IF at[w] = "training" THEN "interrupt" ELSE "sigterm")
    /\ closing' = [closing EXCEPT ![w] = TRUE]
    /\ GoOn(w, "restarting")
    /\ UNCHANGED <<control, lock, waiting, cached, children, files, machine, mishaps>>

(* The process is killed; so is it by a SIGTERM while the handler of the   *)
(* cycle is not installed, which it is not any more during the restart.    *)
KillWorker(w) ==
    /\ at[w] # "down"
    /\ Mishap
    /\ Ends(w)
    /\ UNCHANGED <<control, waiting, files, machine>>

StartWorker(w) ==
    /\ at[w] = "down"
    /\ GoOn(w, "idle")
    /\ UNCHANGED <<control, lock, waiting, cached, closing, children, files, machine, mishaps>>

-----------------------------------------------------------------------------
(* The controller on the host takes the request that is in the slot, and   *)
(* may write an intermediate response.                                     *)
HostTakes ==
    /\ host = "idle" /\ requestFile.id # handled
    /\ host' = IF requestFile.action = "stop_serving" THEN "stopping" ELSE "starting"
    /\ handled' = requestFile.id
    /\ responseFile' \in {responseFile, [id |-> requestFile.id, phase |-> host', free |-> FALSE]}
    /\ UNCHANGED <<control, worker, requestFile, issued, serving, mishaps>>

Respond(phase, free) ==
    /\ responseFile' = [id |-> handled, phase |-> phase, free |-> free]
    /\ host' = "idle"

\* The memory that it reports is that of the moment.
HostStops ==
    /\ host = "stopping"
    /\ \/ /\ serving' = FALSE
          /\ \E free \in BOOLEAN :
               /\ IF free THEN children = {} ELSE Fault("vram") \/ children # {}
               /\ Respond("vram_checked", free)
       \/ /\ Fault("stop")
          /\ StopsOrNot
          /\ Respond("error", FALSE)
    /\ UNCHANGED <<control, worker, requestFile, issued, handled, mishaps>>

HostStarts ==
    /\ host = "starting"
    /\ \/ serving' = TRUE /\ Respond("healthy", FALSE) /\ UNCHANGED mishaps
       \/ Mishap /\ UNCHANGED serving /\ Respond("error", FALSE)
    /\ UNCHANGED <<control, worker, requestFile, issued, handled>>

-----------------------------------------------------------------------------
\* The steps of a cycle, once it is entered.
Cycle(w) ==
    \/ StopServing(w) \/ StopCommand(w) \/ StopConfirmed(w) \/ StopFailed(w)
    \/ Submit(w) \/ VRAMNotFree(w) \/ SubprocessEnds(w) \/ RunReturns(w)
    \/ StartServing(w) \/ StartCommand(w) \/ StartAnswered(w)
    \/ Leave(w)

Host == HostTakes \/ HostStops \/ HostStarts

HandoffNext ==
    \/ \E w \in Trainers :
         Acquire(w) \/ Cycle(w) \/ Interrupt(w) \/ KillWorker(w) \/ StartWorker(w)
    \/ Host

HandoffSpec == HandoffInit /\ [][HandoffNext]_handoffVars

(* A worker executes its cycle, the watchdog ends the training, and the    *)
(* controller on the host serves requests.  Nobody has to start a cycle.   *)
HandoffFairness == (\A w \in Trainers : WF_handoffVars(Cycle(w))) /\ WF_handoffVars(Host)

FairHandoffSpec == HandoffSpec /\ HandoffFairness

-----------------------------------------------------------------------------
(* The GPU has one user: vLLM, or the training subprocess of one worker,   *)
(* although requests and answers share one slot each, come late and stay   *)
(* behind when a cycle or its worker ends (gpu_orchestrator, "so a         *)
(* training run cannot OOM and take the serving process serving live       *)
(* traffic down with it").                                                 *)
GpuExclusive ==
    /\ serving => children = {}
    /\ \A v, w \in children : v = w

(* A training subprocess lives only as long as its worker holds the GPU    *)
(* lock, also when the worker is killed or a SIGTERM unwinds the cycle     *)
(* (training_worker.process_next_job trains inside gpu_lock): whoever gets *)
(* the lock finds the training of nobody else.                             *)
TrainsUnderLock == \A w \in children : lock = w

(* Serving comes back whenever it was stopped, after a timeout, a failed   *)
(* stop, occupied VRAM or a SIGTERM, unless a worker is killed or the      *)
(* restart itself fails (serving_cycle, "so serving always comes back no   *)
(* matter how the cycle ends").                                            *)
ServingComesBack == ~serving ~> serving \/ mishaps > 0
=============================================================================
