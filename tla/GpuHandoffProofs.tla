-------------------------- MODULE GpuHandoffProofs --------------------------
(* Type correctness and exclusion of GpuHandoff, for any number of workers *)
(* and requests, in both settings of SERVING_CONTROL.                      *)
EXTENDS GpuHandoff, TLAPS

\* No SIGTERM finds a training subprocess.
Calm == "interrupt" \notin HandoffFaults

Holding == CycleSteps \ {"idle", "down"}

Terminal == {"vram_checked", "healthy", "error"}

\* The worker in a cycle is the one that holds the lock.
LockHeld == \A w \in Trainers : at[w] \in Holding <=> lock = w

\* Two requests are left for a cycle that is entered, one for its restart.
Budget ==
    \A w \in Trainers :
        /\ at[w] = "entering" => issued + 2 <= MaxRequests
        /\ at[w] \in {"stopping", "checking", "training", "restarting"} =>
               issued + 1 <= MaxRequests

\* The slots hold the newest request and an answer to one that was taken.
Numbered ==
    /\ requestFile.id = issued
    /\ handled <= issued
    /\ responseFile.id <= handled
    /\ \A w \in Trainers : at[w] = "stopping" => waiting[w] = issued

Shell ==
    control = "shell" =>
        issued = 0 /\ host = "idle" /\ responseFile.phase = "none"
        /\ \A w \in Trainers : at[w] # "stopping"

\* The last answer to the last request that was taken is final.
Answers ==
    responseFile.id = handled =>
        /\ responseFile.phase \in Terminal => host = "idle"
        /\ responseFile.phase = "vram_checked" => ~serving

\* From the check of the VRAM to the end of the training nothing is pending
\* for the host, and serving is stopped.
Parked ==
    \A w \in Trainers : at[w] \in {"checking", "training"} =>
        host = "idle" /\ handled = issued /\ ~serving

Trained == Calm => \A w \in children : at[w] = "training"

IInv == HandoffTypeOK /\ LockHeld /\ Budget /\ Numbered /\ Shell /\ Answers /\ Parked /\ Trained

LEMMA InitIInv == HandoffInit => IInv
  BY TrainersAssumption, ControlsAssumption, LimitsAssumption DEF HandoffInit, IInv,
       HandoffTypeOK, LockHeld, Budget, Numbered, Shell, Answers, Parked,
       Trained, Holding, CycleSteps, Actions, Phases, Terminal

LEMMA Exclusion == ASSUME IInv, Calm PROVE GpuExclusive
  <1>1. \A w \in children : w \in Trainers /\ at[w] = "training"
    BY DEF IInv, HandoffTypeOK, Trained
  <1>2. \A w \in children : lock = w /\ ~serving
    BY <1>1 DEF IInv, LockHeld, Parked, Holding, CycleSteps
  <1> QED  BY <1>2 DEF GpuExclusive

-----------------------------------------------------------------------------
(* The steps of a worker that neither write a request nor move the GPU.    *)
LEMMA AcquireStep == ASSUME IInv, NEW w \in Trainers, Acquire(w) PROVE IInv'
  BY TrainersAssumption, ControlsAssumption, LimitsAssumption DEF IInv, HandoffTypeOK,
       LockHeld, Budget, Numbered, Shell, Answers, Parked, Trained,
       Holding, CycleSteps, Terminal, Acquire, GoOn, files, machine

LEMMA StopConfirmedStep == ASSUME IInv, NEW w \in Trainers, StopConfirmed(w) PROVE IInv'
  <1> USE DEF IInv, StopConfirmed, Answered, GoOn, files, machine
  <1>1. responseFile.id \in 0..MaxRequests /\ responseFile.free \in BOOLEAN /\ control = "file_signal"
    BY ControlsAssumption DEF HandoffTypeOK, Shell, AllControls
  <1>2. handled = issued /\ responseFile.id = handled
    BY <1>1,  TrainersAssumption, ControlsAssumption, LimitsAssumption DEF Numbered,
         HandoffTypeOK
  <1>3. host = "idle" /\ ~serving
    BY <1>2 DEF Answers, Terminal
  <1>4. HandoffTypeOK'  BY <1>1 DEF HandoffTypeOK, CycleSteps
  <1>5. LockHeld'  BY DEF LockHeld, Holding, CycleSteps, HandoffTypeOK
  <1>6. Budget'  BY DEF Budget, HandoffTypeOK
  <1>7. Numbered' /\ Shell' /\ Answers'  BY DEF Numbered, Shell, Answers, HandoffTypeOK
  <1>8. Parked'  BY <1>2, <1>3 DEF Parked, HandoffTypeOK
  <1>9. Trained'  BY DEF Trained, HandoffTypeOK
  <1> QED  BY <1>4, <1>5, <1>6, <1>7, <1>8, <1>9

\* A step that only moves w to a step without obligations on the GPU.
Moves(w, from, to) ==
    /\ at[w] \in from /\ at' = [at EXCEPT ![w] = to]
    /\ UNCHANGED <<control, lock, waiting, children, files, machine>>

LEMMA MoveStep ==
  ASSUME IInv, NEW w \in Trainers, closing' \in [Trainers -> BOOLEAN], cached' = cached, mishaps' = mishaps,
         \/ Moves(w, {"entering", "stopping", "checking"}, "restarting")
         \/ Moves(w, {"training"}, "restarting") /\ (Calm => w \notin children)
         \/ Moves(w, {"starting"}, "leaving")
  PROVE  IInv'
  BY TrainersAssumption, ControlsAssumption, LimitsAssumption DEF Moves, IInv,
       HandoffTypeOK, LockHeld, Budget, Numbered, Shell, Answers, Parked,
       Trained, Holding, CycleSteps, Terminal, files, machine

LEMMA MovingSteps ==
  ASSUME IInv, NEW w \in Trainers,
         StopFailed(w) \/ VRAMNotFree(w) \/ RunReturns(w) \/ StartAnswered(w) \/ Interrupt(w)
  PROVE  IInv'
  <1>1. CASE StopFailed(w) \/ VRAMNotFree(w) \/ RunReturns(w) \/ StartAnswered(w)
    BY <1>1, MoveStep
       DEF Moves, StopFailed, VRAMNotFree, RunReturns, StartAnswered, GoOn, files,
       machine, IInv, HandoffTypeOK
  <1>2. CASE Interrupt(w)
    <2>1. closing' \in [Trainers -> BOOLEAN]  BY <1>2 DEF Interrupt, IInv, HandoffTypeOK
    <2> QED  BY <1>2, <2>1, MoveStep DEF Moves, Interrupt, InCycle, Fault, Calm, GoOn,
                  files, machine
  <1> QED  BY <1>1, <1>2

LEMMA SubmitStep == ASSUME IInv, NEW w \in Trainers, Submit(w) PROVE IInv'
  BY TrainersAssumption, ControlsAssumption, LimitsAssumption DEF Submit, IInv,
       HandoffTypeOK, LockHeld, Budget, Numbered, Shell, Answers, Parked,
       Trained, Holding, CycleSteps, Terminal, GoOn, files, machine

LEMMA SubprocessEndsStep == ASSUME IInv, NEW w \in Trainers, SubprocessEnds(w) PROVE IInv'
  BY DEF SubprocessEnds, IInv, HandoffTypeOK, LockHeld, Budget, Numbered, Shell, Answers,
       Parked,
       Trained, Holding, CycleSteps, Terminal, GoOn, files, machine

LEMMA EndsStep ==
  ASSUME IInv, NEW w \in Trainers, Ends(w), UNCHANGED <<control, waiting, files, machine>>,
         mishaps' \in 0..MaxMishaps
  PROVE  IInv'
  BY TrainersAssumption, ControlsAssumption, LimitsAssumption DEF Ends, IInv,
       HandoffTypeOK, LockHeld, Budget, Numbered, Shell, Answers, Parked,
       Trained, Holding, CycleSteps, Terminal, GoOn, files, machine

LEMMA LeaveStep == ASSUME IInv, NEW w \in Trainers, Leave(w) PROVE IInv'
  <1>1. CASE closing[w] /\ Ends(w)
    BY <1>1, EndsStep DEF Leave, IInv, HandoffTypeOK
  <1>2. CASE ~closing[w] /\ lock' = Nobody /\ GoOn(w, "idle") /\ UNCHANGED <<cached, closing, children>>
    BY <1>2, TrainersAssumption, ControlsAssumption, LimitsAssumption DEF Leave, IInv,
         HandoffTypeOK, LockHeld, Budget, Numbered, Shell, Answers,
         Parked, Trained, Holding, CycleSteps, Terminal, GoOn, files, machine
  <1> QED  BY <1>1, <1>2 DEF Leave

LEMMA KillStep == ASSUME IInv, NEW w \in Trainers, KillWorker(w) PROVE IInv'
  BY EndsStep, TrainersAssumption, ControlsAssumption, LimitsAssumption DEF KillWorker,
       Mishap, IInv, HandoffTypeOK

LEMMA RestartStep == ASSUME IInv, NEW w \in Trainers, StartWorker(w) PROVE IInv'
  BY TrainersAssumption, ControlsAssumption, LimitsAssumption DEF StartWorker, IInv,
       HandoffTypeOK, LockHeld, Budget, Numbered, Shell, Answers, Parked,
       Trained, Holding, CycleSteps, Terminal, GoOn, files, machine

-----------------------------------------------------------------------------
(* The steps that write a request: the slot then holds the newest one, and *)
(* no other worker is in a cycle that could wait for an older one.         *)
LEMMA WriteStep ==
  ASSUME IInv, NEW w \in Trainers, StopServing(w) \/ StartServing(w)
  PROVE  IInv'
  <1> USE DEF IInv
  <1>1. control = "file_signal" /\ issued \in Nat /\ issued + 1 <= MaxRequests
    BY TrainersAssumption, ControlsAssumption, LimitsAssumption DEF StopServing,
         StartServing, Signals, Budget, HandoffTypeOK
  <1>2. /\ requestFile' = [id |-> issued + 1, action |-> requestFile'.action]
        /\ requestFile'.action \in Actions
        /\ issued' = issued + 1
        /\ waiting' = [waiting EXCEPT ![w] = issued + 1]
        /\ at[w] \in {"entering", "restarting"}
        /\ at' = [at EXCEPT ![w] = IF at[w] = "entering" THEN "stopping" ELSE "starting"]
        /\ UNCHANGED <<control, lock, cached, closing, children, machine, mishaps, responseFile>>
    BY DEF StopServing, StartServing, WriteRequest, GoOn, Actions
  <1>3. HandoffTypeOK'  BY <1>1, <1>2, TrainersAssumption, ControlsAssumption,
                             LimitsAssumption DEF HandoffTypeOK, CycleSteps, machine
  <1>4. LockHeld'  BY <1>2 DEF LockHeld, Holding, CycleSteps, HandoffTypeOK
  <1>5. \A v \in Trainers \ {w} : at[v] \in {"idle", "down"}
    BY <1>2 DEF LockHeld, Holding, CycleSteps, HandoffTypeOK
  <1>6. \A v \in Trainers \ {w} : at'[v] \in {"idle", "down"}  BY <1>2, <1>5
                                                                  DEF HandoffTypeOK
  <1>7. Budget'
    <2>1. at[w] = "entering" => issued + 2 <= MaxRequests  BY DEF Budget
    <2> QED  BY <1>1, <1>2, <1>6, <2>1, TrainersAssumption, ControlsAssumption,
                  LimitsAssumption DEF Budget, HandoffTypeOK
  <1>8. Numbered'  BY <1>1, <1>2, <1>6, TrainersAssumption, ControlsAssumption,
                        LimitsAssumption DEF Numbered, HandoffTypeOK, machine
  <1>9. Shell' /\ Answers'  BY <1>1, <1>2 DEF Shell, Answers, machine
  <1>10. Parked' /\ Trained'
    BY <1>2, <1>6 DEF Parked, Trained, HandoffTypeOK, machine
  <1> QED  BY <1>3, <1>4, <1>7, <1>8, <1>9, <1>10

(* The commands of SERVING_CONTROL=shell: no request is ever written.      *)
LEMMA CommandStep ==
  ASSUME IInv, NEW w \in Trainers, StopCommand(w) \/ StartCommand(w)
  PROVE  IInv'
  <1> USE DEF IInv
  <1>a. serving \in BOOLEAN /\ mishaps \in 0..MaxMishaps  BY DEF HandoffTypeOK
  <1>b. serving' \in BOOLEAN  BY <1>a DEF StopCommand, StartCommand, StopsOrNot
  <1>c. mishaps' \in 0..MaxMishaps
    BY <1>a, LimitsAssumption DEF StopCommand, StartCommand, Mishap
  <1>1. /\ control = "shell" /\ serving' \in BOOLEAN /\ mishaps' \in 0..MaxMishaps
        /\ UNCHANGED <<control, lock, waiting, cached, closing, children, files, host, handled>>
    BY <1>b, <1>c DEF StopCommand, StartCommand
  <1>2. \/ at[w] = "entering" /\ at' = [at EXCEPT ![w] = "checking"] /\ ~serving'
        \/ at[w] = "entering" /\ at' = [at EXCEPT ![w] = "restarting"]
        \/ at[w] = "restarting" /\ at' = [at EXCEPT ![w] = "leaving"]
    BY DEF StopCommand, StartCommand, GoOn
  <1>3. issued = 0 /\ handled = 0 /\ host = "idle" /\ responseFile.phase = "none"
    BY <1>1, TrainersAssumption, ControlsAssumption, LimitsAssumption DEF Shell,
         Numbered, HandoffTypeOK
  <1>4. \A v \in Trainers \ {w} : at[v] \in {"idle", "down"} /\ at'[v] = at[v]
    BY <1>2 DEF LockHeld, Holding, CycleSteps, HandoffTypeOK
  <1>5. HandoffTypeOK'  BY <1>1, <1>2 DEF HandoffTypeOK, CycleSteps, files
  <1>6. LockHeld'  BY <1>1, <1>2, <1>4 DEF LockHeld, Holding, CycleSteps, HandoffTypeOK
  <1>7. Budget'  BY <1>1, <1>2, <1>4, TrainersAssumption, ControlsAssumption,
                      LimitsAssumption DEF Budget, HandoffTypeOK, files
  <1>8. Numbered' /\ Shell' /\ Answers'
    BY <1>1, <1>2, <1>3, <1>4 DEF Numbered, Shell, Answers, HandoffTypeOK, files, Terminal
  <1>9. Parked' /\ Trained'
    BY <1>1, <1>2, <1>3, <1>4 DEF Parked, Trained, HandoffTypeOK, files
  <1> QED  BY <1>5, <1>6, <1>7, <1>8, <1>9

-----------------------------------------------------------------------------
(* The steps of the host.  While a worker is between the check of the VRAM *)
(* and the end of its training there is nothing for it to do.              *)
LEMMA HostStep == ASSUME IInv, Host PROVE IInv'
  <1> USE DEF IInv
  <1>a. serving \in BOOLEAN /\ mishaps \in 0..MaxMishaps  BY DEF HandoffTypeOK
  <1>c. UNCHANGED mishaps \/ Mishap
    <2>1. HostTakes => UNCHANGED mishaps  BY DEF HostTakes
    <2>2. HostStops => UNCHANGED mishaps  BY DEF HostStops
    <2>3. HostStarts => UNCHANGED mishaps \/ Mishap  BY DEF HostStarts
    <2> QED  BY <2>1, <2>2, <2>3 DEF Host
  <1>b. mishaps' \in 0..MaxMishaps
    BY <1>a, <1>c, LimitsAssumption DEF Mishap
  <1>1. /\ UNCHANGED <<control, worker, requestFile, issued>>
        /\ mishaps' \in 0..MaxMishaps
    BY <1>b DEF Host, HostTakes, HostStops, HostStarts
  <1>2. host # "idle" \/ requestFile.id # handled
    BY DEF Host, HostTakes, HostStops, HostStarts
  <1>3. \A w \in Trainers : at[w] \notin {"checking", "training"}
    BY <1>2 DEF Parked, Numbered
  <1>4. LockHeld' /\ Budget' /\ Parked' /\ Trained'
    BY <1>1, <1>3 DEF LockHeld, Budget, Parked, Trained, worker
  <1>5. control # "shell"
    BY <1>2, TrainersAssumption, ControlsAssumption, LimitsAssumption DEF Shell,
         Numbered, HandoffTypeOK
  <1>6. Shell'  BY <1>1, <1>5 DEF Shell
  <1>7. CASE HostTakes
    <2>1. handled' = issued /\ handled < issued /\ serving' = serving /\ host' \in {"stopping", "starting"}
      BY <1>7, TrainersAssumption, ControlsAssumption, LimitsAssumption DEF HostTakes,
           Numbered, HandoffTypeOK
    <2>2. \/ responseFile' = responseFile
          \/ responseFile' = [id |-> issued, phase |-> host', free |-> FALSE]
      BY <1>7 DEF HostTakes, Numbered
    <2>3. responseFile' = responseFile => responseFile'.id # handled'
      BY <2>1, TrainersAssumption, ControlsAssumption, LimitsAssumption DEF Numbered,
           HandoffTypeOK
    <2>b. issued \in 0..MaxRequests /\ host' \in Phases  BY <2>1 DEF HandoffTypeOK, Phases
    <2>a. responseFile' \in [id : 0..MaxRequests, phase : Phases, free : BOOLEAN]
      <3>1. [id |-> issued, phase |-> host', free |-> FALSE]
              \in [id : 0..MaxRequests, phase : Phases, free : BOOLEAN]
        BY <2>b
      <3>2. responseFile \in [id : 0..MaxRequests, phase : Phases, free : BOOLEAN]
        BY DEF HandoffTypeOK
      <3> QED  BY <2>2, <3>1, <3>2, Zenon
    <2>4. HandoffTypeOK'  BY <1>1, <2>1, <2>a DEF HandoffTypeOK, worker
    <2>5. Numbered'  BY <1>1, <2>1, <2>2, TrainersAssumption, ControlsAssumption,
                          LimitsAssumption DEF Numbered, HandoffTypeOK, worker
    <2>6. Answers'  BY <2>1, <2>2, <2>3 DEF Answers, Terminal
    <2> QED  BY <1>4, <1>6, <2>4, <2>5, <2>6
  <1>8. CASE HostStops \/ HostStarts
    <2>a. serving' \in BOOLEAN
      BY <1>8, <1>a DEF HostStops, HostStarts, StopsOrNot
    <2>b. /\ host' = "idle" /\ handled' = handled
          /\ \/ HostStops /\ serving' = FALSE /\ \E free \in BOOLEAN : Respond("vram_checked", free)
             \/ Respond("error", FALSE)
             \/ Respond("healthy", FALSE)
      BY <1>8 DEF HostStops, HostStarts, Respond
    <2>1. /\ host' = "idle" /\ handled' = handled /\ serving' \in BOOLEAN
          /\ \E free \in BOOLEAN :
               responseFile' = [id |-> handled, phase |-> responseFile'.phase, free |-> free]
          /\ responseFile'.phase \in Terminal
          /\ responseFile'.phase = "vram_checked" => ~serving'
      <3>1. PICK phase \in Terminal, free \in BOOLEAN :
              /\ responseFile' = [id |-> handled, phase |-> phase, free |-> free]
              /\ phase = "vram_checked" => ~serving'
        BY <2>b, Zenon DEF Respond, Terminal
      <3>2. responseFile'.phase = phase  BY <3>1
      <3> QED  BY <2>a, <2>b, <3>1, <3>2
    <2>2. responseFile'.id = handled  BY <2>1
    <2>3. HandoffTypeOK'  BY <1>1, <2>1 DEF HandoffTypeOK, worker, Phases, Terminal
    <2>4. Numbered'  BY <1>1, <2>1, <2>2, TrainersAssumption, ControlsAssumption,
                          LimitsAssumption DEF Numbered, HandoffTypeOK, worker
    <2>5. Answers'  BY <2>1 DEF Answers
    <2> QED  BY <1>4, <1>6, <2>3, <2>4, <2>5
  <1> QED  BY <1>7, <1>8 DEF Host

-----------------------------------------------------------------------------
LEMMA NextIInv == IInv /\ [HandoffNext]_handoffVars => IInv'
  <1> SUFFICES ASSUME IInv, [HandoffNext]_handoffVars PROVE IInv'
    OBVIOUS
  <1>1. CASE UNCHANGED handoffVars
    BY <1>1 DEF handoffVars, worker, files, machine, IInv, HandoffTypeOK, LockHeld,
         Budget, Numbered, Shell,
         Answers, Parked, Trained
  <1>2. CASE Host  BY <1>2, HostStep
  <1>3. CASE \E w \in Trainers : Acquire(w) \/ Cycle(w) \/ Interrupt(w) \/ KillWorker(w) \/ StartWorker(w)
    <2>1. PICK w \in Trainers : Acquire(w) \/ Cycle(w) \/ Interrupt(w) \/ KillWorker(w) \/ StartWorker(w)
      BY <1>3
    <2> QED
      BY <2>1, AcquireStep, WriteStep, CommandStep, StopConfirmedStep, MovingSteps,
           SubmitStep,
         SubprocessEndsStep, LeaveStep, KillStep, RestartStep DEF Cycle
  <1> QED  BY <1>1, <1>2, <1>3 DEF HandoffNext

LEMMA Inductive == HandoffSpec => []IInv
  BY InitIInv, NextIInv, PTL DEF HandoffSpec

(* Every reachable state is well typed: among others, a cycle never runs   *)
(* out of requests, and an answer never names a request that was not made. *)
THEOREM HandoffTypeCorrect == HandoffSpec => []HandoffTypeOK
  <1>1. IInv => HandoffTypeOK  BY DEF IInv
  <1> QED  BY <1>1, Inductive, PTL

(* The GPU has one user as long as no SIGTERM finds a training subprocess  *)
(* (gpu_orchestrator.serving_cycle and the single point of execution in    *)
(* training_worker.process_next_job).                                      *)
THEOREM HandoffExclusive == ASSUME Calm PROVE HandoffSpec => []GpuExclusive
  <1>1. IInv => GpuExclusive  BY Exclusion
  <1> QED  BY <1>1, Inductive, PTL

-----------------------------------------------------------------------------
(* What a SIGTERM during a training leaves: the worker is closing, and it  *)
(* ends, with its subprocess, before its lock is free.                     *)
Attended ==
    \A w \in children :
        /\ w \in Trainers /\ at[w] \in Holding
        /\ at[w] = "training" \/ closing[w]

LEMMA InitAttended == HandoffInit => Attended
  BY DEF HandoffInit, Attended

\* A step that moves one worker on, without ending it.
LEMMA AttendedOnward ==
  ASSUME HandoffTypeOK, Attended, NEW w \in Trainers, NEW step \in Holding,
         at' = [at EXCEPT ![w] = step], UNCHANGED <<closing, children>>,
         at[w] = "training" => w \notin children
  PROVE  Attended'
  BY DEF Attended, HandoffTypeOK

\* A worker that ends takes its subprocess along.
LEMMA AttendedEnds == ASSUME HandoffTypeOK, Attended, NEW w \in Trainers, Ends(w) PROVE Attended'
  BY DEF Attended, HandoffTypeOK, Ends, GoOn

LEMMA NextAttended == IInv /\ Attended /\ [HandoffNext]_handoffVars => Attended'
  <1> SUFFICES ASSUME IInv, Attended, [HandoffNext]_handoffVars PROVE Attended'  OBVIOUS
  <1>1. HandoffTypeOK  BY DEF IInv
  <1>2. CASE UNCHANGED <<at, closing, children>>
    BY <1>2 DEF Attended
  <1>3. ASSUME NEW w \in Trainers,
               \/ Acquire(w) \/ StopServing(w) \/ StopCommand(w) \/ StopConfirmed(w)
               \/ StopFailed(w) \/ VRAMNotFree(w) \/ RunReturns(w)
               \/ StartServing(w) \/ StartCommand(w) \/ StartAnswered(w)
        PROVE  Attended'
    <2>1. \E step \in Holding : at' = [at EXCEPT ![w] = step]
      BY <1>3
         DEF Holding, CycleSteps, GoOn, Acquire, StopServing, StopCommand, StopConfirmed,
         StopFailed,
             VRAMNotFree, RunReturns, StartServing, StartCommand, StartAnswered
    <2>2. UNCHANGED <<closing, children>> /\ (at[w] = "training" => w \notin children)
      BY <1>3
         DEF Acquire, StopServing, StopCommand, StopConfirmed, StopFailed, VRAMNotFree,
             RunReturns, StartServing, StartCommand, StartAnswered
    <2> QED  BY <1>1, <2>1, <2>2, AttendedOnward
  <1>4. ASSUME NEW w \in Trainers, Submit(w) PROVE Attended'
    BY <1>1, <1>4 DEF Attended, HandoffTypeOK, Submit, GoOn, Holding, CycleSteps
  <1>5. ASSUME NEW w \in Trainers, SubprocessEnds(w) PROVE Attended'
    BY <1>5 DEF Attended, SubprocessEnds
  <1>6. ASSUME NEW w \in Trainers, Interrupt(w) PROVE Attended'
    BY <1>1, <1>6 DEF Attended, HandoffTypeOK, Interrupt, InCycle, GoOn, Holding, CycleSteps
  <1>7. ASSUME NEW w \in Trainers, Leave(w) PROVE Attended'
    <2>1. CASE Ends(w)  BY <1>1, <2>1, AttendedEnds
    <2>2. CASE ~closing[w] /\ GoOn(w, "idle") /\ UNCHANGED <<closing, children>>
      BY <1>1, <1>7, <2>2 DEF Attended, HandoffTypeOK, Leave, GoOn
    <2> QED  BY <1>7, <2>1, <2>2 DEF Leave
  <1>8. ASSUME NEW w \in Trainers, KillWorker(w) PROVE Attended'
    BY <1>1, <1>8, AttendedEnds DEF KillWorker
  <1>9. ASSUME NEW w \in Trainers, StartWorker(w) PROVE Attended'
    BY <1>1, <1>9 DEF Attended, HandoffTypeOK, StartWorker, GoOn, Holding, CycleSteps
  <1>10. CASE Host
    BY <1>2, <1>10 DEF Host, HostTakes, HostStops, HostStarts, worker
  <1>11. CASE UNCHANGED handoffVars
    BY <1>2, <1>11 DEF handoffVars, worker
  <1> QED
    BY <1>3, <1>4, <1>5, <1>6, <1>7, <1>8, <1>9, <1>10, <1>11 DEF HandoffNext, Cycle

(* Whatever happens, a SIGTERM during a training included, the GPU lock    *)
(* keeps two trainings apart: the handler of SIGTERM lets serving join a   *)
(* training, but never a second training (serving_cycle, gpu_lock).        *)
THEOREM TrainingsStayLocked == HandoffSpec => []TrainsUnderLock
  <1>1. IInv /\ Attended => TrainsUnderLock
    BY DEF IInv, LockHeld, Attended, TrainsUnderLock
  <1>2. HandoffSpec => []Attended
    BY Inductive, InitAttended, NextAttended, PTL DEF HandoffSpec
  <1> QED  BY Inductive, <1>1, <1>2, PTL
=============================================================================
