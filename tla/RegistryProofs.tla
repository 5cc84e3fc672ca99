--------------------------- MODULE RegistryProofs ---------------------------
(***************************************************************************)
(* Proofs about Registry, for every set of versions, of requests and of    *)
(* servers, and every choice of faults; and about the flow of the default  *)
(* environment of RegistryFlow, where the faults that a theorem excludes   *)
(* are named by it.                                                        *)
(***************************************************************************)
EXTENDS RegistryFlow, TLAPS

(* The steps at which a request holds the GPU lock.                        *)
Locked == {"loading", "smoke", "retiring", "marking"}

LockIsHeld == \A r \in Requests : pc[r] \in Locked <=> gpuLock = r

\* The job of a request agrees with its step, and a staging job has the
\* staging environment.
JobFits ==
    \A r \in Requests :
        /\ pc[r] = "idle" <=> job[r] = None
        /\ pc[r] = "writing" => job[r].op \in Decisions
        /\ pc[r] \notin {"idle", "writing"} => job[r].op \in {"stage", "move"}
        /\ pc[r] = "restoring" => job[r].op = "stage"
        /\ pc[r] # "idle" /\ job[r].op = "stage" => job[r].env = "staging"

\* Types, with the job that each step needs.
Typing == TypeOK /\ JobFits

\* The superseded version is another one than the target.
PreviousDiffers ==
    \A r \in Requests :
        /\ previous[r] # None => pc[r] \notin {"idle", "writing", "waiting"}
        /\ pc[r] # "idle" => previous[r] # Target(r)
        /\ pc[r] = "retiring" => previous[r] # None

\* What a request has flushed, as a function of its step.
HandsBack(r) == pc[r] = "committing" /\ job[r].op = "stage"

Planned(r, v) ==
    IF pc[r] \in {"marking", "restoring", "committing"} /\ v = previous[r]
      THEN IF HandsBack(r) THEN "DEPLOYED" ELSE "RETIRED"
    ELSE IF InFlight(r) /\ v = Target(r)
      THEN IF HandsBack(r) THEN "STAGING" ELSE "DEPLOYED"
    ELSE None

WritesPlanned ==
    \A r \in Requests, v \in Versions : writes[r][v] = Planned(r, v)

\* The index lets one pointer move be in flight.
OneInFlight == \A q, r \in Requests : InFlight(q) /\ InFlight(r) => q = r

\* While a move is in flight, no third version is DEPLOYED.
InFlightExcludes ==
    \A r \in Requests, u \in Versions :
        InFlight(r) /\ u # Target(r) /\ status[u] = "DEPLOYED" => u = previous[r]

IInv ==
    /\ Typing
    /\ LockIsHeld
    /\ PreviousDiffers
    /\ WritesPlanned
    /\ OneInFlight
    /\ InFlightExcludes
    /\ AtMostOneDeployed

-----------------------------------------------------------------------------
(* What all the endpoints have in common when they accept a request.       *)
Arrives(r, op, v, env) ==
    /\ pc[r] = "idle"
    /\ op = "stage" => env = "staging" /\ status[v] \in {"EVALUATED", "STAGING"}
    /\ op = "validate" => status[v] = "STAGING"
    /\ op \in {"promote", "reject"} => status[v] = "EVALUATED"
    /\ job' = [job EXCEPT ![r] = [op |-> op, target |-> v, env |-> env]]
    /\ pc' = [pc EXCEPT ![r] = IF op \in Decisions THEN "writing" ELSE "waiting"]
    /\ UNCHANGED <<status, deployments, loaded, gpuLock, previous, writes>>

(* Every endpoint arrives with a version, an operation and an environment  *)
(* of the right sets.                                                      *)
LEMMA ArriveArrives ==
    ASSUME TypeOK, NEW r \in Requests, Arrive(r)
    PROVE  \E op \in Operations, v \in Versions, env \in Environments :
               Arrives(r, op, v, env)
<1>1. ASSUME RollbackDeployment(r)
      PROVE  \E op \in Operations, v \in Versions, env \in Environments :
                 Arrives(r, op, v, env)
  <2>1. PICK row \in deployments :
            Begin(r, "move", row.version, row.env, RollbackTargets)
    BY <1>1 DEF RollbackDeployment
  <2>2. row.version \in Versions /\ row.env \in Environments
    BY <2>1 DEF TypeOK
  <2>3. Arrives(r, "move", row.version, row.env)
    BY <2>1 DEF Begin, Arrives, Goto, Decisions
  <2> QED BY <2>2, <2>3 DEF Operations
<1>2. ASSUME NEW v \in Versions, CreateDecision(r, v)
      PROVE  \E op \in Operations, env \in Environments : Arrives(r, op, v, env)
  <2>1. PICK op \in {"promote", "reject"} :
            Begin(r, op, v, "default", {"EVALUATED"})
    BY <1>2 DEF CreateDecision
  <2>2. Arrives(r, op, v, "default")
    BY <2>1 DEF Begin, Arrives, Goto, Decisions
  <2> QED BY <2>1, <2>2 DEF Operations, Decisions, Environments
<1>3. ASSUME NEW v \in Versions, ValidateStaging(r, v)
      PROVE  \E op \in Operations, env \in Environments : Arrives(r, op, v, env)
  <2>1. Arrives(r, "validate", v, "default")
    BY <1>3 DEF ValidateStaging, Begin, Arrives, Goto, Decisions
  <2> QED BY <2>1 DEF Operations, Decisions, Environments
<1>4. ASSUME NEW v \in Versions,
             DeployModelVersion(r, v) \/ DeployToStaging(r, v)
             \/ PromoteToProduction(r, v) \/ RollbackModel(r, v)
      PROVE  \E op \in Operations, env \in Environments : Arrives(r, op, v, env)
  <2>1. \/ Arrives(r, "stage", v, "staging")
        \/ Arrives(r, "move", v, "production")
        \/ Arrives(r, "move", v, "default")
    BY <1>4 DEF DeployModelVersion, DeployToStaging, PromoteToProduction,
                RollbackModel, Begin, Arrives, Goto, Decisions
  <2> QED BY <2>1 DEF Operations, Environments
<1> QED BY <1>1, <1>2, <1>3, <1>4 DEF Arrive

(* The request that ends leaves the state of all the others alone.         *)
LEMMA EndTypes ==
    ASSUME TypeOK, NEW r \in Requests, End(r)
    PROVE  /\ pc' \in [Requests -> Steps]
           /\ job' \in [Requests -> Jobs \cup {None}]
           /\ previous' \in [Requests -> Versions \cup {None}]
           /\ writes' \in [Requests -> [Versions -> Status \cup {None}]]
<1>1. Untouched \in [Versions -> Status \cup {None}]
  BY DEF Untouched
<1> QED BY <1>1 DEF TypeOK, End, Goto, Steps

-----------------------------------------------------------------------------
LEMMA InitTyping == Init => Typing
  BY DEF Init, Typing, TypeOK, JobFits, Status, Steps, Untouched

LEMMA NextTyping == Typing /\ [Next]_vars => Typing'
<1> SUFFICES ASSUME Typing, [Next]_vars PROVE Typing'
  OBVIOUS
<1> USE DEF Typing, TypeOK
<1>1. ASSUME NEW v \in Versions, Evaluate(v) PROVE Typing'
  BY <1>1 DEF Evaluate, Status, JobFits
<1>2. ASSUME NEW r \in Requests, Arrive(r) PROVE Typing'
  <2>1. PICK op \in Operations, v \in Versions, env \in Environments :
            Arrives(r, op, v, env)
    BY <1>2, ArriveArrives
  <2>2. [op |-> op, target |-> v, env |-> env] \in Jobs
    BY DEF Jobs
  <2>3. TypeOK'
    BY <2>1, <2>2 DEF Arrives, Steps
  <2>4. JobFits'
    BY <2>1, <2>2, JobsAssumption DEF Arrives, JobFits, Operations
  <2> QED BY <2>3, <2>4
<1>3. ASSUME NEW r \in Requests, End(r), UNCHANGED deployments,
             status' \in [Versions -> Status],
             loaded' \in [Hosts -> SUBSET Versions],
             gpuLock' \in Requests \cup {None}
      PROVE  Typing'
  BY <1>3, EndTypes DEF End, Goto, JobFits
<1>4. ASSUME NEW r \in Requests, Write(r) PROVE Typing'
  <2>1. status' \in [Versions -> Status]
    BY <1>4 DEF Write, DecidedStatus, Status
  <2> QED BY <1>3, <1>4, <2>1 DEF Write
<1>5. ASSUME NEW r \in Requests, LockTimeout(r) \/ Abort(r) PROVE Typing'
  BY <1>3, <1>5 DEF LockTimeout, Abort, ReleaseGpu
<1>6. ASSUME NEW r \in Requests, Acquire(r) PROVE Typing'
  BY <1>6 DEF Acquire, DeployedOthers, Goto, Steps, JobFits
<1>7. ASSUME NEW r \in Requests, pc[r] # "idle", pc[r] # "writing"
      PROVE  job[r] \in Jobs /\ Target(r) \in Versions /\ Host(r) \in Hosts
  BY <1>7, HostsAssumption DEF JobFits, Jobs, Target, Host
<1>8. ASSUME NEW r \in Requests, Load(r) PROVE Typing'
  <2>1. Target(r) \in Versions /\ Host(r) \in Hosts
    BY <1>7, <1>8 DEF Load
  <2>2. loaded' \in [Hosts -> SUBSET Versions]
    BY <1>8, <2>1 DEF Load
  <2> QED BY <1>8, <2>2 DEF Load, Goto, Steps, JobFits
<1>9. ASSUME NEW r \in Requests, LoadFails(r) PROVE Typing'
  <2>1. Target(r) \in Versions /\ Host(r) \in Hosts
    BY <1>7, <1>9 DEF LoadFails, AnswerLost
  <2>2. loaded' \in [Hosts -> SUBSET Versions]
    BY <1>9, <2>1 DEF LoadFails, AnswerLost
  <2> QED BY <1>3, <1>9, <2>2 DEF LoadFails, AnswerLost, ReleaseGpu
<1>10. ASSUME NEW r \in Requests, SmokeFails(r) \/ Conflict(r) PROVE Typing'
  <2>1. Target(r) \in Versions /\ Host(r) \in Hosts
    BY <1>7, <1>10 DEF SmokeFails, Conflict
  <2>2. loaded' \in [Hosts -> SUBSET Versions]
    BY <1>10, <2>1 DEF SmokeFails, Conflict, Unload
  <2> QED BY <1>3, <1>10, <2>2 DEF SmokeFails, Conflict, ReleaseGpu
<1>11. ASSUME NEW r \in Requests, SmokePasses(r) PROVE Typing'
  <2>1. Target(r) \in Versions /\ Host(r) \in Hosts
    BY <1>7, <1>11 DEF SmokePasses
  <2>2. loaded' \in [Hosts -> SUBSET Versions]
    BY <1>11, <2>1 DEF SmokePasses, Unload
  <2>3. pc' = [pc EXCEPT ![r] = "marking"] \/ pc' = [pc EXCEPT ![r] = "retiring"]
    BY <1>11 DEF SmokePasses, Goto
  <2>4. pc[r] = "smoke" /\ UNCHANGED <<status, deployments, gpuLock, job, previous, writes>>
    BY <1>11 DEF SmokePasses
  <2> QED BY ZenonT(30), <2>2, <2>3, <2>4 DEF Steps, JobFits
<1>12. ASSUME NEW r \in Requests, RetirePrevious(r) PROVE Typing'
  BY <1>12 DEF RetirePrevious, Flush, Goto, Steps, Status, JobFits
<1>13. ASSUME NEW r \in Requests, MarkDeployed(r) PROVE Typing'
  BY <1>7, <1>13 DEF MarkDeployed, Flush, Goto, ReleaseGpu, Steps, Status, JobFits
<1>14. ASSUME NEW r \in Requests, RestorePrevious(r) PROVE Typing'
  BY <1>14 DEF RestorePrevious, Goto, Steps, Status, JobFits
<1>15. ASSUME NEW r \in Requests, Commit(r) PROVE Typing'
  <2>1. status' \in [Versions -> Status]
    BY <1>15 DEF Commit, Merged, Seen
  <2>2. deployments' \subseteq [version : Versions, env : Environments]
    BY <1>7, <1>15 DEF Commit, Jobs
  <2> QED BY <1>15, <2>1, <2>2, EndTypes DEF Commit, End, Goto, JobFits
<1>16. CASE UNCHANGED vars
  BY <1>16 DEF vars, JobFits
<1> QED
  BY <1>1, <1>2, <1>4, <1>5, <1>6, <1>8, <1>9, <1>10, <1>11, <1>12, <1>13,
     <1>14, <1>15, <1>16 DEF Next, Progress

(* The type invariant, for every instance.                                 *)
THEOREM TypeCorrect == Spec => []TypeOK
<1>1. Typing => TypeOK
  BY DEF Typing
<1> QED BY InitTyping, NextTyping, <1>1, PTL DEF Spec

-----------------------------------------------------------------------------
LEMMA InitIInv == Init => IInv
<1> SUFFICES ASSUME Init PROVE IInv
  OBVIOUS
<1>1. Typing
  BY InitTyping
<1>2. LockIsHeld /\ PreviousDiffers
  BY RequestsAssumption DEF Init, LockIsHeld, PreviousDiffers, Locked
<1>3. WritesPlanned
  BY DEF Init, WritesPlanned, Planned, InFlight, Untouched
<1>4. OneInFlight /\ InFlightExcludes /\ AtMostOneDeployed
  BY DEF Init, OneInFlight, InFlightExcludes, InFlight, AtMostOneDeployed
<1> QED BY <1>1, <1>2, <1>3, <1>4 DEF IInv

(* A request that ends without a commit takes nothing with it but its own  *)
(* state.                                                                  *)
LEMMA EndKeepsIInv ==
    ASSUME IInv, NEW r \in Requests, End(r), ReleaseGpu(r), UNCHANGED status, Typing'
    PROVE  IInv'
<1> USE DEF IInv, Typing, TypeOK, End, Goto
<1>1. LockIsHeld'
  BY RequestsAssumption DEF LockIsHeld, Locked, ReleaseGpu
<1>2. PreviousDiffers'
  BY DEF PreviousDiffers, Target
<1>3. WritesPlanned'
  BY DEF WritesPlanned, Planned, InFlight, HandsBack, Target, Untouched
<1>4. OneInFlight' /\ InFlightExcludes' /\ AtMostOneDeployed'
  BY DEF OneInFlight, InFlightExcludes, InFlight, AtMostOneDeployed, Target
<1> QED BY <1>1, <1>2, <1>3, <1>4

LEMMA NextIInv == IInv /\ [Next]_vars => IInv'
<1> SUFFICES ASSUME IInv, [Next]_vars PROVE IInv'
  OBVIOUS
<1> USE DEF IInv, Typing, TypeOK
<1>0. Typing'
  BY NextTyping
<1> DEFINE Rest == /\ LockIsHeld /\ PreviousDiffers /\ WritesPlanned
                   /\ OneInFlight /\ InFlightExcludes /\ AtMostOneDeployed
<1>1. ASSUME NEW v \in Versions, Evaluate(v) PROVE Rest'
  BY <1>1 DEF Evaluate, LockIsHeld, PreviousDiffers, WritesPlanned, Planned,
              HandsBack, OneInFlight, InFlightExcludes, InFlight,
              AtMostOneDeployed, Target
<1>2. ASSUME NEW r \in Requests, Arrive(r) PROVE Rest'
  <2>1. PICK op \in Operations, v \in Versions, env \in Environments :
            Arrives(r, op, v, env)
    BY <1>2, ArriveArrives
  <2>2. /\ previous[r] = None /\ pc[r] = "idle"
        /\ pc'[r] \in {"writing", "waiting"} /\ Target(r)' = v
    BY <2>1 DEF Arrives, PreviousDiffers, Target
  <2>3. \A q \in Requests \ {r} : pc'[q] = pc[q] /\ job'[q] = job[q]
    BY <2>1 DEF Arrives
  <2>4. LockIsHeld' /\ PreviousDiffers'
    BY <2>1, <2>2, <2>3, VersionsAssumption
       DEF Arrives, LockIsHeld, PreviousDiffers, Target, Locked
  <2>5. WritesPlanned'
    BY <2>1, <2>2, <2>3 DEF Arrives, WritesPlanned, Planned, HandsBack, InFlight, Target
  <2>6. OneInFlight' /\ InFlightExcludes' /\ AtMostOneDeployed'
    BY <2>1, <2>2, <2>3
       DEF Arrives, OneInFlight, InFlightExcludes, InFlight, AtMostOneDeployed, Target
  <2> QED BY <2>4, <2>5, <2>6
<1>3. ASSUME NEW r \in Requests, Write(r) PROVE Rest'
  <2>1. pc[r] = "writing" /\ gpuLock # r /\ End(r) /\ gpuLock' = gpuLock
    BY <1>3 DEF Write, LockIsHeld, Locked
  <2>2. \A u \in Versions : status'[u] = "DEPLOYED" => status[u] = "DEPLOYED"
    BY <1>3 DEF Write, DecidedStatus
  <2>3. \A q \in Requests \ {r} : pc'[q] = pc[q] /\ job'[q] = job[q]
                                  /\ previous'[q] = previous[q] /\ writes'[q] = writes[q]
    BY <2>1 DEF End, Goto
  <2>4. pc'[r] = "idle" /\ previous'[r] = None /\ writes'[r] = Untouched
    BY <2>1 DEF End, Goto
  <2>5. LockIsHeld' /\ PreviousDiffers'
    BY <2>1, <2>3, <2>4 DEF LockIsHeld, PreviousDiffers, Target, Locked
  <2>6. WritesPlanned'
    BY <2>3, <2>4 DEF WritesPlanned, Planned, HandsBack, InFlight, Target, Untouched
  <2>7. \A q \in Requests :
            InFlight(q)' => q # r /\ InFlight(q) /\ Target(q)' = Target(q)
    BY <2>3, <2>4 DEF InFlight, Target
  <2>8. OneInFlight'
    BY <2>7 DEF OneInFlight
  <2>9. InFlightExcludes'
    BY <2>2, <2>3, <2>7 DEF InFlightExcludes
  <2>10. AtMostOneDeployed'
    BY <2>2 DEF AtMostOneDeployed
  <2> QED BY <2>5, <2>6, <2>8, <2>9, <2>10
<1>4. ASSUME NEW r \in Requests,
             LockTimeout(r) \/ LoadFails(r) \/ SmokeFails(r) \/ Conflict(r) \/ Abort(r)
      PROVE  Rest'
  <2>1. End(r) /\ UNCHANGED status
    BY <1>4 DEF LockTimeout, LoadFails, AnswerLost, SmokeFails, Conflict, Abort
  <2>2. ReleaseGpu(r)
    BY <1>4 DEF LockTimeout, LoadFails, AnswerLost, SmokeFails, Conflict, Abort, ReleaseGpu,
                LockIsHeld, Locked
  <2> QED BY <1>0, <2>1, <2>2, EndKeepsIInv
<1>5. ASSUME NEW r \in Requests, Acquire(r) PROVE Rest'
  <2>1. pc[r] = "waiting" /\ pc' = [pc EXCEPT ![r] = "loading"]
        /\ gpuLock = None /\ gpuLock' = r /\ UNCHANGED <<status, job, writes>>
    BY <1>5 DEF Acquire, Goto
  <2>2. /\ \A q \in Requests \ {r} : previous'[q] = previous[q]
        /\ previous'[r] = None \/ previous'[r] \in Versions \ {Target(r)}
    BY <1>5 DEF Acquire, DeployedOthers, PreviousDiffers
  <2>3. LockIsHeld' /\ PreviousDiffers'
    BY <2>1, <2>2, RequestsAssumption, VersionsAssumption
       DEF LockIsHeld, PreviousDiffers, Target, Locked, JobFits, Jobs
  <2>4. WritesPlanned'
    BY <2>1, <2>2 DEF WritesPlanned, Planned, HandsBack, InFlight, Target
  <2>5. OneInFlight' /\ InFlightExcludes' /\ AtMostOneDeployed'
    BY <2>1, <2>2 DEF OneInFlight, InFlightExcludes, InFlight, AtMostOneDeployed, Target
  <2> QED BY <2>3, <2>4, <2>5
<1>6. ASSUME NEW r \in Requests, Load(r) \/ SmokePasses(r) PROVE Rest'
  <2>1. /\ UNCHANGED <<status, gpuLock, job, previous, writes>>
        /\ pc[r] \in {"loading", "smoke"}
        /\ \/ pc' = [pc EXCEPT ![r] = "smoke"]
           \/ previous[r] = None /\ pc' = [pc EXCEPT ![r] = "marking"]
           \/ previous[r] # None /\ pc' = [pc EXCEPT ![r] = "retiring"]
    BY <1>6 DEF Load, SmokePasses, Goto
  <2>2. LockIsHeld' /\ PreviousDiffers'
    BY <2>1 DEF LockIsHeld, PreviousDiffers, Target, Locked
  <2>3. WritesPlanned'
    BY <2>1, VersionsAssumption DEF WritesPlanned, Planned, HandsBack, InFlight, Target
  <2>4. OneInFlight' /\ InFlightExcludes' /\ AtMostOneDeployed'
    BY <2>1 DEF OneInFlight, InFlightExcludes, InFlight, AtMostOneDeployed, Target
  <2> QED BY <2>2, <2>3, <2>4
<1>7. ASSUME NEW r \in Requests, RetirePrevious(r) PROVE Rest'
  <2>1. /\ UNCHANGED <<status, gpuLock, job, previous>>
        /\ pc[r] = "retiring" /\ pc' = [pc EXCEPT ![r] = "marking"]
        /\ writes' = [writes EXCEPT ![r][previous[r]] = "RETIRED"]
    BY <1>7 DEF RetirePrevious, Goto, Flush
  <2>2. LockIsHeld' /\ PreviousDiffers'
    BY <2>1 DEF LockIsHeld, PreviousDiffers, Target, Locked
  <2>3. WritesPlanned'
    BY <2>1 DEF WritesPlanned, Planned, HandsBack, InFlight, Target, PreviousDiffers
  <2>4. OneInFlight' /\ InFlightExcludes' /\ AtMostOneDeployed'
    BY <2>1 DEF OneInFlight, InFlightExcludes, InFlight, AtMostOneDeployed, Target
  <2> QED BY <2>2, <2>3, <2>4
<1>8. ASSUME NEW r \in Requests, MarkDeployed(r) PROVE Rest'
  <2>1. /\ UNCHANGED <<status, job, previous>>
        /\ pc[r] = "marking"
        /\ pc' = [pc EXCEPT ![r] = IF job[r].op = "stage" THEN "restoring" ELSE "committing"]
        /\ writes' = [writes EXCEPT ![r][Target(r)] = "DEPLOYED"]
        /\ gpuLock = r /\ gpuLock' = None
        /\ IndexFree(r) /\ ~IndexConflict(r)
    BY <1>8 DEF MarkDeployed, Goto, Flush, ReleaseGpu, LockIsHeld, Locked
  <2>2. LockIsHeld' /\ PreviousDiffers'
    BY <2>1, RequestsAssumption DEF LockIsHeld, PreviousDiffers, Target, Locked
  <2>3. Target(r) \in Versions /\ Target(r) # previous[r]
    BY <2>1 DEF JobFits, Jobs, Target, PreviousDiffers
  <2>4. WritesPlanned'
    BY <2>1, <2>3 DEF WritesPlanned, Planned, HandsBack, InFlight, Target
  <2>5. OneInFlight'
    BY <2>1 DEF OneInFlight, InFlight, IndexFree
  <2>6. \A u \in Versions : u # Target(r) /\ status[u] = "DEPLOYED" => u = previous[r]
    BY <2>1 DEF IndexConflict, Seen, WritesPlanned, Planned, InFlight
  <2>7. InFlightExcludes'
    BY <2>1, <2>6 DEF InFlightExcludes, InFlight, Target
  <2> QED BY <2>1, <2>2, <2>4, <2>5, <2>7 DEF AtMostOneDeployed
<1>9. ASSUME NEW r \in Requests, RestorePrevious(r) PROVE Rest'
  <2>1. /\ UNCHANGED <<status, gpuLock, job, previous>>
        /\ pc[r] = "restoring" /\ pc' = [pc EXCEPT ![r] = "committing"]
        /\ writes' = [writes EXCEPT ![r] =
                        [v \in Versions |->
                            IF v = Target(r) THEN "STAGING"
                            ELSE IF v = previous[r] THEN "DEPLOYED"
                            ELSE @[v]]]
    BY <1>9 DEF RestorePrevious, Goto
  <2>2. LockIsHeld' /\ PreviousDiffers'
    BY <2>1 DEF LockIsHeld, PreviousDiffers, Target, Locked
  <2>3. WritesPlanned'
    <3> SUFFICES ASSUME NEW q \in Requests, NEW u \in Versions
                 PROVE  writes'[q][u] = Planned(q, u)'
      BY DEF WritesPlanned
    <3>1. CASE q # r
      BY <2>1, <3>1 DEF WritesPlanned, Planned, HandsBack, InFlight, Target
    <3>2. CASE q = r
      <4>1. job[r].op = "stage" /\ Target(r) # previous[r]
        BY <2>1 DEF JobFits, PreviousDiffers
      <4> QED BY <2>1, <3>2, <4>1 DEF WritesPlanned, Planned, HandsBack, InFlight, Target
    <3> QED BY <3>1, <3>2
  <2>4. OneInFlight' /\ InFlightExcludes' /\ AtMostOneDeployed'
    BY <2>1 DEF OneInFlight, InFlightExcludes, InFlight, AtMostOneDeployed, Target
  <2> QED BY <2>2, <2>3, <2>4
<1>10. ASSUME NEW r \in Requests, Commit(r) PROVE Rest'
  <2>1. pc[r] = "committing" /\ End(r) /\ gpuLock' = gpuLock /\ gpuLock # r
    BY <1>10 DEF Commit, LockIsHeld, Locked
  <2>2. \A q \in Requests \ {r} : ~InFlight(q) /\ pc'[q] = pc[q] /\ job'[q] = job[q]
                                  /\ previous'[q] = previous[q] /\ writes'[q] = writes[q]
    BY <2>1 DEF End, Goto, OneInFlight, InFlight
  <2>3. pc'[r] = "idle" /\ previous'[r] = None /\ writes'[r] = Untouched
    BY <2>1 DEF End, Goto
  <2>4. LockIsHeld' /\ PreviousDiffers'
    BY <2>1, <2>2, <2>3 DEF LockIsHeld, PreviousDiffers, Target, Locked
  <2>5. WritesPlanned'
    BY <2>2, <2>3 DEF WritesPlanned, Planned, HandsBack, InFlight, Target, Untouched
  <2>6. OneInFlight' /\ InFlightExcludes'
    BY <2>2, <2>3 DEF OneInFlight, InFlightExcludes, InFlight
  <2>7. \A u \in Versions : status'[u] = "DEPLOYED" =>
            u = IF HandsBack(r) THEN previous[r] ELSE Target(r)
    <3> SUFFICES ASSUME NEW u \in Versions, status'[u] = "DEPLOYED"
                 PROVE  u = IF HandsBack(r) THEN previous[r] ELSE Target(r)
      OBVIOUS
    <3>1. status'[u] = IF Planned(r, u) = None THEN status[u] ELSE Planned(r, u)
      BY <1>10 DEF Commit, Merged, Seen, WritesPlanned
    <3>2. CASE u = previous[r] \/ u = Target(r)
      BY <2>1, <3>1, <3>2, StatusAssumption DEF Planned, InFlight, Status
    <3>3. CASE u # previous[r] /\ u # Target(r)
      BY <2>1, <3>1, <3>3 DEF Planned, InFlight, InFlightExcludes
    <3> QED BY <3>2, <3>3
  <2>8. AtMostOneDeployed'
    BY <2>7 DEF AtMostOneDeployed
  <2> QED BY <2>4, <2>5, <2>6, <2>8
<1>11. CASE UNCHANGED vars
  <2>1. LockIsHeld' /\ PreviousDiffers' /\ OneInFlight'
        /\ InFlightExcludes' /\ AtMostOneDeployed'
    BY <1>11 DEF vars, LockIsHeld, PreviousDiffers, OneInFlight,
                 InFlightExcludes, InFlight, AtMostOneDeployed, Target
  <2>2. WritesPlanned'
    BY <1>11 DEF vars, WritesPlanned, Planned, HandsBack, InFlight, Target
  <2> QED BY <1>0, <2>1, <2>2
<1> QED
  <2>1. Rest'
    BY <1>1, <1>2, <1>3, <1>4, <1>5, <1>6, <1>7, <1>8, <1>9, <1>10, <1>11
       DEF Next, Progress
  <2> QED BY <1>0, <2>1

(* Two versions of a model are never DEPLOYED at the same time.            *)
THEOREM OneDeployed == Spec => []AtMostOneDeployed
<1>1. IInv => AtMostOneDeployed
  BY DEF IInv
<1> QED BY InitIInv, NextIInv, <1>1, PTL DEF Spec

(* A request that has flushed a row is past the retirement of the previous *)
(* version.                                                                *)
LEMMA WritersAreLate ==
    ASSUME IInv, NEW q \in Requests, NEW v \in Versions, writes[q][v] # None
    PROVE  pc[q] = "marking" \/ InFlight(q)
BY DEF IInv, WritesPlanned, Planned, InFlight

(* For any number of requests, faults or not, no request waits for one     *)
(* that waits for it, directly or through others: who waits for the GPU    *)
(* lock or for a row waits for a request that is further on with them      *)
(* (gpu_lock, _deploy_locked).                                             *)
THEOREM WaitsAreAcyclic == Spec => []WaitsGoUp
<1>1. IInv => WaitsGoUp
  <2> SUFFICES ASSUME IInv, NEW q \in Requests, NEW r \in Requests, q # r, Blocks(q, r)
               PROVE  LockRank(r) < LockRank(q)
    BY DEF WaitsGoUp
  <2>1. Typing /\ LockIsHeld /\ PreviousDiffers
    BY DEF IInv
  <2>2. ASSUME NEW v \in Versions, writes[q][v] # None, pc[q] # "marking"
        PROVE  LockRank(q) = 2
    <3>1. InFlight(q)
      BY <2>2, WritersAreLate
    <3> QED BY <3>1 DEF LockRank, InFlight
  <2>3. pc[r] \in Locked => pc[q] \notin Locked
    BY <2>1 DEF LockIsHeld
  <2>4. pc[r] \in Locked => LockRank(r) = 1
    <3>1. pc[r] \in Locked => pc[r] \notin {"idle", "writing", "waiting"} /\ ~InFlight(r)
      BY DEF Locked, InFlight
    <3> QED BY <3>1 DEF LockRank
  <2>5. pc[r] \in {"writing", "waiting"} => LockRank(r) = 0
    BY DEF LockRank, InFlight
  <2>6. pc[r] # "idle" => Target(r) \in Versions
    BY <2>1 DEF Typing, TypeOK, JobFits, Jobs, Target
  <2>7. CASE pc[r] = "waiting" /\ gpuLock = q
    <3>1. pc[q] \in Locked
      BY <2>1, <2>7 DEF LockIsHeld
    <3>2. LockRank(q) = 1
      BY <3>1 DEF Locked, LockRank, InFlight
    <3> QED BY <2>5, <2>7, <3>2
  <2>8. CASE pc[r] = "retiring" /\ writes[q][previous[r]] # None
    <3>1. previous[r] \in Versions
      BY <2>1, <2>8 DEF Typing, TypeOK, PreviousDiffers
    <3>2. pc[r] \in Locked /\ pc[q] # "marking"
      BY <2>3, <2>8 DEF Locked
    <3> QED BY <2>2, <2>4, <2>8, <3>1, <3>2
  <2>9. CASE pc[r] = "writing" /\ writes[q][Target(r)] # None
    <3>1. pc[q] = "marking" \/ InFlight(q)
      BY <2>6, <2>9, WritersAreLate
    <3>2. LockRank(q) \in {1, 2}
      BY <3>1 DEF LockRank, InFlight
    <3> QED BY <2>5, <2>9, <3>2
  <2>10. CASE pc[r] = "marking" /\ writes[q][Target(r)] # None
    <3>1. pc[r] \in Locked /\ pc[q] # "marking"
      BY <2>3, <2>10 DEF Locked
    <3> QED BY <2>2, <2>4, <2>6, <2>10, <3>1
  <2>11. CASE pc[r] = "marking" /\ InFlight(q)
    <3>1. LockRank(q) = 2
      BY <2>11 DEF LockRank, InFlight
    <3> QED BY <2>4, <2>11, <3>1 DEF Locked
  <2> QED BY <2>7, <2>8, <2>9, <2>10, <2>11 DEF Blocks
<1> QED BY InitIInv, NextIInv, <1>1, PTL DEF Spec

-----------------------------------------------------------------------------
(* The history.  A request keeps a version to supersede, or a staged       *)
(* version to validate, only if the history already has the row of it.     *)
Recorded(v) == \E row \in deployments : row.version = v

StagingRecorded(v) == [version |-> v, env |-> "staging"] \in deployments

HInv ==
    /\ HistoryBacksPointer
    /\ \A r \in Requests : previous[r] # None => Recorded(previous[r])
    /\ \A r \in Requests :
           pc[r] = "writing" /\ job[r].op = "validate" => StagingRecorded(Target(r))

LEMMA InitHInv == Init => HInv
  BY DEF Init, HInv, HistoryBacksPointer

(* Rows are never deleted, so a step that leaves the statuses alone and    *)
(* gives no request a new version to supersede or to validate is harmless. *)
LEMMA QuietKeepsHInv ==
    ASSUME HInv, UNCHANGED <<status, deployments>>,
           \A r \in Requests : previous'[r] \in {previous[r], None},
           \A r \in Requests : pc'[r] = "writing" => pc[r] = "writing" /\ job'[r] = job[r]
    PROVE  HInv'
  BY DEF HInv, HistoryBacksPointer, Recorded, StagingRecorded, Target

LEMMA NextHInv == IInv /\ HInv /\ [Next]_vars => HInv'
<1> SUFFICES ASSUME IInv, HInv, [Next]_vars PROVE HInv'
  OBVIOUS
<1> USE DEF IInv, Typing, TypeOK
<1>1. ASSUME NEW v \in Versions, Evaluate(v) PROVE HInv'
  BY <1>1 DEF Evaluate, HInv, HistoryBacksPointer, Recorded, StagingRecorded, Target
<1>2. ASSUME NEW r \in Requests, Arrive(r) PROVE HInv'
  <2>1. PICK op \in Operations, v \in Versions, env \in Environments :
            Arrives(r, op, v, env)
    BY <1>2, ArriveArrives
  <2>2. op = "validate" => StagingRecorded(v)
    BY <2>1 DEF Arrives, HInv, HistoryBacksPointer, StagingRecorded
  <2>3. /\ job'[r].op = op /\ Target(r)' = v
        /\ \A q \in Requests \ {r} : pc'[q] = pc[q] /\ job'[q] = job[q]
    BY <2>1 DEF Arrives, Target
  <2> QED BY <2>1, <2>2, <2>3
          DEF Arrives, HInv, HistoryBacksPointer, Recorded, StagingRecorded, Target
<1>3. ASSUME NEW r \in Requests, Write(r) PROVE HInv'
  <2>1. /\ status' = [status EXCEPT ![Target(r)] = DecidedStatus(job[r].op)]
        /\ deployments' = deployments /\ End(r) /\ pc[r] = "writing"
    BY <1>3 DEF Write
  <2>2. \/ DecidedStatus(job[r].op) \in {"PROMOTED", "REJECTED"}
        \/ DecidedStatus(job[r].op) = "VALIDATED" /\ StagingRecorded(Target(r))
    <3>1. job[r].op \in Decisions /\ (job[r].op = "validate" => StagingRecorded(Target(r)))
      BY <2>1 DEF JobFits, HInv
    <3>2. CASE job[r].op = "validate"
      BY <3>1, <3>2 DEF DecidedStatus
    <3>3. job[r].op = "promote" => DecidedStatus(job[r].op) = "PROMOTED"
      BY DEF DecidedStatus
    <3>4. job[r].op = "reject" => DecidedStatus(job[r].op) = "REJECTED"
      BY DEF DecidedStatus
    <3> QED BY <3>1, <3>2, <3>3, <3>4 DEF Decisions
  <2>3. HistoryBacksPointer'
    BY <2>1, <2>2 DEF HInv, HistoryBacksPointer, StagingRecorded
  <2> QED BY <2>1, <2>3 DEF End, Goto, HInv, Recorded, StagingRecorded, Target
<1>4. ASSUME NEW r \in Requests,
             LockTimeout(r) \/ LoadFails(r) \/ SmokeFails(r) \/ Conflict(r) \/ Abort(r)
      PROVE  HInv'
  <2>1. End(r) /\ UNCHANGED <<status, deployments>>
    BY <1>4 DEF LockTimeout, LoadFails, AnswerLost, SmokeFails, Conflict, Abort
  <2> QED BY <2>1, QuietKeepsHInv DEF End, Goto
<1>5. ASSUME NEW r \in Requests, Acquire(r) PROVE HInv'
  <2>1. /\ UNCHANGED <<status, deployments, job>> /\ pc' = [pc EXCEPT ![r] = "loading"]
        /\ \A q \in Requests \ {r} : previous'[q] = previous[q]
    BY <1>5 DEF Acquire, Goto
  <2>2. previous'[r] # None => Recorded(previous'[r])
    BY <1>5 DEF Acquire, DeployedOthers, HInv, HistoryBacksPointer, Recorded
  <2> QED BY <2>1, <2>2 DEF HInv, HistoryBacksPointer, Recorded, StagingRecorded, Target
<1>6. ASSUME NEW r \in Requests,
             Load(r) \/ SmokePasses(r) \/ RetirePrevious(r) \/ MarkDeployed(r)
             \/ RestorePrevious(r)
      PROVE  HInv'
  <2>1. UNCHANGED <<status, deployments, job, previous>>
    BY <1>6 DEF Load, SmokePasses, RetirePrevious, MarkDeployed, RestorePrevious
  <2>2. \A q \in Requests : pc'[q] = "writing" => pc[q] = "writing"
    BY <1>6 DEF Load, SmokePasses, RetirePrevious, MarkDeployed, RestorePrevious, Goto
  <2> QED BY <2>1, <2>2, QuietKeepsHInv
<1>7. ASSUME NEW r \in Requests, Commit(r) PROVE HInv'
  <2>1. /\ pc[r] = "committing" /\ End(r)
        /\ deployments' = deployments \cup {[version |-> Target(r), env |-> job[r].env]}
    BY <1>7 DEF Commit
  <2>2. \A v \in Versions :
            status'[v] = IF Planned(r, v) = None THEN status[v] ELSE Planned(r, v)
    BY <1>7 DEF Commit, Merged, Seen, WritesPlanned
  <2>3. (\E row \in deployments' : row.version = Target(r))
        /\ (HandsBack(r) => [version |-> Target(r), env |-> "staging"] \in deployments')
    BY <2>1 DEF HandsBack, JobFits
  <2>4. ASSUME NEW v \in Versions
        PROVE  /\ status'[v] \in {"DEPLOYED", "RETIRED"} =>
                     \E row \in deployments' : row.version = v
               /\ status'[v] \in {"STAGING", "VALIDATED"} =>
                     [version |-> v, env |-> "staging"] \in deployments'
    <3>1. CASE v = previous[r]
      BY <2>1, <2>2, <3>1, VersionsAssumption, StatusAssumption
         DEF Planned, HInv, Recorded, Status
    <3>2. CASE v # previous[r] /\ v = Target(r)
      BY <2>1, <2>2, <2>3, <3>2, StatusAssumption DEF Planned, InFlight, Status
    <3>3. CASE v # previous[r] /\ v # Target(r)
      BY <2>1, <2>2, <3>3 DEF Planned, HInv, HistoryBacksPointer
    <3> QED BY <3>1, <3>2, <3>3
  <2> QED BY <2>1, <2>4 DEF End, Goto, HInv, HistoryBacksPointer, Recorded, StagingRecorded, Target
<1>8. CASE UNCHANGED vars
  BY <1>8, QuietKeepsHInv DEF vars
<1> QED BY <1>1, <1>2, <1>3, <1>4, <1>5, <1>6, <1>7, <1>8 DEF Next, Progress

(* The history explains every production and ladder status.                *)
THEOREM HistoryBacked == Spec => []HistoryBacksPointer
<1>1. HInv => HistoryBacksPointer
  BY DEF HInv
<1> QED BY InitIInv, NextIInv, InitHInv, NextHInv, <1>1, PTL DEF Spec

-----------------------------------------------------------------------------
(* Two consequences of the invariant: the pointer only moves onto resident *)
(* adapters, and Registry implements PointerHistory.                       *)
(* A request that holds the GPU lock threatens the move in flight of       *)
(* another when one of its next steps may unload the adapter of that move: *)
(* the version it supersedes, or the one it has loaded itself.             *)
Threatens(q, r) ==
    \/ pc[q] \in Locked /\ previous[q] = Target(r)
    \/ pc[q] \in Locked \ {"loading"} /\ Target(q) = Target(r) /\ Host(q) = Host(r)

Resident(r) == Target(r) \in loaded[Host(r)]

\* The move in flight has its adapter in the server, and no other request
\* can take it out, unless the pointer already was on the version.
LInv ==
    /\ \A r \in Requests : pc[r] \in {"retiring", "marking"} => Resident(r)
    /\ \A r \in Requests :
           InFlight(r) /\ status[Target(r)] # "DEPLOYED" => Resident(r)
    /\ \A q, r \in Requests :
           InFlight(r) /\ Threatens(q, r) => status[Target(r)] = "DEPLOYED"

(* The row of a move in flight is locked: its status does not change.      *)
LEMMA RowLocked ==
    ASSUME IInv, [Next]_vars, NEW r \in Requests, InFlight(r), InFlight(r)'
    PROVE  /\ status'[Target(r)] = status[Target(r)]
           /\ job'[r] = job[r]
<1> USE DEF IInv, Typing, TypeOK
<1>1. writes[r][Target(r)] # None /\ Target(r) \in Versions
  BY ZenonT(30), StatusAssumption
     DEF WritesPlanned, Planned, InFlight, JobFits, Jobs, Target, Status
<1>2. ASSUME NEW v \in Versions, Evaluate(v)
      PROVE  status'[Target(r)] = status[Target(r)] /\ job'[r] = job[r]
  BY <1>1, <1>2 DEF Evaluate
<1>3. ASSUME NEW q \in Requests, Arrive(q)
      PROVE  status'[Target(r)] = status[Target(r)] /\ job'[r] = job[r]
  BY <1>3, ArriveArrives DEF Arrives, InFlight
<1>4. ASSUME NEW q \in Requests, Write(q)
      PROVE  status'[Target(r)] = status[Target(r)] /\ job'[r] = job[r]
  <2>1. q # r
    BY <1>4 DEF Write, InFlight
  <2>2. Target(q) # Target(r)
    BY <1>1, <1>4, <2>1 DEF Write, RowFree
  <2> QED BY <1>4, <2>1, <2>2 DEF Write, End
<1>5. ASSUME NEW q \in Requests, Commit(q)
      PROVE  FALSE
  BY <1>5 DEF Commit, End, Goto, InFlight, OneInFlight
<1>6. ASSUME NEW q \in Requests, Progress(q) \/ Abort(q), ~Commit(q)
      PROVE  status'[Target(r)] = status[Target(r)] /\ job'[r] = job[r]
  BY <1>6 DEF Progress, LockTimeout, Acquire, Load, LoadFails, AnswerLost, SmokeFails,
              SmokePasses, RetirePrevious, MarkDeployed, Conflict,
              RestorePrevious, Abort, End, Goto, InFlight
<1>7. CASE UNCHANGED vars
  BY <1>7 DEF vars
<1> QED BY <1>2, <1>3, <1>4, <1>5, <1>6, <1>7 DEF Next

LEMMA InitLInv == Init => LInv
  BY DEF Init, LInv, InFlight

(* A step is harmless when it unloads nothing and brings no request nearer *)
(* to an unload or to a commit.                                            *)
LEMMA QuietKeepsLInv ==
    ASSUME IInv, LInv, [Next]_vars,
           \A h \in Hosts : loaded[h] \subseteq loaded'[h],
           \A q \in Requests : pc'[q] \in Locked =>
               /\ pc[q] \in Locked /\ job'[q] = job[q] /\ previous'[q] = previous[q]
               /\ pc'[q] # "loading" => pc[q] # "loading",
           \A q \in Requests : pc'[q] \in {"retiring", "marking"} =>
               pc[q] \in {"retiring", "marking"},
           \A q \in Requests : InFlight(q)' => InFlight(q)
    PROVE  LInv'
<1> USE DEF IInv, Typing, TypeOK
<1>1. \A q \in Requests : pc[q] \notin {"idle", "writing"} => Host(q) \in Hosts
  BY HostsAssumption DEF JobFits, Jobs, Host
<1>2. \A r \in Requests : InFlight(r)' =>
          /\ InFlight(r) /\ Target(r)' = Target(r) /\ Host(r)' = Host(r)
          /\ status'[Target(r)] = status[Target(r)]
  BY RowLocked DEF Target, Host
<1>3. ASSUME NEW r \in Requests, pc'[r] \in {"retiring", "marking"}
      PROVE  Resident(r)'
  BY <1>1, <1>3 DEF LInv, Resident, Target, Host, Locked
<1>4. ASSUME NEW r \in Requests, InFlight(r)', status'[Target(r)'] # "DEPLOYED"
      PROVE  Resident(r)'
  BY <1>1, <1>2, <1>4 DEF LInv, Resident, InFlight
<1>5. ASSUME NEW q \in Requests, NEW r \in Requests, InFlight(r)', Threatens(q, r)'
      PROVE  status'[Target(r)'] = "DEPLOYED"
  <2>1. Threatens(q, r)
    BY <1>2, <1>5 DEF Threatens, Target, Host, Locked
  <2> QED BY <1>2, <1>5, <2>1 DEF LInv
<1> QED BY <1>3, <1>4, <1>5 DEF LInv

(* unload takes at most one adapter out of one server.                     *)
LEMMA UnloadTakesOne ==
    ASSUME TypeOK, NEW h \in Hosts, NEW v \in Versions, Unload(h, v, loaded)
    PROVE  \A g \in Hosts, u \in Versions :
               u \in loaded[g] /\ ~(g = h /\ u = v) => u \in loaded'[g]
  BY DEF Unload, TypeOK

LEMMA NextLInv == IInv /\ LInv /\ [Next]_vars => LInv'
<1> SUFFICES ASSUME IInv, LInv, [Next]_vars PROVE LInv'
  OBVIOUS
<1> USE DEF IInv, Typing, TypeOK
<1>0. \A r \in Requests : pc[r] \notin {"idle", "writing"} =>
          job[r] \in Jobs /\ Target(r) \in Versions /\ Host(r) \in Hosts
  BY HostsAssumption DEF JobFits, Jobs, Target, Host
<1>r. \A r \in Requests : InFlight(r) /\ InFlight(r)' =>
          /\ Target(r)' = Target(r) /\ Host(r)' = Host(r)
          /\ status'[Target(r)] = status[Target(r)]
  BY RowLocked DEF Target, Host
<1>1. ASSUME NEW v \in Versions, Evaluate(v) PROVE LInv'
  BY <1>1, QuietKeepsLInv DEF Evaluate, InFlight
<1>2. ASSUME NEW r \in Requests, Arrive(r) PROVE LInv'
  <2>1. PICK op \in Operations, v \in Versions, env \in Environments :
            Arrives(r, op, v, env)
    BY <1>2, ArriveArrives
  <2> QED BY <2>1, QuietKeepsLInv DEF Arrives, InFlight, Locked
<1>3. ASSUME NEW r \in Requests,
             Write(r) \/ LockTimeout(r) \/ Abort(r) \/ Commit(r)
      PROVE  LInv'
  <2>1. End(r) /\ UNCHANGED loaded
    BY <1>3 DEF Write, LockTimeout, Abort, Commit
  <2> QED BY <2>1, QuietKeepsLInv DEF End, Goto, InFlight, Locked
<1>4. ASSUME NEW r \in Requests, LoadFails(r) PROVE LInv'
  <2>1. End(r) /\ \A h \in Hosts : loaded[h] \subseteq loaded'[h]
    BY <1>0, <1>4 DEF LoadFails, AnswerLost
  <2> QED BY <2>1, QuietKeepsLInv DEF End, Goto, InFlight, Locked
<1>5. ASSUME NEW r \in Requests, RetirePrevious(r) \/ RestorePrevious(r)
      PROVE  LInv'
  <2>1. UNCHANGED <<loaded, job, previous>>
    BY <1>5 DEF RetirePrevious, RestorePrevious
  <2> QED BY <1>5, <2>1, QuietKeepsLInv
          DEF RetirePrevious, RestorePrevious, Goto, InFlight, Locked
<1>6. ASSUME NEW r \in Requests, Acquire(r) PROVE LInv'
  <2>1. /\ UNCHANGED <<status, loaded, job>>
        /\ pc[r] = "waiting" /\ pc' = [pc EXCEPT ![r] = "loading"]
        /\ \A q \in Requests \ {r} : previous'[q] = previous[q]
    BY <1>6 DEF Acquire, Goto
  <2>2. previous'[r] # None => status[previous'[r]] = "DEPLOYED"
    BY <1>6 DEF Acquire, DeployedOthers, PreviousDiffers
  <2>3. \A q \in Requests : InFlight(q)' => InFlight(q) /\ Target(q) # None
    BY <1>0, <2>1, VersionsAssumption DEF InFlight
  <2>4. \A q \in Requests : pc'[q] \in {"retiring", "marking"} => Resident(q)'
    BY <2>1 DEF LInv, Resident, Target, Host
  <2>5. \A q \in Requests :
            InFlight(q)' /\ status'[Target(q)'] # "DEPLOYED" => Resident(q)'
    BY <2>1 DEF LInv, Resident, Target, Host, InFlight
  <2>6. ASSUME NEW q \in Requests, NEW p \in Requests, InFlight(p)', Threatens(q, p)'
        PROVE  status'[Target(p)'] = "DEPLOYED"
    <3>1. CASE q = r
      BY <2>1, <2>2, <2>3, <2>6, <3>1 DEF Threatens, Target
    <3>2. CASE q # r
      <4>1. Threatens(q, p)
        BY <2>1, <2>6, <3>2 DEF Threatens, Target, Host
      <4> QED BY <2>1, <2>3, <2>6, <4>1 DEF LInv, Target
    <3> QED BY <3>1, <3>2
  <2> QED BY <2>4, <2>5, <2>6 DEF LInv
<1>7. ASSUME NEW r \in Requests, Load(r) PROVE LInv'
  <2>1. /\ UNCHANGED <<status, job, previous>>
        /\ pc[r] = "loading" /\ pc' = [pc EXCEPT ![r] = "smoke"]
        /\ \A h \in Hosts : loaded[h] \subseteq loaded'[h]
    BY <1>0, <1>7 DEF Load, Goto
  <2>2. \A q \in Requests : pc'[q] \in {"retiring", "marking"} => Resident(q)'
    BY <1>0, <2>1 DEF LInv, Resident, Target, Host
  <2>3. \A q \in Requests :
            InFlight(q)' /\ status'[Target(q)'] # "DEPLOYED" => Resident(q)'
    BY <1>0, <2>1 DEF LInv, Resident, Target, Host, InFlight
  <2>4. ASSUME NEW q \in Requests, NEW p \in Requests, InFlight(p)', Threatens(q, p)'
        PROVE  status'[Target(p)'] = "DEPLOYED"
    <3>1. InFlight(p) /\ Target(p)' = Target(p) /\ Host(p)' = Host(p)
      BY <2>1, <2>4 DEF InFlight, Target, Host
    <3>2. CASE Threatens(q, p)
      BY <2>1, <3>1, <3>2 DEF LInv
    <3>3. CASE ~Threatens(q, p)
      <4>1. q = r /\ Target(r) = Target(p) /\ Host(r) = Host(p)
        BY <2>1, <2>4, <3>1, <3>3 DEF Threatens, Target, Host, Locked
      <4>2. ~Resident(p)
        BY <1>7, <4>1 DEF Load, Resident
      <4> QED BY <2>1, <3>1, <4>2 DEF LInv
    <3> QED BY <3>2, <3>3
  <2> QED BY <2>2, <2>3, <2>4 DEF LInv
<1>8. ASSUME NEW r \in Requests, SmokePasses(r) PROVE LInv'
  <2>1. /\ UNCHANGED <<status, job, previous>>
        /\ pc[r] = "smoke"
        /\ \/ pc' = [pc EXCEPT ![r] = "marking"]
           \/ pc' = [pc EXCEPT ![r] = "retiring"]
    BY <1>8 DEF SmokePasses, Goto
  <2>2. \A q \in Requests : pc[q] \in Locked => q = r
    BY <2>1 DEF LockIsHeld, Locked
  <2>3. \A g \in Hosts, u \in Versions :
            u \in loaded[g] /\ ~(g = Host(r) /\ u = previous[r]) => u \in loaded'[g]
    BY <1>0, <1>8, UnloadTakesOne DEF SmokePasses
  <2>4. ASSUME NEW q \in Requests, pc'[q] \in {"retiring", "marking"}
        PROVE  Resident(q)'
    <3>1. q = r
      BY <2>1, <2>2, <2>4 DEF Locked
    <3>2. Target(r) \in loaded[Host(r)] /\ Target(r) # previous[r]
      BY <1>8 DEF SmokePasses, PreviousDiffers
    <3>3. Target(r) \in loaded'[Host(r)]
      BY <1>0, <2>1, <2>3, <3>2
    <3> QED BY <2>1, <3>1, <3>3 DEF Resident, Target, Host
  <2>5. ASSUME NEW q \in Requests, InFlight(q)', status'[Target(q)'] # "DEPLOYED"
        PROVE  Resident(q)'
    <3>1. /\ InFlight(q) /\ Target(q)' = Target(q) /\ Host(q)' = Host(q)
          /\ status[Target(q)] # "DEPLOYED"
      BY <2>1, <2>5 DEF InFlight, Target, Host
    <3>2. ~Threatens(r, q) /\ Target(q) \in loaded[Host(q)]
      BY <3>1 DEF LInv, Resident
    <3>3. Target(q) # previous[r]
      BY <2>1, <3>2 DEF Threatens, Locked
    <3>4. Target(q) \in loaded'[Host(q)]
      BY <1>0, <2>3, <3>1, <3>2, <3>3 DEF InFlight
    <3> QED BY <3>1, <3>4 DEF Resident
  <2>6. \A q, p \in Requests :
            InFlight(p)' /\ Threatens(q, p)' => status'[Target(p)'] = "DEPLOYED"
    BY SMTT(30), <2>1 DEF LInv, Threatens, InFlight, Target, Host, Locked
  <2> QED BY <2>4, <2>5, <2>6 DEF LInv
<1>9. ASSUME NEW r \in Requests, SmokeFails(r) \/ Conflict(r) PROVE LInv'
  <2>1. /\ UNCHANGED status /\ End(r)
        /\ pc[r] \in {"smoke", "marking"}
    BY <1>9 DEF SmokeFails, Conflict
  <2>2. \A q \in Requests : pc'[q] \notin Locked
    BY <2>1 DEF LockIsHeld, Locked, End, Goto
  <2>3. \A g \in Hosts, u \in Versions :
            u \in loaded[g] /\ ~(g = Host(r) /\ u = Target(r)) => u \in loaded'[g]
    BY <1>0, <1>9, <2>1, UnloadTakesOne DEF SmokeFails, Conflict
  <2>4. ASSUME NEW q \in Requests, InFlight(q)', status'[Target(q)'] # "DEPLOYED"
        PROVE  Resident(q)'
    <3>1. /\ InFlight(q) /\ Target(q)' = Target(q) /\ Host(q)' = Host(q)
          /\ status[Target(q)] # "DEPLOYED"
      BY <2>1, <2>4 DEF InFlight, End, Goto, Target, Host
    <3>2. ~Threatens(r, q) /\ Target(q) \in loaded[Host(q)]
      BY <3>1 DEF LInv, Resident
    <3>3. ~(Host(q) = Host(r) /\ Target(q) = Target(r))
      BY <2>1, <3>2 DEF Threatens, Locked
    <3>4. Target(q) \in loaded'[Host(q)]
      BY <1>0, <2>3, <3>1, <3>2, <3>3 DEF InFlight
    <3> QED BY <3>1, <3>4 DEF Resident
  <2> QED BY <2>2, <2>4 DEF LInv, Threatens, Locked
<1>10. ASSUME NEW r \in Requests, MarkDeployed(r) PROVE LInv'
  <2>1. /\ UNCHANGED <<status, loaded, job, previous>>
        /\ pc[r] = "marking" /\ IndexFree(r)
        /\ \/ pc' = [pc EXCEPT ![r] = "restoring"]
           \/ pc' = [pc EXCEPT ![r] = "committing"]
    BY <1>10 DEF MarkDeployed, Goto
  <2>2. \A q \in Requests : pc'[q] \notin Locked
    BY <2>1 DEF LockIsHeld, Locked
  <2>3. \A q \in Requests : InFlight(q)' => q = r
    BY <2>1 DEF InFlight, IndexFree
  <2>4. Resident(r)'
    BY <2>1 DEF LInv, Resident, Target, Host
  <2> QED BY <2>2, <2>3, <2>4 DEF LInv, Threatens, Locked
<1>11. CASE UNCHANGED vars
  BY <1>11, QuietKeepsLInv DEF vars, InFlight, Locked
<1> QED
  BY <1>1, <1>2, <1>3, <1>4, <1>5, <1>6, <1>7, <1>8, <1>9, <1>10, <1>11
     DEF Next, Progress

(* The pointer moves only onto an adapter that its server holds.           *)
THEOREM PointerMovesResident == Spec => PointerMovesOntoLoadedAdapter
<1>1. LInv => [\A r \in Requests : MovesPointer(r) => Target(r) \in loaded[Host(r)]]_vars
  BY DEF LInv, MovesPointer, InFlight, Resident
<1> QED BY InitIInv, NextIInv, InitLInv, NextLInv, <1>1, PTL
        DEF Spec, PointerMovesOntoLoadedAdapter

-----------------------------------------------------------------------------
(* The pointer that a status column shows.                                 *)
PointerOf(s) ==
    IF \E v \in Versions : s[v] = "DEPLOYED"
      THEN CHOOSE v \in Versions : s[v] = "DEPLOYED"
      ELSE None

(* It is the DEPLOYED version, or None when there is none.                 *)
LEMMA PointerOfIs ==
    ASSUME NEW s,
           \A u, v \in Versions : s[u] = "DEPLOYED" /\ s[v] = "DEPLOYED" => u = v
    PROVE  /\ \A v \in Versions : s[v] = "DEPLOYED" => PointerOf(s) = v
           /\ (\A v \in Versions : s[v] # "DEPLOYED") => PointerOf(s) = None
           /\ PointerOf(s) # None =>
                  PointerOf(s) \in Versions /\ s[PointerOf(s)] = "DEPLOYED"
<1>1. ASSUME NEW v \in Versions, s[v] = "DEPLOYED" PROVE PointerOf(s) = v
  <2>1. PointerOf(s) = CHOOSE u \in Versions : s[u] = "DEPLOYED"
    BY <1>1 DEF PointerOf
  <2>2. PointerOf(s) \in Versions /\ s[PointerOf(s)] = "DEPLOYED"
    BY <1>1, <2>1
  <2> QED BY <1>1, <2>2
<1>2. (\A v \in Versions : s[v] # "DEPLOYED") => PointerOf(s) = None
  BY DEF PointerOf
<1> QED BY <1>1, <1>2

LEMMA DeployedVersionIsPointer ==
    DeployedVersion = PointerOf(status) /\ DeployedVersion' = PointerOf(status')
  BY DEF DeployedVersion, PointerOf

(* The versions under decision are those of the requests that write.       *)
LEMMA UndecidedKept ==
    ASSUME NEW r \in Requests, pc[r] # "writing", pc'[r] # "writing",
           \A q \in Requests \ {r} : pc'[q] = pc[q] /\ job'[q] = job[q]
    PROVE  Undecided' = Undecided
  BY DEF Undecided, Target

LEMMA UndecidedEnds ==
    ASSUME NEW r \in Requests, pc[r] = "writing", Target(r) \in Versions, pc'[r] # "writing",
           \A q \in Requests \ {r} : pc'[q] = pc[q] /\ job'[q] = job[q]
    PROVE  Pointer!EndDecision(Target(r))
<1> DEFINE v == Target(r)
<1>1. v \in Undecided
  BY DEF Undecided
<1>2. \A u \in Versions \ {v} : u \in Undecided' <=> u \in Undecided
  BY DEF Undecided, Target
<1>3. Undecided' \subseteq Versions /\ Undecided \subseteq Versions
  BY DEF Undecided
<1>4. CASE v \in Undecided'
  <2>1. Undecided' = Undecided
    BY <1>1, <1>2, <1>3, <1>4
  <2> QED BY <1>1, <2>1 DEF Pointer!EndDecision
<1>5. CASE v \notin Undecided'
  <2>1. Undecided' = Undecided \ {v}
    BY <1>1, <1>2, <1>3, <1>5
  <2> QED BY <1>1, <2>1 DEF Pointer!EndDecision
<1> QED BY <1>4, <1>5

(* The others stand still, and what ends or goes on does not write.        *)
LEMMA StepOf ==
    ASSUME TypeOK, NEW r \in Requests, Abort(r) \/ Write(r) \/ Progress(r)
    PROVE  /\ pc'[r] # "writing"
           /\ \A q \in Requests \ {r} : pc'[q] = pc[q] /\ job'[q] = job[q]
<1>1. CASE \/ Abort(r) \/ Write(r) \/ LockTimeout(r) \/ LoadFails(r) \/ SmokeFails(r)
           \/ Conflict(r) \/ Commit(r)
  BY <1>1 DEF TypeOK, End, Goto, Abort, Write, LockTimeout, LoadFails, SmokeFails, Conflict,
              Commit
<1>2. CASE Acquire(r) \/ Load(r) \/ SmokePasses(r) \/ RetirePrevious(r) \/ MarkDeployed(r)
           \/ RestorePrevious(r)
  BY <1>2 DEF TypeOK, Goto, Acquire, Load, SmokePasses, RetirePrevious, MarkDeployed,
              RestorePrevious
<1> QED BY <1>1, <1>2 DEF Progress

(* A decision starts on a version that is neither deployed nor retired.    *)
LEMMA ArriveImplements ==
    ASSUME IInv, NEW r \in Requests, Arrive(r)
    PROVE  [Pointer!Next]_(Pointer!vars)
<1>1. TypeOK
  BY DEF IInv, Typing
<1>2. PICK op \in Operations, v \in Versions, env \in Environments : Arrives(r, op, v, env)
  BY <1>1, ArriveArrives
<1>3. UNCHANGED <<DeployedVersion, RetiredVersions, deployments>>
  BY <1>2, DeployedVersionIsPointer DEF Arrives, RetiredVersions
<1>4. /\ \A q \in Requests \ {r} : pc'[q] = pc[q] /\ job'[q] = job[q]
      /\ pc[r] = "idle" /\ pc'[r] = (IF op \in Decisions THEN "writing" ELSE "waiting")
      /\ Target(r)' = v
  BY <1>1, <1>2 DEF Arrives, TypeOK, Target
<1>5. CASE op \notin Decisions
  <2>1. Undecided' = Undecided
    BY <1>4, <1>5, UndecidedKept
  <2> QED BY <1>3, <2>1 DEF Pointer!vars
<1>6. CASE op \in Decisions
  <2>1. Undecided' = Undecided \cup {v}
    BY <1>4, <1>6 DEF Undecided, Target
  <2>2. status[v] \in {"EVALUATED", "STAGING"}
    BY <1>2, <1>6 DEF Arrives, Decisions
  <2>3. v \notin RetiredVersions
    BY <2>2 DEF RetiredVersions
  <2>4. v # DeployedVersion
    BY <2>2, VersionsAssumption DEF DeployedVersion
  <2>5. Pointer!StartDecision(v)
    BY <1>3, <2>1, <2>3, <2>4 DEF Pointer!StartDecision
  <2> QED BY <2>5 DEF Pointer!Next
<1> QED BY <1>5, <1>6

(* What a commit writes: the pointer moves or is handed back, and who is   *)
(* retired by it.                                                          *)
LEMMA CommitImplements ==
    ASSUME IInv, HInv, IInv', NEW r \in Requests, Commit(r)
    PROVE  Pointer!Next
<1> USE DEF IInv, Typing, TypeOK
<1>a. /\ \A v \in Versions : status[v] = "DEPLOYED" => DeployedVersion = v
      /\ DeployedVersion # None =>
             DeployedVersion \in Versions /\ status[DeployedVersion] = "DEPLOYED"
  BY PointerOfIs, DeployedVersionIsPointer DEF AtMostOneDeployed
<1>b. /\ \A v \in Versions : status'[v] = "DEPLOYED" => DeployedVersion' = v
      /\ (\A v \in Versions : status'[v] # "DEPLOYED") => DeployedVersion' = None
  BY PointerOfIs, DeployedVersionIsPointer DEF AtMostOneDeployed
<1> DEFINE t == Target(r)
           old == previous[r]
<1>1. pc[r] = "committing" /\ job[r] \in Jobs /\ job[r].op \in {"stage", "move"}
  BY DEF Commit, JobFits
<1>2. t \in Versions /\ job[r].env \in Environments /\ t # old
      /\ (job[r].op = "stage" => job[r].env = "staging")
  BY <1>1 DEF Jobs, Target, JobFits, PreviousDiffers
<1>3. deployments' = deployments \cup {Pointer!Row(t, job[r].env)}
  BY DEF Commit, Pointer!Row
<1>4. \A v \in Versions :
          status'[v] = IF Planned(r, v) = None THEN status[v] ELSE Planned(r, v)
  BY DEF Commit, Merged, Seen, WritesPlanned
<1>5. Undecided' = Undecided
  BY <1>1, StepOf, UndecidedKept DEF Progress
<1>6. DeployedVersion \in Versions \ {t} => DeployedVersion = old
  BY <1>a, <1>1, VersionsAssumption DEF InFlightExcludes, InFlight
<1>7. DeployedVersion \in Versions \cup {None}
  BY <1>a
<1>8. old # None => old \in Versions /\ old \in Pointer!DeployedOnce
  BY DEF HInv, Recorded, Pointer!DeployedOnce
<1>9. CASE job[r].op = "move"
  <2>1. /\ status'[t] = "DEPLOYED"
        /\ old # None => status'[old] = "RETIRED"
        /\ \A v \in Versions \ {t, old} : status'[v] = status[v]
    BY <1>1, <1>2, <1>4, <1>8, <1>9, StatusAssumption
       DEF Planned, InFlight, HandsBack, Status
  <2>2. DeployedVersion' = t
    BY <1>b, <1>2, <2>1
  <2>3. RetiredVersions' = (RetiredVersions \cup {old}) \ {t, None}
    BY <1>2, <1>8, <2>1, VersionsAssumption DEF RetiredVersions
  <2>4. old \in IF DeployedVersion \in {t, None} THEN Pointer!DeployedOnce \cup {None}
                                                ELSE {DeployedVersion}
    BY <1>6, <1>7, <1>8
  <2>5. Pointer!Deploy(t, job[r].env)
    BY <1>3, <1>5, <2>2, <2>3, <2>4 DEF Pointer!Deploy
  <2> QED BY <1>2, <2>5 DEF Pointer!Next
<1>10. CASE job[r].op = "stage"
  <2>1. /\ status'[t] = "STAGING"
        /\ old # None => status'[old] = "DEPLOYED"
        /\ \A v \in Versions \ {t, old} : status'[v] = status[v]
    BY <1>1, <1>2, <1>4, <1>8, <1>10, StatusAssumption
       DEF Planned, InFlight, HandsBack, Status
  <2>2. DeployedVersion' = old
    <3>1. CASE old = None
      <4>1. ASSUME NEW v \in Versions, status'[v] = "DEPLOYED" PROVE FALSE
        <5>1. v # None  BY VersionsAssumption
        <5>2. v # t  BY <2>1, <4>1
        <5>3. status[v] = "DEPLOYED"  BY <2>1, <3>1, <4>1, <5>1, <5>2
        <5> QED BY <1>a, <1>6, <3>1, <5>1, <5>2, <5>3
      <4> QED BY <1>b, <3>1, <4>1
    <3>2. CASE old # None
      BY <1>b, <1>8, <2>1, <3>2
    <3> QED BY <3>1, <3>2
  <2>3. RetiredVersions' = RetiredVersions \ {t, old}
    BY <1>2, <1>8, <2>1, VersionsAssumption DEF RetiredVersions
  <2>4. IF DeployedVersion \in {t, None}
          THEN DeployedVersion' \in (Pointer!DeployedOnce \ {t}) \cup {None}
          ELSE DeployedVersion' = DeployedVersion
    BY <1>2, <1>6, <1>7, <1>8, <2>2
  <2>5. deployments' = deployments \cup {Pointer!Row(t, "staging")}
    BY <1>2, <1>3, <1>10
  <2>6. Pointer!Stage(t)
    BY <1>5, <2>2, <2>3, <2>4, <2>5 DEF Pointer!Stage
  <2> QED BY <1>2, <2>6 DEF Pointer!Next
<1> QED BY <1>1, <1>9, <1>10

(* Every step of the registry is a step of PointerHistory, or changes      *)
(* nothing that it shows.                                                  *)
LEMMA NextImplements ==
    IInv /\ HInv /\ IInv' /\ [Next]_vars => [Pointer!Next]_(Pointer!vars)
<1> SUFFICES ASSUME IInv, HInv, IInv', [Next]_vars
             PROVE  [Pointer!Next]_(Pointer!vars)
  OBVIOUS
<1> USE DEF IInv, Typing, TypeOK
<1>a. /\ \A v \in Versions : status[v] = "DEPLOYED" => DeployedVersion = v
      /\ (\A v \in Versions : status[v] # "DEPLOYED") => DeployedVersion = None
      /\ DeployedVersion # None =>
             DeployedVersion \in Versions /\ status[DeployedVersion] = "DEPLOYED"
  BY PointerOfIs, DeployedVersionIsPointer DEF AtMostOneDeployed
<1>b. /\ \A v \in Versions : status'[v] = "DEPLOYED" => DeployedVersion' = v
      /\ (\A v \in Versions : status'[v] # "DEPLOYED") => DeployedVersion' = None
  BY PointerOfIs, DeployedVersionIsPointer DEF AtMostOneDeployed
<1>1. ASSUME NEW v \in Versions, Evaluate(v) PROVE UNCHANGED Pointer!vars
  <2>1. \A u \in Versions : /\ status'[u] = "DEPLOYED" <=> status[u] = "DEPLOYED"
                            /\ status'[u] = "RETIRED" <=> status[u] = "RETIRED"
    BY <1>1 DEF Evaluate
  <2>2. DeployedVersion' = DeployedVersion
    BY <1>a, <1>b, <2>1
  <2>3. UNCHANGED <<RetiredVersions, Undecided, deployments>>
    BY <1>1, <2>1 DEF Evaluate, RetiredVersions, Undecided, Target
  <2> QED BY <2>2, <2>3 DEF Pointer!vars
<1>2. ASSUME NEW r \in Requests, Write(r) PROVE Pointer!Next
  <2> DEFINE t == Target(r)
  <2>1. pc[r] = "writing" /\ t \in Versions
    BY <1>2 DEF Write, JobFits, Jobs, Target
  <2>2. /\ status'[t] \notin {"DEPLOYED", "RETIRED"}
        /\ \A v \in Versions \ {t} : status'[v] = status[v]
        /\ deployments' = deployments
    BY <1>2, <2>1 DEF Write, DecidedStatus
  <2>3. RetiredVersions' = RetiredVersions \ {t}
    BY <2>1, <2>2 DEF RetiredVersions
  <2>4. DeployedVersion' = IF DeployedVersion = t THEN None ELSE DeployedVersion
    <3>1. CASE DeployedVersion = t
      <4>1. \A v \in Versions : status'[v] # "DEPLOYED"
        BY <1>a, <2>1, <2>2, <3>1
      <4> QED BY <1>b, <3>1, <4>1
    <3>2. CASE DeployedVersion # t /\ DeployedVersion # None
      BY <1>a, <1>b, <2>2, <3>2
    <3>3. CASE DeployedVersion # t /\ DeployedVersion = None
      <4>1. \A v \in Versions : status'[v] # "DEPLOYED"
        BY <1>a, <2>2, <3>3, VersionsAssumption
      <4> QED BY <1>b, <3>3, <4>1
    <3> QED BY <3>1, <3>2, <3>3
  <2>5. Pointer!EndDecision(t)
    BY <1>2, <2>1, StepOf, UndecidedEnds
  <2>6. Pointer!Decide(t)
    BY <2>2, <2>3, <2>4, <2>5 DEF Pointer!Decide
  <2> QED BY <2>1, <2>6 DEF Pointer!Next
<1>3. ASSUME NEW r \in Requests, Abort(r) PROVE [Pointer!Next]_(Pointer!vars)
  <2>1. UNCHANGED <<DeployedVersion, RetiredVersions, deployments>>
    BY <1>3, DeployedVersionIsPointer DEF Abort, RetiredVersions
  <2>2. CASE pc[r] = "writing"
    <3>1. Target(r) \in Versions
      BY <2>2 DEF JobFits, Jobs, Target
    <3>2. Pointer!GiveUp(Target(r))
      BY <1>3, <2>1, <2>2, <3>1, StepOf, UndecidedEnds DEF Pointer!GiveUp
    <3> QED BY <3>1, <3>2 DEF Pointer!Next
  <2>3. CASE pc[r] # "writing"
    BY <1>3, <2>1, <2>3, StepOf, UndecidedKept DEF Pointer!vars
  <2> QED BY <2>2, <2>3
<1>4. ASSUME NEW r \in Requests, Progress(r), ~Commit(r) PROVE UNCHANGED Pointer!vars
  <2>1. UNCHANGED <<status, deployments>> /\ pc[r] # "writing"
    BY <1>4
       DEF Progress, LockTimeout, Acquire, Load, LoadFails, AnswerLost, SmokeFails, SmokePasses,
           RetirePrevious, MarkDeployed, Conflict, RestorePrevious
  <2>2. UNCHANGED <<DeployedVersion, RetiredVersions>>
    BY <2>1, DeployedVersionIsPointer DEF RetiredVersions
  <2>3. Undecided' = Undecided
    BY <1>4, <2>1, StepOf, UndecidedKept
  <2> QED BY <2>1, <2>2, <2>3 DEF Pointer!vars
<1>5. CASE UNCHANGED vars
  BY <1>5, DeployedVersionIsPointer DEF vars, Pointer!vars, RetiredVersions, Undecided, Target
<1> QED
  BY <1>1, <1>2, <1>3, <1>4, <1>5, ArriveImplements, CommitImplements DEF Next

(* The registry implements PointerHistory.                                 *)
THEOREM RegistryImplementsPointerHistory == Spec => ImplementsPointerHistory
<1>1. Init => Pointer!Init
  <2>1. ASSUME Init PROVE DeployedVersion = None
    BY <2>1 DEF Init, DeployedVersion
  <2> QED BY <2>1 DEF Init, Pointer!Init, RetiredVersions, Undecided
<1> QED BY InitIInv, NextIInv, InitHInv, NextHInv, <1>1, NextImplements, PTL
        DEF Spec, ImplementsPointerHistory, Pointer!Spec

-----------------------------------------------------------------------------
(* One request at a time.  Then what a staging deploy has read is still    *)
(* true when it commits: the status of its target, and that the version it *)
(* supersedes is the pointer.                                              *)
StageIsCurrent ==
    \A r \in Requests : pc[r] # "idle" /\ job[r].op = "stage" =>
        status[Target(r)] \in {"EVALUATED", "STAGING"}

PreviousIsPointer ==
    \A r \in Requests : pc[r] \notin {"idle", "writing", "waiting"} =>
        \A v \in Versions \ {Target(r)} : status[v] = "DEPLOYED" <=> v = previous[r]

SInv == StageIsCurrent /\ PreviousIsPointer

LEMMA InitSInv == Init => SInv
  BY DEF Init, SInv, StageIsCurrent, PreviousIsPointer

LEMMA NextSInv ==
    ASSUME \A q, r \in Requests : q = r
    PROVE  IInv /\ SInv /\ [Next]_vars => SInv'
<1> SUFFICES ASSUME IInv, SInv, [Next]_vars PROVE SInv'
  OBVIOUS
<1> USE DEF IInv, Typing, TypeOK
<1>1. ASSUME NEW v \in Versions, Evaluate(v) PROVE SInv'
  <2>1. \A u \in Versions : \/ status'[u] = status[u]
                            \/ status[u] = "REGISTERED" /\ status'[u] = "EVALUATED"
    BY <1>1 DEF Evaluate
  <2>2. UNCHANGED <<pc, job, previous>>
    BY <1>1 DEF Evaluate
  <2>3. \A r \in Requests : pc[r] # "idle" => Target(r) \in Versions /\ Target(r)' = Target(r)
    BY <2>2 DEF JobFits, Jobs, Target
  <2>4. StageIsCurrent'
    BY <2>1, <2>2, <2>3 DEF SInv, StageIsCurrent
  <2>5. PreviousIsPointer'
    BY <2>1, <2>2, <2>3 DEF SInv, PreviousIsPointer
  <2> QED BY <2>4, <2>5 DEF SInv
<1>2. ASSUME NEW r \in Requests, Arrive(r) PROVE SInv'
  <2>1. PICK op \in Operations, v \in Versions, env \in Environments :
            Arrives(r, op, v, env)
    BY <1>2, ArriveArrives
  <2>2. pc'[r] \in {"writing", "waiting"} /\ job'[r].op = op /\ Target(r)' = v
        /\ status' = status
    BY <2>1 DEF Arrives, Target
  <2>3. op = "stage" => status[v] \in {"EVALUATED", "STAGING"}
    BY <2>1 DEF Arrives
  <2> QED BY <2>2, <2>3 DEF SInv, StageIsCurrent, PreviousIsPointer
<1>3. ASSUME NEW r \in Requests, End(r) PROVE SInv'
  <2>1. pc'[r] = "idle"
    BY <1>3 DEF End, Goto
  <2> QED BY <2>1 DEF SInv, StageIsCurrent, PreviousIsPointer
<1>4. ASSUME NEW r \in Requests, Acquire(r) PROVE SInv'
  <2>1. UNCHANGED <<status, job>> /\ pc[r] = "waiting" /\ Target(r)' = Target(r)
    BY <1>4 DEF Acquire, Target
  <2>2. previous[r] = None
    BY <2>1 DEF PreviousDiffers
  <2>3. ASSUME NEW v \in Versions \ {Target(r)}
        PROVE  status[v] = "DEPLOYED" <=> v = previous'[r]
    <3>1. ASSUME NEW u \in DeployedOthers(Target(r)), previous' = [previous EXCEPT ![r] = u]
          PROVE  status[v] = "DEPLOYED" <=> v = previous'[r]
      BY <3>1 DEF DeployedOthers, AtMostOneDeployed
    <3>2. ASSUME DeployedOthers(Target(r)) = {}, UNCHANGED previous
          PROVE  status[v] = "DEPLOYED" <=> v = previous'[r]
      BY <2>2, <3>2, VersionsAssumption DEF DeployedOthers
    <3> QED BY <1>4, <3>1, <3>2 DEF Acquire
  <2>4. StageIsCurrent'
    BY <2>1 DEF SInv, StageIsCurrent
  <2>5. PreviousIsPointer'
    BY <2>1, <2>3 DEF PreviousIsPointer
  <2> QED BY <2>4, <2>5 DEF SInv
<1>5. ASSUME NEW r \in Requests,
             Load(r) \/ SmokePasses(r) \/ RetirePrevious(r) \/ MarkDeployed(r)
             \/ RestorePrevious(r)
      PROVE  SInv'
  <2>1. UNCHANGED <<status, job, previous>> /\ Target(r)' = Target(r)
        /\ pc[r] \notin {"idle", "writing", "waiting"}
    BY <1>5 DEF Load, SmokePasses, RetirePrevious, MarkDeployed, RestorePrevious, Target
  <2> QED BY <2>1 DEF SInv, StageIsCurrent, PreviousIsPointer
<1>6. CASE UNCHANGED vars
  BY <1>6 DEF vars, SInv, StageIsCurrent, PreviousIsPointer, Target
<1>7. ASSUME NEW r \in Requests,
             Write(r) \/ LockTimeout(r) \/ LoadFails(r) \/ SmokeFails(r) \/ Conflict(r)
             \/ Commit(r) \/ Abort(r)
      PROVE  SInv'
  BY <1>3, <1>7 DEF Write, LockTimeout, LoadFails, SmokeFails, Conflict, Commit, Abort
<1> QED BY <1>1, <1>2, <1>4, <1>5, <1>6, <1>7 DEF Next, Progress

(* Requests that do not overlap: a staging deploy leaves the production    *)
(* pointer where it is, with every fault and beside the evaluation worker. *)
(* That stage_deploy can move it takes a second request between the        *)
(* reading of the status and the commit.                                   *)
THEOREM StagingAloneKeepsPointer ==
    ASSUME \A q, r \in Requests : q = r
    PROVE  Spec => StagingKeepsPointer
<1>1. ASSUME IInv, IInv', SInv, [Next]_vars
      PROVE  \A r \in Requests : CommitsStage(r) => DeployedVersion' = DeployedVersion
  <2> SUFFICES ASSUME NEW r \in Requests, CommitsStage(r)
               PROVE  DeployedVersion' = DeployedVersion
    OBVIOUS
  <2> USE <1>1 DEF IInv, Typing, TypeOK
  <2>1. pc[r] = "committing" /\ job[r].op = "stage" /\ pc'[r] = "idle"
    BY DEF CommitsStage
  <2>2. Target(r) \in Versions /\ Target(r) # previous[r]
    BY <2>1 DEF JobFits, Jobs, Target, PreviousDiffers
  <2>3. /\ status[Target(r)] # "DEPLOYED"
        /\ \A v \in Versions \ {Target(r)} : status[v] = "DEPLOYED" <=> v = previous[r]
    BY <2>1 DEF SInv, StageIsCurrent, PreviousIsPointer
  <2>4. status' = status \/ Commit(r)
    <3>1. CASE \E v \in Versions : Evaluate(v)
      BY <2>1, <3>1 DEF Evaluate
    <3>2. CASE Arrive(r)
      BY <3>2, ArriveArrives DEF Arrives
    <3>3. CASE Write(r)
      BY <2>1, <3>3 DEF Write
    <3>4. CASE Progress(r) /\ ~Commit(r)
      BY <3>4 DEF Progress, LockTimeout, Acquire, Load, LoadFails, AnswerLost, SmokeFails,
                  SmokePasses, RetirePrevious, MarkDeployed, Conflict, RestorePrevious
    <3>5. CASE Abort(r) \/ UNCHANGED vars
      BY <3>5 DEF Abort, vars
    <3> QED BY <3>1, <3>2, <3>3, <3>4, <3>5 DEF Next
  <2>5. \A v \in Versions : status'[v] = "DEPLOYED" <=> status[v] = "DEPLOYED"
    <3>1. CASE Commit(r)
      <4>1. \A v \in Versions :
                status'[v] = IF Planned(r, v) = None THEN status[v] ELSE Planned(r, v)
        BY <3>1 DEF Commit, Merged, Seen, WritesPlanned
      <4> QED BY <2>1, <2>2, <2>3, <4>1, StatusAssumption
              DEF Planned, InFlight, HandsBack, Status
    <3> QED BY <2>4, <3>1
  <2>6. PointerOf(status') = PointerOf(status)
    <3>1. /\ \A v \in Versions : status[v] = "DEPLOYED" => PointerOf(status) = v
          /\ (\A v \in Versions : status[v] # "DEPLOYED") => PointerOf(status) = None
      BY PointerOfIs DEF AtMostOneDeployed
    <3>2. /\ \A v \in Versions : status'[v] = "DEPLOYED" => PointerOf(status') = v
          /\ (\A v \in Versions : status'[v] # "DEPLOYED") => PointerOf(status') = None
      BY PointerOfIs DEF AtMostOneDeployed
    <3> QED BY <2>5, <3>1, <3>2
  <2> QED BY <2>6, DeployedVersionIsPointer
<1> QED BY InitIInv, NextIInv, InitSInv, NextSInv, <1>1, PTL DEF Spec, StagingKeepsPointer

-----------------------------------------------------------------------------
(* The flow of the default environment.  Without staging there is no       *)
(* ladder; a version that waits for a decision is the business of one      *)
(* request only, and a request that moves the pointer, or supersedes a     *)
(* version, has one that was promoted before.                              *)
NoLadder == \A v \in Versions : status[v] \notin {"STAGING", "VALIDATED"}

LegacyJobs ==
    \A r \in Requests : job[r] # None =>
        job[r].env = "default" /\ job[r].op \in {"promote", "reject", "move"}

DecidesAlone ==
    \A r \in Requests : pc[r] = "writing" =>
        /\ status[Target(r)] = "EVALUATED"
        /\ \A q \in Requests \ {r} : job[q] # None => Target(q) # Target(r)

MovesPromoted ==
    \A r \in Requests : pc[r] \notin {"idle", "writing"} =>
        status[Target(r)] \in {"PROMOTED", "RETIRED", "DEPLOYED"}

SupersedesDeployed ==
    \A r \in Requests : previous[r] # None =>
        status[previous[r]] \in {"RETIRED", "DEPLOYED"}

FInv ==
    /\ NoLadder
    /\ LegacyJobs
    /\ DecidesAlone
    /\ MovesPromoted
    /\ SupersedesDeployed

LegacyNext ==
    /\ [Next]_vars
    /\ \A r \in Requests : job[r] = None /\ job'[r] # None => LegacyArrival(r)

LEMMA InitFInv == Init => FInv
  BY DEF Init, FInv, NoLadder, LegacyJobs, DecidesAlone, MovesPromoted, SupersedesDeployed

(* What a request of this flow arrives with.                               *)
LEMMA LegacyArrives ==
    ASSUME IInv, FInv, NEW r \in Requests, Arrive(r),
           job[r] = None /\ job'[r] # None => LegacyArrival(r)
    PROVE  \E op \in {"promote", "reject", "move"}, v \in Versions :
               /\ Arrives(r, op, v, "default")
               /\ op = "move" => status[v] \in {"PROMOTED", "RETIRED"}
               /\ op # "move" =>
                      /\ status[v] = "EVALUATED"
                      /\ \A q \in Requests \ {r} : job[q] # None => Target(q) # v
<1> USE DEF IInv, Typing, TypeOK
<1>1. PICK op \in Operations, v \in Versions, env \in Environments :
          Arrives(r, op, v, env)
  BY ArriveArrives
<1>2. job[r] = None /\ job'[r] = [op |-> op, target |-> v, env |-> env]
  BY <1>1 DEF Arrives, JobFits
<1>3. job'[r] # None
  BY <1>2, JobsAssumption DEF Jobs
<1>4. /\ op # "stage" /\ env = "default"
      /\ op \in Decisions => \A q \in Requests \ {r} : job[q] # None => Target(q) # v
  BY <1>2, <1>3 DEF LegacyArrival
<1>5. \E o \in Operations, accepted \in SUBSET Status, u \in Versions, e \in Environments :
          /\ Begin(r, o, u, e, accepted)
          /\ \/ o \in {"promote", "reject"} /\ accepted = {"EVALUATED"}
             \/ o = "validate" /\ accepted = {"STAGING"}
             \/ o = "stage"
             \/ o = "move" /\ accepted \subseteq {"PROMOTED", "RETIRED", "STAGING", "VALIDATED"}
  <2>1. ASSUME RollbackDeployment(r) PROVE <1>5
    <3>1. PICK row \in deployments : Begin(r, "move", row.version, row.env, RollbackTargets)
      BY <2>1 DEF RollbackDeployment
    <3>2. row.version \in Versions /\ row.env \in Environments
      BY <3>1
    <3> QED BY <3>1, <3>2 DEF RollbackTargets, Operations, Status
  <2>2. ASSUME NEW u \in Versions, CreateDecision(r, u) PROVE <1>5
    BY <2>2 DEF CreateDecision, Operations, Decisions, Status, Environments
  <2>3. ASSUME NEW u \in Versions, ValidateStaging(r, u) PROVE <1>5
    BY <2>3 DEF ValidateStaging, Operations, Decisions, Status, Environments
  <2>4. ASSUME NEW u \in Versions,
               DeployModelVersion(r, u) \/ DeployToStaging(r, u)
               \/ PromoteToProduction(r, u) \/ RollbackModel(r, u)
        PROVE  <1>5
    <3>1. \/ \E A \in SUBSET Status : Begin(r, "stage", u, "staging", A)
          \/ Begin(r, "move", u, "production", {"VALIDATED", "PROMOTED"})
          \/ Begin(r, "move", u, "default", {"PROMOTED"})
          \/ Begin(r, "move", u, "default", RollbackTargets)
      BY <2>4 DEF DeployModelVersion, DeployToStaging, PromoteToProduction,
                  RollbackModel, Status
    <3>2. /\ {"VALIDATED", "PROMOTED"} \in SUBSET Status /\ {"PROMOTED"} \in SUBSET Status
          /\ RollbackTargets \in SUBSET Status
          /\ "stage" \in Operations /\ "move" \in Operations
          /\ {"default", "staging", "production"} \subseteq Environments
      BY DEF RollbackTargets, Operations, Status, Environments
    <3>3. CASE \E A \in SUBSET Status : Begin(r, "stage", u, "staging", A)
      BY <3>2, <3>3
    <3>4. ASSUME NEW e \in Environments, NEW A \in SUBSET Status, Begin(r, "move", u, e, A),
                 A \subseteq {"PROMOTED", "RETIRED", "STAGING", "VALIDATED"}
          PROVE  <1>5
      BY <3>2, <3>4
    <3> QED BY <3>1, <3>2, <3>3, <3>4 DEF RollbackTargets
  <2> QED BY <2>1, <2>2, <2>3, <2>4 DEF Arrive
<1>6. PICK o \in Operations, accepted \in SUBSET Status, u \in Versions, e \in Environments :
          /\ Begin(r, o, u, e, accepted)
          /\ \/ o \in {"promote", "reject"} /\ accepted = {"EVALUATED"}
             \/ o = "validate" /\ accepted = {"STAGING"}
             \/ o = "stage"
             \/ o = "move" /\ accepted \subseteq {"PROMOTED", "RETIRED", "STAGING", "VALIDATED"}
  BY <1>5
<1>7. o = op /\ u = v /\ status[v] \in accepted
  BY <1>2, <1>6 DEF Begin
<1>8. status[v] \notin {"STAGING", "VALIDATED"}
  BY DEF FInv, NoLadder
<1> QED BY <1>1, <1>4, <1>6, <1>7, <1>8 DEF Decisions

LEMMA NextFInv == IInv /\ FInv /\ LegacyNext => FInv'
<1> SUFFICES ASSUME IInv, FInv, LegacyNext PROVE FInv'
  OBVIOUS
<1> USE DEF IInv, Typing, TypeOK
<1>0. \A r \in Requests : pc[r] # "idle" =>
          /\ job[r] # None /\ Target(r) \in Versions
          /\ job[r].env = "default" /\ job[r].op \in {"promote", "reject", "move"}
  BY DEF JobFits, Jobs, Target, FInv, LegacyJobs
<1>1. ASSUME NEW v \in Versions, Evaluate(v) PROVE FInv'
  BY <1>0, <1>1
     DEF Evaluate, FInv, NoLadder, LegacyJobs, DecidesAlone, MovesPromoted,
         SupersedesDeployed, Target, JobFits
<1>2. ASSUME NEW r \in Requests, Arrive(r) PROVE FInv'
  <2>1. PICK op \in {"promote", "reject", "move"}, v \in Versions :
            /\ Arrives(r, op, v, "default")
            /\ op = "move" => status[v] \in {"PROMOTED", "RETIRED"}
            /\ op # "move" =>
                   /\ status[v] = "EVALUATED"
                   /\ \A q \in Requests \ {r} : job[q] # None => Target(q) # v
    BY <1>2, LegacyArrives DEF LegacyNext
  <2>2. /\ UNCHANGED <<status, previous>>
        /\ pc'[r] = IF op = "move" THEN "waiting" ELSE "writing"
        /\ job'[r] # None /\ job'[r].env = "default" /\ job'[r].op = op /\ Target(r)' = v
        /\ \A q \in Requests \ {r} :
               pc'[q] = pc[q] /\ job'[q] = job[q] /\ Target(q)' = Target(q)
    BY <2>1, JobsAssumption DEF Arrives, Target, Decisions, Jobs, Operations, Environments
  <2>3. NoLadder' /\ LegacyJobs' /\ MovesPromoted' /\ SupersedesDeployed'
    <3>1. NoLadder' /\ SupersedesDeployed'
      BY <2>2 DEF FInv, NoLadder, SupersedesDeployed
    <3>2. LegacyJobs'
      BY <2>1, <2>2 DEF FInv, LegacyJobs
    <3>3. MovesPromoted'
      BY <2>1, <2>2 DEF FInv, MovesPromoted
    <3> QED BY <3>1, <3>2, <3>3
  <2>4. ASSUME NEW q \in Requests, pc'[q] = "writing"
        PROVE  /\ status'[Target(q)'] = "EVALUATED"
               /\ \A p \in Requests \ {q} : job'[p] # None => Target(p)' # Target(q)'
    <3>1. CASE q = r
      BY <2>1, <2>2, <2>4, <3>1
    <3>2. CASE q # r
      <4>1. /\ status[Target(q)] = "EVALUATED" /\ job[q] # None
            /\ \A p \in Requests \ {q} : job[p] # None => Target(p) # Target(q)
        BY <1>0, <2>2, <2>4, <3>2 DEF FInv, DecidesAlone
      <4>2. Target(q) # v
        BY <2>1, <3>2, <4>1
      <4> QED BY <2>2, <3>2, <4>1, <4>2
    <3> QED BY <3>1, <3>2
  <2>5. DecidesAlone'
    BY <2>4 DEF DecidesAlone
  <2> QED BY <2>3, <2>5 DEF FInv
<1>3. ASSUME NEW r \in Requests, End(r),
             \A v \in Versions :
                 status'[v] # status[v] =>
                     /\ status'[v] \in {"PROMOTED", "REJECTED", "RETIRED", "DEPLOYED"}
                     /\ \A q \in Requests \ {r} :
                            job[q] # None /\ Target(q) = v =>
                                pc[q] # "writing" /\ status'[v] \in {"RETIRED", "DEPLOYED"}
                     /\ \A q \in Requests \ {r} :
                            previous[q] = v => status'[v] \in {"RETIRED", "DEPLOYED"}
      PROVE  FInv'
  <2>1. /\ pc'[r] = "idle" /\ job'[r] = None /\ previous'[r] = None
        /\ \A q \in Requests \ {r} :
               pc'[q] = pc[q] /\ job'[q] = job[q] /\ previous'[q] = previous[q]
               /\ Target(q)' = Target(q)
    BY <1>3 DEF End, Goto, Target
  <2>2. NoLadder' /\ LegacyJobs'
    BY <1>3, <2>1 DEF FInv, NoLadder, LegacyJobs
  <2>3. ASSUME NEW q \in Requests, pc'[q] = "writing"
        PROVE  /\ status'[Target(q)'] = "EVALUATED"
               /\ \A p \in Requests \ {q} : job'[p] # None => Target(p)' # Target(q)'
    <3>1. q # r /\ pc[q] = "writing" /\ job[q] # None /\ Target(q) \in Versions
      BY <1>0, <2>1, <2>3
    <3>2. /\ status[Target(q)] = "EVALUATED"
          /\ \A p \in Requests \ {q} : job[p] # None => Target(p) # Target(q)
      BY <3>1 DEF FInv, DecidesAlone
    <3> QED BY <1>3, <2>1, <3>1, <3>2
  <2>4. DecidesAlone'
    BY <2>3 DEF DecidesAlone
  <2>5. MovesPromoted'
    BY <1>0, <1>3, <2>1 DEF FInv, MovesPromoted
  <2>6. SupersedesDeployed'
    BY <1>3, <2>1 DEF FInv, SupersedesDeployed
  <2> QED BY <2>2, <2>4, <2>5, <2>6 DEF FInv
<1>4. ASSUME NEW r \in Requests, Write(r) PROVE FInv'
  <2>1. /\ End(r) /\ pc[r] = "writing" /\ status[Target(r)] = "EVALUATED"
        /\ status' = [status EXCEPT ![Target(r)] = DecidedStatus(job[r].op)]
        /\ \A q \in Requests \ {r} : job[q] # None => Target(q) # Target(r)
    BY <1>4 DEF Write, FInv, DecidesAlone
  <2>2. DecidedStatus(job[r].op) \in {"PROMOTED", "REJECTED"}
    BY <1>0, <2>1 DEF DecidedStatus, JobFits, Decisions
  <2>3. \A q \in Requests : previous[q] # Target(r)
    BY <1>0, <2>1, VersionsAssumption DEF FInv, SupersedesDeployed
  <2> QED BY <1>3, <2>1, <2>2, <2>3
<1>5. ASSUME NEW r \in Requests,
             LockTimeout(r) \/ LoadFails(r) \/ SmokeFails(r) \/ Conflict(r) \/ Abort(r)
      PROVE  FInv'
  <2>1. End(r) /\ UNCHANGED status
    BY <1>5 DEF LockTimeout, LoadFails, AnswerLost, SmokeFails, Conflict, Abort
  <2> QED BY <1>3, <2>1
<1>6. ASSUME NEW r \in Requests, Acquire(r) PROVE FInv'
  <2>1. /\ UNCHANGED <<status, job>> /\ pc[r] = "waiting"
        /\ pc' = [pc EXCEPT ![r] = "loading"]
        /\ \A q \in Requests \ {r} : previous'[q] = previous[q]
    BY <1>6 DEF Acquire, Goto
  <2>2. previous'[r] # None => status[previous'[r]] = "DEPLOYED"
    BY <1>6 DEF Acquire, DeployedOthers, PreviousDiffers
  <2> QED BY <2>1, <2>2
          DEF FInv, NoLadder, LegacyJobs, DecidesAlone, MovesPromoted, SupersedesDeployed, Target
<1>7. ASSUME NEW r \in Requests,
             Load(r) \/ SmokePasses(r) \/ RetirePrevious(r) \/ MarkDeployed(r)
             \/ RestorePrevious(r)
      PROVE  FInv'
  <2>1. UNCHANGED <<status, job, previous>>
    BY <1>7 DEF Load, SmokePasses, RetirePrevious, MarkDeployed, RestorePrevious
  <2>2. /\ pc[r] \notin {"idle", "writing"} /\ pc'[r] \notin {"idle", "writing"}
        /\ \A q \in Requests \ {r} : pc'[q] = pc[q]
    BY <1>7 DEF Load, SmokePasses, RetirePrevious, MarkDeployed, RestorePrevious, Goto
  <2>3. UNCHANGED status
    BY <1>7 DEF Load, SmokePasses, RetirePrevious, MarkDeployed, RestorePrevious
  <2>4. NoLadder' /\ LegacyJobs' /\ SupersedesDeployed'
    BY <2>1, <2>3 DEF FInv, NoLadder, LegacyJobs, SupersedesDeployed
  <2>5. DecidesAlone'
    BY <2>1, <2>2, <2>3 DEF FInv, DecidesAlone, Target
  <2>6. MovesPromoted'
    BY <2>1, <2>2, <2>3 DEF FInv, MovesPromoted, Target
  <2> QED BY <2>4, <2>5, <2>6 DEF FInv
<1>8. ASSUME NEW r \in Requests, Commit(r) PROVE FInv'
  <2>1. /\ pc[r] = "committing" /\ End(r)
        /\ status[Target(r)] \in {"PROMOTED", "RETIRED", "DEPLOYED"}
        /\ previous[r] # None => status[previous[r]] \in {"RETIRED", "DEPLOYED"}
        /\ job[r].op = "move"
    BY <1>8 DEF Commit, FInv, MovesPromoted, SupersedesDeployed, JobFits, LegacyJobs
  <2>2. \A v \in Versions :
            status'[v] = IF v = previous[r] THEN "RETIRED"
                         ELSE IF v = Target(r) THEN "DEPLOYED" ELSE status[v]
    BY <1>8, <2>1, StatusAssumption
       DEF Commit, Merged, Seen, WritesPlanned, Planned, HandsBack, InFlight, Status
  <2>3. ASSUME NEW v \in Versions, status'[v] # status[v]
        PROVE  /\ status'[v] \in {"RETIRED", "DEPLOYED"}
               /\ status[v] # "EVALUATED"
    BY <2>1, <2>2, <2>3, VersionsAssumption
  <2> QED BY <1>3, <2>1, <2>3 DEF FInv, DecidesAlone
<1>9. CASE UNCHANGED vars
  BY <1>9
     DEF vars, FInv, NoLadder, LegacyJobs, DecidesAlone, MovesPromoted,
         SupersedesDeployed, Target
<1> QED
  BY <1>1, <1>2, <1>4, <1>5, <1>6, <1>7, <1>8, <1>9 DEF LegacyNext, Next, Progress

-----------------------------------------------------------------------------
(* What the default server holds.  Serving is the version it ought to      *)
(* serve: the target of the move in flight, or else the DEPLOYED version.  *)
(* The holder of the GPU lock has added its own target to it, and taken    *)
(* out the version it supersedes.                                          *)
DefaultHost == HostOf["default"]

Moving == \E q \in Requests : InFlight(q)

Serving ==
    {v \in Versions :
        IF Moving THEN \E q \in Requests : InFlight(q) /\ Target(q) = v
                  ELSE status[v] = "DEPLOYED"}

RInv ==
    /\ \A h \in Hosts \ {DefaultHost} : loaded[h] = {}
    /\ gpuLock = None => loaded[DefaultHost] = Serving
    /\ \A r \in Requests : pc[r] = "loading" => loaded[DefaultHost] = Serving
    /\ \A r \in Requests : pc[r] = "smoke" =>
           /\ Target(r) \notin Serving
           /\ loaded[DefaultHost] = Serving \cup {Target(r)}
    /\ \A r \in Requests : pc[r] \in {"retiring", "marking"} =>
           /\ Target(r) \notin Serving
           /\ loaded[DefaultHost] = (Serving \ {previous[r]}) \cup {Target(r)}

LEMMA InitRInv == Init => RInv
  BY HostsAssumption DEF Init, RInv, Serving, Moving, InFlight, DefaultHost, Environments

(* Serving depends on the moves in flight and on the DEPLOYED version only.*)
LEMMA ServingStays ==
    ASSUME \A q \in Requests : InFlight(q)' <=> InFlight(q),
           \A q \in Requests : InFlight(q) => Target(q)' = Target(q),
           \A v \in Versions : status'[v] = "DEPLOYED" <=> status[v] = "DEPLOYED"
    PROVE  Serving' = Serving
  BY DEF Serving, Moving

(* While a move is in flight, its target is what the server should serve.  *)
LEMMA ServingOfMove ==
    ASSUME IInv, NEW r \in Requests, InFlight(r)
    PROVE  Serving = {Target(r)}
<1>1. Target(r) \in Versions
  BY DEF IInv, Typing, TypeOK, JobFits, Jobs, Target, InFlight
<1> QED BY <1>1 DEF IInv, OneInFlight, Serving, Moving

(* A request that ends without a commit gives the server back as it found  *)
(* it.                                                                     *)
LEMMA EndKeepsRInv ==
    ASSUME IInv, RInv, NEW r \in Requests, End(r), Serving' = Serving,
           gpuLock = r => gpuLock' = None /\ loaded'[DefaultHost] = Serving,
           gpuLock # r => UNCHANGED <<gpuLock, loaded>>,
           \A h \in Hosts \ {DefaultHost} : loaded'[h] = loaded[h]
    PROVE  RInv'
<1> USE DEF IInv, Typing, TypeOK
<1>1. /\ pc'[r] = "idle"
      /\ \A q \in Requests \ {r} :
             pc'[q] = pc[q] /\ Target(q)' = Target(q) /\ previous'[q] = previous[q]
  BY DEF End, Goto, Target
<1>2. DefaultHost' = DefaultHost
  BY DEF DefaultHost
<1>3. CASE gpuLock = r
  <2>1. \A q \in Requests : pc'[q] \notin Locked
    BY <1>1, <1>3 DEF LockIsHeld, Locked
  <2> QED BY <1>2, <1>3, <2>1 DEF RInv, Locked
<1>4. CASE gpuLock # r
  BY <1>1, <1>2, <1>4 DEF RInv
<1> QED BY <1>3, <1>4

(* A step that loads and serves nothing, and starts no deploy.             *)
LEMMA QuietKeepsRInv ==
    ASSUME RInv, UNCHANGED <<loaded, gpuLock, previous>>,
           Serving' = Serving, DefaultHost' = DefaultHost,
           \A q \in Requests : pc'[q] \notin {"idle", "writing", "waiting"} =>
               pc'[q] = pc[q] /\ Target(q)' = Target(q)
    PROVE  RInv'
<1>1. \A h \in Hosts \ {DefaultHost} : loaded'[h] = {}
  BY DEF RInv
<1>2. gpuLock' = None => loaded'[DefaultHost] = Serving'
  BY DEF RInv
<1>3. ASSUME NEW q \in Requests, pc'[q] = "loading"
      PROVE  loaded'[DefaultHost] = Serving'
  BY <1>3 DEF RInv
<1>4. ASSUME NEW q \in Requests, pc'[q] = "smoke"
      PROVE  Target(q)' \notin Serving' /\ loaded'[DefaultHost] = Serving' \cup {Target(q)'}
  BY <1>4 DEF RInv
<1>5. ASSUME NEW q \in Requests, pc'[q] \in {"retiring", "marking"}
      PROVE  /\ Target(q)' \notin Serving'
             /\ loaded'[DefaultHost] = (Serving' \ {previous'[q]}) \cup {Target(q)'}
  <2>1. pc[q] \in {"retiring", "marking"} /\ Target(q)' = Target(q)
    BY <1>5
  <2> QED BY <2>1 DEF RInv
<1> QED BY <1>1, <1>2, <1>3, <1>4, <1>5 DEF RInv

(* Without faults an unload always takes the adapter out.                  *)
LEMMA UnloadRemoves ==
    ASSUME TypeOK, Faults = {}, NEW h \in Hosts, NEW v, Unload(h, v, loaded)
    PROVE  loaded' = [loaded EXCEPT ![h] = @ \ {v}]
  BY DEF Unload

LEMMA NextRInv ==
    Faults = {} /\ IInv /\ IInv' /\ FInv /\ RInv /\ LegacyNext => RInv'
<1> SUFFICES ASSUME Faults = {}, IInv, IInv', FInv, RInv, LegacyNext PROVE RInv'
  OBVIOUS
<1> USE DEF IInv, Typing, TypeOK
<1>0. DefaultHost \in Hosts /\ DefaultHost' = DefaultHost
  BY HostsAssumption DEF DefaultHost, Environments
<1>j. \A r \in Requests : pc[r] # "idle" =>
          /\ job[r] # None /\ Target(r) \in Versions /\ Host(r) = DefaultHost
          /\ job[r].op \in {"promote", "reject", "move"}
  BY DEF JobFits, Jobs, Target, Host, DefaultHost, FInv, LegacyJobs
<1>1. ASSUME NEW v \in Versions, Evaluate(v) PROVE RInv'
  <2>1. Serving' = Serving
    BY <1>1, ServingStays DEF Evaluate, InFlight, Target
  <2> QED BY <1>0, <1>1, <2>1 DEF Evaluate, RInv, Target
<1>2. ASSUME NEW r \in Requests, Arrive(r) PROVE RInv'
  <2>1. PICK op \in Operations, v \in Versions, env \in Environments :
            Arrives(r, op, v, env)
    BY <1>2, ArriveArrives
  <2>2. /\ UNCHANGED <<status, loaded, gpuLock, previous>>
        /\ pc[r] = "idle" /\ pc'[r] \in {"writing", "waiting"}
        /\ \A q \in Requests \ {r} : pc'[q] = pc[q] /\ Target(q)' = Target(q)
    BY <2>1 DEF Arrives, Target
  <2>3. Serving' = Serving
    BY <2>2, ServingStays DEF InFlight
  <2>4. \A q \in Requests : pc'[q] \notin {"idle", "writing", "waiting"} =>
            pc'[q] = pc[q] /\ Target(q)' = Target(q)
    BY <2>2
  <2> QED BY <1>0, <2>2, <2>3, <2>4, QuietKeepsRInv
<1>3. ASSUME NEW r \in Requests, Write(r) PROVE RInv'
  <2>1. /\ End(r) /\ UNCHANGED <<loaded, gpuLock>>
        /\ pc[r] = "writing" /\ gpuLock # r /\ status[Target(r)] = "EVALUATED"
        /\ status' = [status EXCEPT ![Target(r)] = DecidedStatus(job[r].op)]
    BY <1>3 DEF Write, LockIsHeld, Locked, FInv, DecidesAlone
  <2>2. \A v \in Versions : status'[v] = "DEPLOYED" <=> status[v] = "DEPLOYED"
    BY <2>1 DEF DecidedStatus
  <2>3. Serving' = Serving
    BY <2>1, <2>2, ServingStays DEF End, Goto, InFlight, Target
  <2> QED BY <2>1, <2>3, EndKeepsRInv
<1>4. ASSUME NEW r \in Requests, LockTimeout(r) PROVE RInv'
  <2>1. End(r) /\ UNCHANGED <<status, loaded, gpuLock>> /\ gpuLock # r /\ pc[r] = "waiting"
    BY <1>4 DEF LockTimeout, LockIsHeld, Locked
  <2>2. Serving' = Serving
    BY <2>1, ServingStays DEF End, Goto, InFlight, Target
  <2> QED BY <2>1, <2>2, EndKeepsRInv
<1>5. ASSUME NEW r \in Requests, LoadFails(r) \/ SmokeFails(r) \/ Conflict(r)
      PROVE  RInv'
  <2>1. /\ End(r) /\ UNCHANGED status /\ gpuLock = r /\ gpuLock' = None
        /\ pc[r] \in {"loading", "smoke", "marking"}
    BY <1>5 DEF LoadFails, AnswerLost, SmokeFails, Conflict, ReleaseGpu, LockIsHeld, Locked
  <2>2. Serving' = Serving
    BY <2>1, ServingStays DEF End, Goto, InFlight, Target
  <2>3. loaded'[DefaultHost] = Serving /\ \A h \in Hosts \ {DefaultHost} : loaded'[h] = loaded[h]
    <3>1. CASE LoadFails(r)
      BY <3>1 DEF LoadFails, AnswerLost, RInv
    <3>2. CASE SmokeFails(r) \/ Conflict(r)
      <4>1. loaded' = [loaded EXCEPT ![DefaultHost] = @ \ {Target(r)}]
        BY <1>0, <1>j, <2>1, <3>2, UnloadRemoves DEF SmokeFails, Conflict
      <4>2. CASE SmokeFails(r)
        BY <1>0, <4>1, <4>2 DEF SmokeFails, RInv
      <4>3. CASE Conflict(r)
        <5>1. PICK u \in Versions \ {Target(r)} : Seen(r, u) = "DEPLOYED"
          BY <4>3 DEF Conflict, IndexConflict
        <5>2. status[u] = "DEPLOYED" /\ u # previous[r]
          BY <4>3, <5>1, StatusAssumption
             DEF Conflict, Seen, WritesPlanned, Planned, HandsBack, InFlight, Status
        <5>3. \A q \in Requests : ~InFlight(q)
          BY <4>3 DEF Conflict, IndexFree, InFlight
        <5>4. previous[r] \notin Serving
          BY <5>2, <5>3 DEF Serving, Moving, AtMostOneDeployed
        <5> QED BY <1>0, <4>1, <4>3, <5>4 DEF Conflict, RInv
      <4> QED BY <3>2, <4>2, <4>3
    <3> QED BY <1>5, <3>1, <3>2
  <2> QED BY <2>1, <2>2, <2>3, EndKeepsRInv
<1>6. ASSUME NEW r \in Requests, Acquire(r) PROVE RInv'
  <2>1. /\ UNCHANGED <<status, loaded, job>>
        /\ pc[r] = "waiting" /\ pc' = [pc EXCEPT ![r] = "loading"]
        /\ gpuLock = None /\ gpuLock' = r
    BY <1>6 DEF Acquire, Goto
  <2>2. Serving' = Serving
    BY <2>1, ServingStays DEF InFlight, Target
  <2>3. \A q \in Requests : pc'[q] \in Locked => q = r
    BY <2>1, RequestsAssumption DEF LockIsHeld, Locked
  <2> QED BY <1>0, <2>1, <2>2, <2>3, RequestsAssumption DEF RInv, Locked
<1>7. ASSUME NEW r \in Requests, Load(r) PROVE RInv'
  <2>1. /\ UNCHANGED <<status, gpuLock, job, previous>>
        /\ pc[r] = "loading" /\ pc' = [pc EXCEPT ![r] = "smoke"]
        /\ Target(r) \notin loaded[DefaultHost]
        /\ loaded' = [loaded EXCEPT ![DefaultHost] = @ \cup {Target(r)}]
    BY <1>j, <1>7 DEF Load, Goto
  <2>2. Serving' = Serving
    BY <2>1, ServingStays DEF InFlight, Target
  <2>3. gpuLock' # None /\ \A q \in Requests : pc'[q] \in Locked => q = r
    BY <2>1, RequestsAssumption DEF LockIsHeld, Locked
  <2>4. loaded[DefaultHost] = Serving
    BY <2>1 DEF RInv
  <2> QED BY <1>0, <2>1, <2>2, <2>3, <2>4 DEF RInv, Locked, Target
<1>8. ASSUME NEW r \in Requests, SmokePasses(r) PROVE RInv'
  <2>1. /\ UNCHANGED <<status, gpuLock, job, previous>>
        /\ pc[r] = "smoke"
        /\ pc' = [pc EXCEPT ![r] = "marking"] \/ pc' = [pc EXCEPT ![r] = "retiring"]
    BY <1>8 DEF SmokePasses, Goto
  <2>2. Serving' = Serving
    BY <2>1, ServingStays DEF InFlight, Target
  <2>3. gpuLock' # None /\ \A q \in Requests : pc'[q] \in Locked => q = r
    BY <2>1, RequestsAssumption DEF LockIsHeld, Locked
  <2>4. /\ Target(r) \notin Serving /\ Target(r) # previous[r]
        /\ loaded[DefaultHost] = Serving \cup {Target(r)}
    BY <2>1 DEF RInv, PreviousDiffers
  <2>5. /\ loaded'[DefaultHost] = (Serving \ {previous[r]}) \cup {Target(r)}
        /\ \A h \in Hosts \ {DefaultHost} : loaded'[h] = loaded[h]
    <3>1. CASE previous[r] = None
      <4>1. UNCHANGED loaded
        BY <1>8, <3>1 DEF SmokePasses
      <4>2. None \notin Serving
        BY VersionsAssumption DEF Serving
      <4> QED BY <2>4, <3>1, <4>1, <4>2
    <3>2. CASE previous[r] # None
      <4>1. loaded' = [loaded EXCEPT ![DefaultHost] = @ \ {previous[r]}]
        BY <1>0, <1>j, <1>8, <2>1, <3>2, UnloadRemoves DEF SmokePasses
      <4> QED BY <1>0, <2>4, <4>1
    <3> QED BY <3>1, <3>2
  <2>6. pc'[r] \in {"marking", "retiring"} /\ Target(r)' = Target(r) /\ previous'[r] = previous[r]
    BY <2>1 DEF Target
  <2> QED BY <1>0, <2>2, <2>3, <2>4, <2>5, <2>6 DEF RInv, Locked
<1>9. ASSUME NEW r \in Requests, RetirePrevious(r) PROVE RInv'
  <2>1. /\ UNCHANGED <<status, loaded, gpuLock, job, previous>>
        /\ pc[r] = "retiring" /\ pc' = [pc EXCEPT ![r] = "marking"]
    BY <1>9 DEF RetirePrevious, Goto
  <2>2. Serving' = Serving
    BY <2>1, ServingStays DEF InFlight, Target
  <2>3. gpuLock' # None /\ \A q \in Requests : pc'[q] \in Locked => q = r
    BY <2>1, RequestsAssumption DEF LockIsHeld, Locked
  <2> QED BY <1>0, <2>1, <2>2, <2>3 DEF RInv, Locked, Target
<1>10. ASSUME NEW r \in Requests, MarkDeployed(r) PROVE RInv'
  <2>1. /\ UNCHANGED <<status, loaded, job, previous>>
        /\ pc[r] = "marking" /\ pc'[r] \in {"restoring", "committing"}
        /\ \A q \in Requests \ {r} : pc'[q] = pc[q]
        /\ gpuLock = r /\ gpuLock' = None
        /\ IndexFree(r) /\ ~IndexConflict(r)
    BY <1>10 DEF MarkDeployed, Goto, ReleaseGpu, LockIsHeld, Locked
  <2>2. \A u \in Versions \ {Target(r)} : status[u] = "DEPLOYED" => u = previous[r]
    BY <2>1 DEF IndexConflict, Seen, WritesPlanned, Planned, InFlight
  <2>3. Serving = {v \in Versions : status[v] = "DEPLOYED"}
    BY <2>1 DEF Serving, Moving, IndexFree, InFlight
  <2>4. loaded[DefaultHost] = {Target(r)}
    BY <2>1, <2>2, <2>3 DEF RInv
  <2>5. Serving' = {Target(r)}
    BY <1>j, <2>1 DEF Serving, Moving, IndexFree, InFlight, Target
  <2>6. \A q \in Requests : pc'[q] \notin Locked
    BY <2>1 DEF LockIsHeld, Locked
  <2> QED BY <1>0, <2>1, <2>4, <2>5, <2>6 DEF RInv, Locked
<1>11. ASSUME NEW r \in Requests, RestorePrevious(r) PROVE FALSE
  BY <1>j, <1>11 DEF RestorePrevious, JobFits
<1>12. ASSUME NEW r \in Requests, Commit(r) PROVE RInv'
  <2>1. /\ pc[r] = "committing" /\ End(r) /\ UNCHANGED <<loaded, gpuLock>> /\ gpuLock # r
        /\ job[r].op = "move" /\ Target(r) \in Versions
    BY <1>j, <1>12 DEF Commit, LockIsHeld, Locked, JobFits
  <2>2. Serving = {Target(r)}
    BY <2>1, ServingOfMove DEF InFlight
  <2>3. ~Moving'
    BY <2>1 DEF Moving, InFlight, OneInFlight, End, Goto
  <2>4. status'[Target(r)] = "DEPLOYED"
    BY <1>12, <2>1, StatusAssumption
       DEF Commit, Merged, Seen, WritesPlanned, Planned, HandsBack, InFlight,
           PreviousDiffers, Status
  <2>5. Serving' = {Target(r)}
    BY <2>1, <2>3, <2>4 DEF Serving, AtMostOneDeployed
  <2> QED BY <2>1, <2>2, <2>5, EndKeepsRInv
<1>13. ASSUME NEW r \in Requests, Abort(r) PROVE FALSE
  BY <1>13 DEF Abort
<1>14. CASE UNCHANGED vars
  <2>1. Serving' = Serving
    BY <1>14, ServingStays DEF vars, InFlight, Target
  <2> QED BY <1>0, <1>14, <2>1 DEF vars, RInv, Target
<1> QED
  BY <1>1, <1>2, <1>3, <1>4, <1>5, <1>6, <1>7, <1>8, <1>9, <1>10, <1>11, <1>12,
     <1>13, <1>14 DEF LegacyNext, Next, Progress

(* Without faults, and without the ladder, exactly the adapter of the      *)
(* production version is resident once nothing runs, however the deploys   *)
(* and rollbacks of any number of requests have raced for the pointer.     *)
THEOREM LegacyResidency ==
    ASSUME Faults = {}
    PROVE  FlowSpec => []LegacyOnlyPointerResident
<1> DEFINE Legacy == flow = "legacy" => FInv /\ RInv
<1>1. FlowInit => IInv /\ Legacy
  BY InitIInv, InitFInv, InitRInv DEF FlowInit
<1>2. IInv /\ [FlowNext]_flowVars => IInv'
  BY NextIInv DEF FlowNext, flowVars
<1>3. IInv /\ IInv' /\ Legacy /\ [FlowNext]_flowVars => Legacy'
  <2> SUFFICES ASSUME IInv, IInv', Legacy, [FlowNext]_flowVars, flow' = "legacy"
               PROVE  FInv' /\ RInv'
    OBVIOUS
  <2>1. flow = "legacy"
    BY DEF FlowNext, flowVars
  <2>2. LegacyNext
    BY <2>1 DEF FlowNext, flowVars, vars, LegacyNext, Admitted, InFlow
  <2> QED BY <2>1, <2>2, NextFInv, NextRInv
<1>4. IInv /\ Legacy => LegacyOnlyPointerResident
  <2> SUFFICES ASSUME IInv, RInv, Quiescent
               PROVE  \A h \in Hosts :
                          loaded[h] = IF h = HostOf["default"]
                                        THEN {v \in Versions : status[v] = "DEPLOYED"}
                                        ELSE {}
    BY DEF LegacyOnlyPointerResident, OnlyPointerResident
  <2>1. gpuLock = None /\ ~Moving
    BY DEF IInv, Typing, TypeOK, LockIsHeld, Locked, Quiescent, Moving, InFlight
  <2> QED BY <2>1 DEF RInv, Serving, DefaultHost
<1> QED BY <1>1, <1>2, <1>3, <1>4, PTL DEF FlowSpec

-----------------------------------------------------------------------------
(* The DEPLOYED version is resident in the default server, or a request    *)
(* that supersedes it will retire it: it has passed its smoke test, and    *)
(* nothing but its own abort keeps it from ending.  A request that loaded  *)
(* the DEPLOYED version itself found it missing, so another one supersedes *)
(* it.                                                                     *)
Superseded(v) ==
    \E r \in Requests :
        pc[r] \in {"retiring", "marking", "committing"} /\ previous[r] = v

AInv ==
    /\ \A v \in Versions :
           status[v] = "DEPLOYED" => v \in loaded[DefaultHost] \/ Superseded(v)
    /\ \A r \in Requests :
           pc[r] = "smoke" /\ status[Target(r)] = "DEPLOYED" => Superseded(Target(r))

LEMMA InitAInv == Init => AInv
  BY DEF Init, AInv

(* A step that unloads nothing, starts no smoke test and makes no version  *)
(* DEPLOYED is harmless unless it ends a request that supersedes one.      *)
LEMMA QuietKeepsAInv ==
    ASSUME AInv, TypeOK,
           DefaultHost \in Hosts, loaded[DefaultHost] \subseteq loaded'[DefaultHost],
           \A v \in Versions : status'[v] = "DEPLOYED" => status[v] = "DEPLOYED",
           \A q \in Requests : pc[q] \in {"retiring", "marking", "committing"} =>
               /\ pc'[q] \in {"retiring", "marking", "committing"}
               /\ previous'[q] = previous[q],
           \A q \in Requests : pc'[q] = "smoke" =>
               pc[q] = "smoke" /\ Target(q)' = Target(q) /\ Target(q) \in Versions
    PROVE  AInv'
<1>1. \A v \in Versions : Superseded(v) => Superseded(v)'
  BY DEF Superseded
<1>2. DefaultHost' = DefaultHost
  BY DEF DefaultHost
<1> QED BY <1>1, <1>2 DEF AInv

LEMMA NextAInv ==
    "abort" \notin Faults /\ IInv /\ IInv' /\ FInv /\ LInv /\ AInv /\ LegacyNext => AInv'
<1> SUFFICES ASSUME "abort" \notin Faults, IInv, IInv', FInv, LInv, AInv, LegacyNext
             PROVE  AInv'
  OBVIOUS
<1> USE DEF IInv, Typing, TypeOK
<1>0. DefaultHost \in Hosts /\ DefaultHost' = DefaultHost
  BY HostsAssumption DEF DefaultHost, Environments
<1>j. \A r \in Requests : pc[r] # "idle" =>
          /\ job[r] # None /\ Target(r) \in Versions /\ Host(r) = DefaultHost
          /\ job[r].op \in {"promote", "reject", "move"}
  BY DEF JobFits, Jobs, Target, Host, DefaultHost, FInv, LegacyJobs
<1>1. ASSUME NEW v \in Versions, Evaluate(v) PROVE AInv'
  BY <1>0, <1>j, <1>1, QuietKeepsAInv DEF Evaluate, Target
<1>2. ASSUME NEW r \in Requests, Arrive(r) PROVE AInv'
  <2>1. PICK op \in Operations, v \in Versions, env \in Environments :
            Arrives(r, op, v, env)
    BY <1>2, ArriveArrives
  <2> QED BY <1>0, <1>j, <2>1, QuietKeepsAInv DEF Arrives, Target
<1>3. ASSUME NEW r \in Requests, Write(r) \/ LockTimeout(r) \/ LoadFails(r) PROVE AInv'
  <2>1. /\ End(r) /\ pc[r] \in {"writing", "waiting", "loading"}
        /\ \A v \in Versions : status'[v] = "DEPLOYED" => status[v] = "DEPLOYED"
    BY <1>3 DEF Write, DecidedStatus, LockTimeout, LoadFails, AnswerLost
  <2>2. loaded[DefaultHost] \subseteq loaded'[DefaultHost]
    BY <1>0, <1>3 DEF Write, LockTimeout, LoadFails, AnswerLost
  <2> QED BY <1>0, <1>j, <2>1, <2>2, QuietKeepsAInv DEF End, Goto, Target
<1>4. ASSUME NEW r \in Requests, Acquire(r) PROVE AInv'
  <2>1. /\ UNCHANGED <<status, loaded, job>> /\ pc[r] = "waiting"
        /\ pc' = [pc EXCEPT ![r] = "loading"]
        /\ \A q \in Requests \ {r} : previous'[q] = previous[q]
    BY <1>4 DEF Acquire, Goto
  <2> QED BY <1>0, <1>j, <2>1, QuietKeepsAInv DEF Target
<1>5. ASSUME NEW r \in Requests, Load(r) PROVE AInv'
  <2>1. /\ UNCHANGED <<status, job, previous>>
        /\ pc[r] = "loading" /\ pc' = [pc EXCEPT ![r] = "smoke"]
        /\ Target(r) \in Versions /\ Target(r) \notin loaded[DefaultHost]
        /\ loaded[DefaultHost] \subseteq loaded'[DefaultHost]
    BY <1>0, <1>j, <1>5 DEF Load, Goto
  <2>2. \A v \in Versions : Superseded(v) => Superseded(v)'
    BY <2>1 DEF Superseded
  <2>3. status[Target(r)] = "DEPLOYED" => Superseded(Target(r))
    BY <2>1 DEF AInv
  <2>4. \A q \in Requests : pc'[q] = "smoke" => q = r \/ pc[q] = "smoke"
    BY <2>1
  <2> QED BY <1>0, <1>j, <2>1, <2>2, <2>3, <2>4 DEF AInv, Target
<1>6. ASSUME NEW r \in Requests, SmokePasses(r) PROVE AInv'
  <2>1. /\ UNCHANGED <<status, job, previous>>
        /\ pc[r] = "smoke" /\ pc'[r] \in {"marking", "retiring"}
        /\ \A q \in Requests \ {r} : pc'[q] = pc[q]
    BY <1>6 DEF SmokePasses, Goto
  <2>2. \A v \in Versions : Superseded(v) => Superseded(v)'
    BY <2>1 DEF Superseded
  <2>3. \A v \in Versions : v \in loaded[DefaultHost] =>
            v \in loaded'[DefaultHost] \/ v = previous[r]
    BY <1>0, <1>j, <1>6, <2>1, UnloadTakesOne DEF SmokePasses
  <2>4. previous[r] # None => Superseded(previous[r])'
    BY <2>1 DEF Superseded
  <2>5. \A v \in Versions :
            status'[v] = "DEPLOYED" => v \in loaded'[DefaultHost] \/ Superseded(v)'
    BY <2>1, <2>2, <2>3, <2>4, VersionsAssumption DEF AInv
  <2>6. ASSUME NEW q \in Requests, pc'[q] = "smoke" PROVE FALSE
    BY <2>1, <2>6 DEF LockIsHeld, Locked
  <2> QED BY <1>0, <2>5, <2>6 DEF AInv
<1>7. ASSUME NEW r \in Requests, SmokeFails(r) \/ Conflict(r) PROVE AInv'
  <2>1. /\ End(r) /\ UNCHANGED status /\ pc[r] \in {"smoke", "marking"}
        /\ Unload(Host(r), Target(r), loaded)
    BY <1>7 DEF SmokeFails, Conflict
  <2>2. \A v \in Versions \ {Target(r)} :
            v \in loaded[DefaultHost] => v \in loaded'[DefaultHost]
    BY <1>0, <1>j, <2>1, UnloadTakesOne
  <2>3. \A q \in Requests : pc'[q] \notin Locked
    BY <2>1 DEF LockIsHeld, Locked, End, Goto
  <2>4. ASSUME NEW v \in Versions, status[v] = "DEPLOYED"
        PROVE  v \in loaded'[DefaultHost] \/ Superseded(v)'
    <3>1. CASE SmokeFails(r)
      <4>1. pc[r] = "smoke" /\ \A q \in Requests \ {r} :
                pc'[q] = pc[q] /\ previous'[q] = previous[q]
        BY <2>1, <3>1 DEF SmokeFails, End, Goto
      <4>2. Superseded(v) => Superseded(v)'
        BY <4>1 DEF Superseded
      <4>3. v = Target(r) => Superseded(v)
        BY <2>4, <4>1 DEF AInv
      <4> QED BY <2>2, <2>4, <4>2, <4>3 DEF AInv
    <3>2. CASE Conflict(r)
      <4>1. pc[r] = "marking" /\ IndexFree(r)
        BY <3>2 DEF Conflict
      <4>2. PICK u \in Versions \ {Target(r)} : Seen(r, u) = "DEPLOYED"
        BY <3>2 DEF Conflict, IndexConflict
      <4>3. status[u] = "DEPLOYED" /\ u # previous[r]
        BY <4>1, <4>2, StatusAssumption
           DEF Seen, WritesPlanned, Planned, HandsBack, InFlight, Status
      <4>4. v = u
        BY <2>4, <4>3 DEF AtMostOneDeployed
      <4>5. ~Superseded(v)
        <5> SUFFICES ASSUME NEW q \in Requests,
                            pc[q] \in {"retiring", "marking", "committing"},
                            previous[q] = v
                     PROVE  FALSE
          BY DEF Superseded
        <5>1. q # r
          BY <4>3, <4>4
        <5>2. pc[q] = "committing"
          BY <4>1, <5>1 DEF LockIsHeld, Locked
        <5> QED BY <4>1, <5>1, <5>2 DEF IndexFree, InFlight
      <4> QED BY <2>2, <2>4, <4>2, <4>4, <4>5 DEF AInv
    <3> QED BY <1>7, <3>1, <3>2
  <2> QED BY <1>0, <2>1, <2>3, <2>4 DEF AInv, Locked
<1>8. ASSUME NEW r \in Requests, RetirePrevious(r) \/ MarkDeployed(r) PROVE AInv'
  <2>1. /\ UNCHANGED <<status, loaded, job, previous>>
        /\ pc[r] \in {"retiring", "marking"} /\ pc'[r] \in {"marking", "committing"}
        /\ \A q \in Requests \ {r} : pc'[q] = pc[q]
    BY <1>j, <1>8 DEF RetirePrevious, MarkDeployed, Goto
  <2> QED BY <1>0, <1>j, <2>1, QuietKeepsAInv DEF Target
<1>9. ASSUME NEW r \in Requests, RestorePrevious(r) PROVE FALSE
  BY <1>j, <1>9 DEF RestorePrevious, JobFits
<1>10. ASSUME NEW r \in Requests, Commit(r) PROVE AInv'
  <2>1. /\ pc[r] = "committing" /\ End(r) /\ UNCHANGED loaded
        /\ job[r].op = "move" /\ Target(r) \in Versions /\ Target(r) # previous[r]
    BY <1>j, <1>10 DEF Commit, PreviousDiffers, JobFits
  <2>2. status'[Target(r)] = "DEPLOYED"
    BY <1>10, <2>1, StatusAssumption
       DEF Commit, Merged, Seen, WritesPlanned, Planned, HandsBack, InFlight, Status
  <2>3. \A v \in Versions : status'[v] = "DEPLOYED" => v = Target(r)
    BY <2>1, <2>2 DEF AtMostOneDeployed
  <2>4. \A q \in Requests \ {r} :
            /\ pc'[q] = pc[q] /\ Target(q)' = Target(q) /\ previous'[q] = previous[q]
            /\ pc[q] # "committing"
    BY <2>1 DEF End, Goto, Target, OneInFlight, InFlight
  <2>5. pc'[r] = "idle"
    BY <2>1 DEF End, Goto
  <2>6. \A v \in Versions : v = Target(r) /\ Superseded(v) => Superseded(v)'
    BY <2>1, <2>4 DEF Superseded
  <2>7. Target(r) \in loaded[DefaultHost] \/ Superseded(Target(r))
    <3>1. CASE status[Target(r)] = "DEPLOYED"
      BY <2>1, <3>1 DEF AInv
    <3>2. CASE status[Target(r)] # "DEPLOYED"
      BY <1>j, <2>1, <3>2 DEF LInv, InFlight, Resident
    <3> QED BY <3>1, <3>2
  <2>8. ASSUME NEW q \in Requests, pc'[q] = "smoke", status'[Target(q)'] = "DEPLOYED"
        PROVE  FALSE
    <3>1. q # r /\ pc[q] = "smoke" /\ Target(q) = Target(r) /\ Target(q)' = Target(q)
      BY <1>j, <2>3, <2>4, <2>5, <2>8
    <3>2. Host(q) = Host(r)
      BY <1>j, <2>1, <3>1
    <3>3. status[Target(r)] = "DEPLOYED"
      BY <2>1, <3>1, <3>2 DEF LInv, InFlight, Threatens, Locked
    <3>4. PICK p \in Requests :
              pc[p] \in {"retiring", "marking", "committing"} /\ previous[p] = Target(r)
      BY <3>1, <3>3 DEF AInv, Superseded
    <3>5. p # r /\ p # q
      BY <2>1, <3>1, <3>4
    <3>6. pc[p] \in {"retiring", "marking"}
      BY <2>4, <3>4, <3>5
    <3> QED BY <3>1, <3>5, <3>6 DEF LockIsHeld, Locked
  <2> QED BY <1>0, <2>1, <2>3, <2>6, <2>7, <2>8 DEF AInv
<1>11. ASSUME NEW r \in Requests, Abort(r) PROVE FALSE
  BY <1>11 DEF Abort
<1>12. CASE UNCHANGED vars
  BY <1>0, <1>j, <1>12, QuietKeepsAInv DEF vars, Target
<1> QED
  BY <1>1, <1>2, <1>3, <1>4, <1>5, <1>6, <1>7, <1>8, <1>9, <1>10, <1>11, <1>12
     DEF LegacyNext, Next, Progress

(* Without the ladder, and while no handler is killed, the prod alias      *)
(* points at a resident adapter whenever nothing runs, although unloads    *)
(* fail, loads are carried out without an answer, and the requests of any  *)
(* number of administrators overlap.                                       *)
THEOREM LegacyProdAliasServes ==
    ASSUME "abort" \notin Faults
    PROVE  FlowSpec => [](flow = "legacy" => ProdAliasServes)
<1> DEFINE Legacy == flow = "legacy" => FInv /\ AInv
<1>1. FlowInit => IInv /\ LInv /\ Legacy
  BY InitIInv, InitLInv, InitFInv, InitAInv DEF FlowInit
<1>2. IInv /\ LInv /\ [FlowNext]_flowVars => IInv' /\ LInv'
  BY NextIInv, NextLInv DEF FlowNext, flowVars
<1>3. IInv /\ IInv' /\ LInv /\ Legacy /\ [FlowNext]_flowVars => Legacy'
  <2> SUFFICES ASSUME IInv, IInv', LInv, Legacy, [FlowNext]_flowVars, flow' = "legacy"
               PROVE  FInv' /\ AInv'
    OBVIOUS
  <2>1. flow = "legacy"
    BY DEF FlowNext, flowVars
  <2>2. LegacyNext
    BY <2>1 DEF FlowNext, flowVars, vars, LegacyNext, Admitted, InFlow
  <2> QED BY <2>1, <2>2, NextFInv, NextAInv
<1>4. Legacy => (flow = "legacy" => ProdAliasServes)
  BY DEF AInv, ProdAliasServes, Quiescent, Superseded, DefaultHost
<1> QED BY <1>1, <1>2, <1>3, <1>4, PTL DEF FlowSpec
=============================================================================
