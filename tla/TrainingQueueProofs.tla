------------------------ MODULE TrainingQueueProofs ------------------------
(***************************************************************************)
(* Proofs about TrainingQueue, for every number of workers and of runs,    *)
(* every way to start a worker and every choice of faults.                 *)
(***************************************************************************)
EXTENDS TrainingQueue, TLAPS

\* The steps at which a worker works on a run that it selected, that it claimed.
Selected == {"locking", "preflight", "claiming"}
Attending == {"running", "completing", "failing", "registering"}

JobFits ==
    \A w \in Workers :
        /\ pc[w] \in Selected \cup Attending => job[w] # None
        /\ recount[w] => job[w] # None

Typing == TypeOK /\ JobFits

LockIsHeld ==
    \A w \in Workers : pc[w] \in (Selected \cup Attending) \ {"locking"} => gpuLock = w

\* A row is written by one open transaction.
RowLocked ==
    \A q, w \in Workers, r \in Runs :
        writes[q][r] # None /\ writes[w][r] # None => q = w

\* Between the completion and the commit, a worker has written its own run.
Completing ==
    \A w \in Workers :
        /\ pc[w] = "registering" => writes[w][job[w]] = "COMPLETED"
        /\ number[w] # None =>
             pc[w] = "committing" /\ job[w] # None /\ writes[w][job[w]] = "COMPLETED"
        /\ \A r \in Runs : writes[w][r] = "COMPLETED" =>
             r = job[w] /\ (pc[w] = "registering" \/ number[w] # None)

\* A run with a version has ended, and no transaction opens it again.
VersionsClosed ==
    \A v \in versions :
        /\ status[v.run] \in {"COMPLETED", "FAILED"}
        /\ \A w \in Workers : writes[w][v.run] \in {None, "FAILED"}

\* A run that is worked on has no version, and none is about to be committed.
AttendedOpen ==
    \A w \in Workers : pc[w] \in Attending =>
        /\ \A v \in versions : v.run # job[w]
        /\ \A q \in Workers \ {w} : writes[q][job[w]] # "COMPLETED"

IInv ==
    /\ Typing
    /\ LockIsHeld
    /\ RowLocked
    /\ Completing
    /\ VersionsClosed
    /\ AttendedOpen
    /\ OneVersionPerRun

-----------------------------------------------------------------------------
LEMMA SeenTypes ==
    ASSUME TypeOK, NEW w \in Workers, NEW r \in Runs
    PROVE  Seen(w, r) \in Status
  BY DEF TypeOK, Seen

LEMMA RecountedTypes ==
    ASSUME Typing, NEW w \in Workers
    PROVE  Recounted(w) \in [Runs -> 0..MaxStaleRetries]
<1> USE DEF Typing, TypeOK, JobFits
<1>1. CASE recount[w]
  <2>1. job[w] \in Runs
    BY <1>1
  <2> QED BY <1>1, <2>1 DEF Recounted
<1>2. CASE ~recount[w]
  BY <1>2 DEF Recounted
<1> QED BY <1>1, <1>2

(* A version is registered for the run that its worker completed.          *)
LEMMA RegisteredTypes ==
    ASSUME Typing, Completing, NEW w \in Workers
    PROVE  Registered(w) \subseteq [run : Runs, number : Numbers]
<1>1. CASE number[w] = None
  BY <1>1 DEF Registered
<1>2. CASE number[w] # None
  <2>1. job[w] \in Runs /\ number[w] \in Numbers
    BY <1>2 DEF Typing, TypeOK, Completing
  <2> QED BY <1>2, <2>1 DEF Registered
<1> QED BY <1>1, <1>2

\* The actions that go on to the next step without a write, and those that write
\* one row.
Waits(w) ==
    \/ QueueEmpty(w) \/ LockTimeout(w) \/ AcquireGpu(w) \/ Preflight(w)
    \/ PreflightFails(w)

Trains(w) == ProgressRefused(w) \/ TrainingEnds(w) \/ Restart(w)

WritesOne(w) == ForceFailed(w) \/ Complete(w) \/ Fail(w) \/ TouchHeartbeat(w)

RollsBack(w) == Dies(w) /\ crashes' \in 0..MaxCrashes

(* The cases of a step.                                                    *)
LEMMA NextCases ==
    ASSUME TypeOK, [Next]_vars
    PROVE  \/ \E p \in Ranks, route \in AllRoutes : Create(p, route)
           \/ \E r \in Runs : HeartbeatLapses(r)
           \/ \E w \in Workers :
                \/ MarkStaleRuns(w) \/ NextClaimableRun(w) \/ Waits(w)
                \/ WritesOne(w) \/ Claim(w) \/ ClaimLost(w) \/ Refresh(w)
                \/ RollsBack(w) \/ Progress(w) \/ Trains(w) \/ Register(w)
                \/ Commit(w)
           \/ UNCHANGED vars
<1>1. ASSUME CreateTrainingRun \/ \E r \in Runs : RetryTrainingRun(r)
      PROVE  \E p \in Ranks, route \in AllRoutes : Create(p, route)
  <2>1. 1 \in Ranks /\ Priorities \subseteq Ranks /\ Routes \subseteq AllRoutes
    BY RequestAssumption DEF Ranks
  <2>2. \A r \in Runs : request[r].route \in AllRoutes
    BY DEF TypeOK
  <2> QED BY <1>1, <2>1, <2>2 DEF CreateTrainingRun, RetryTrainingRun
<1>2. ASSUME NEW w \in Workers,
             RouteFails(w) \/ TransitionRefused(w) \/ RegisterRefused(w) \/ Crash(w)
      PROVE  RollsBack(w)
  <2>1. crashes \in 0..MaxCrashes
    BY DEF TypeOK
  <2> QED
    BY <1>2, <2>1, BoundsAssumption
       DEF RouteFails, TransitionRefused, RegisterRefused, Crash, RollsBack
<1> QED BY <1>1, <1>2 DEF Next, Work, Waits, Trains, WritesOne

-----------------------------------------------------------------------------
LEMMA InitTyping == Init => Typing
  BY RunsAssumption, BoundsAssumption
     DEF Init, Typing, TypeOK, JobFits, Status, Steps, Ranks, AllRoutes, Untouched,
         Selected, Attending

LEMMA NextTyping == Typing /\ Completing /\ [Next]_vars => Typing'
<1> SUFFICES ASSUME Typing, Completing, [Next]_vars PROVE Typing'
  OBVIOUS
<1> USE DEF Typing, TypeOK, JobFits, Steps, Selected, Attending, Status,
        Untouched,
            rows, session
<1>1. ASSUME NEW p \in Ranks, NEW route \in AllRoutes, Create(p, route)
      PROVE Typing'
  BY <1>1, RunsAssumption DEF Create, Runs
<1>2. ASSUME NEW r \in Runs, HeartbeatLapses(r) PROVE Typing'
  BY <1>2 DEF HeartbeatLapses
<1>3. ASSUME NEW w \in Workers, MarkStaleRuns(w) PROVE Typing'
  BY <1>3 DEF MarkStaleRuns, Goto
<1>4. ASSUME NEW w \in Workers, NextClaimableRun(w) PROVE Typing'
  <2>1. PICK r \in Candidates(w) :
            /\ job' = [job EXCEPT ![w] = r]
            /\ known' = [known EXCEPT ![w] = Seen(w, r)]
            /\ tried' = [tried EXCEPT ![w] = retries[r]]
    BY <1>4 DEF NextClaimableRun
  <2>2. r \in Runs /\ Seen(w, r) \in Status
    BY SeenTypes DEF Candidates
  <2> QED BY <1>4, <2>1, <2>2, RunsAssumption DEF NextClaimableRun, Goto
<1>5. ASSUME NEW w \in Workers, Waits(w) PROVE Typing'
  BY ZenonT(30), <1>5 DEF Waits, QueueEmpty, LockTimeout, AcquireGpu, Preflight,
              PreflightFails, GiveUp,
              Goto, ReleaseGpu
<1>6. ASSUME NEW w \in Workers, WritesOne(w) PROVE Typing'
  <2>1. CASE ForceFailed(w)
    BY <2>1 DEF ForceFailed, Flush, ReleaseGpu, Goto
  <2>2. CASE Complete(w)
    BY <2>2 DEF Complete, Flush, Goto
  <2>3. CASE Fail(w)
    BY <2>3 DEF Fail, Flush, ReleaseGpu, Goto
  <2>4. CASE TouchHeartbeat(w)
    BY <2>4 DEF TouchHeartbeat, Executing, Flush
  <2> QED BY <1>6, <2>1, <2>2, <2>3, <2>4 DEF WritesOne
<1>7. ASSUME NEW w \in Workers, Claim(w) \/ ClaimLost(w) PROVE Typing'
  <2>1. known[w] = "STALE" => tried[w] + 1 \in 0..MaxStaleRetries
    BY <1>7, BoundsAssumption DEF Claim, ClaimLost, Exhausted
  <2>2. CountRetry(w)
    BY <1>7 DEF Claim, ClaimLost
  <2>3. tried' \in [Workers -> 0..MaxStaleRetries] /\ recount' \in [Workers -> BOOLEAN]
    BY <2>1, <2>2 DEF CountRetry
  <2>4. \A q \in Workers : recount'[q] => recount[q] \/ q = w
    BY <2>2 DEF CountRetry
  <2>5. CASE Claim(w)
    BY <2>3, <2>4, <2>5 DEF Claim, Flush, Goto
  <2>6. CASE ClaimLost(w)
    BY <2>3, <2>4, <2>6 DEF ClaimLost, ReleaseGpu, Goto
  <2> QED BY <1>7, <2>5, <2>6
<1>8. ASSUME NEW w \in Workers, Refresh(w) PROVE Typing'
  BY <1>8, SeenTypes DEF Refresh, Executing
<1>9. ASSUME NEW w \in Workers, RollsBack(w) PROVE Typing'
  BY <1>9, BoundsAssumption DEF RollsBack, Dies, ReleaseGpu, Goto, Forget
<1>10. ASSUME NEW w \in Workers, Progress(w) PROVE Typing'
  <2>1. job[w] \in Runs /\ \A r \in Runs : Seen(w, r) \in Status
    BY <1>10, SeenTypes DEF Progress
  <2>2. status' \in [Runs -> Status]
    BY <1>10, <2>1 DEF Progress
  <2>3. retries' \in [Runs -> 0..MaxStaleRetries]
    BY <1>10, RecountedTypes DEF Progress
  <2>4. lapsed' \in [Runs -> BOOLEAN]
    BY ZenonT(30), <1>10, <2>1 DEF Progress
  <2> QED BY <1>10, <2>2, <2>3, <2>4 DEF Progress
<1>11. ASSUME NEW w \in Workers, Trains(w) PROVE Typing'
  <2>1. CASE ProgressRefused(w)
    BY <2>1 DEF ProgressRefused, Goto
  <2>2. CASE TrainingEnds(w)
    BY <2>2 DEF TrainingEnds, Goto
  <2>3. CASE Restart(w)
    BY <2>3 DEF Restart, Goto
  <2> QED BY <1>11, <2>1, <2>2, <2>3 DEF Trains
<1>12. ASSUME NEW w \in Workers, Register(w) PROVE Typing'
  BY <1>12 DEF Register, ReleaseGpu, Goto
<1>13. ASSUME NEW w \in Workers, Commit(w) PROVE Typing'
  <2>1. status' \in [Runs -> Status]
    BY <1>13, SeenTypes DEF Commit
  <2>2. retries' \in [Runs -> 0..MaxStaleRetries]
    BY <1>13, RecountedTypes DEF Commit
  <2>3. versions' \subseteq [run : Runs, number : Numbers]
    BY <1>13, RegisteredTypes DEF Commit
  <2> QED BY <1>13, <2>1, <2>2, <2>3, BoundsAssumption DEF Commit, Forget, Goto
<1>14. CASE UNCHANGED vars
  BY <1>14 DEF vars
<1> HIDE DEF Typing, TypeOK, JobFits, rows, session
<1>15. TypeOK
  BY DEF Typing
<1> QED
  BY <1>1, <1>2, <1>3, <1>4, <1>5, <1>6, <1>7, <1>8, <1>9, <1>10, <1>11, <1>12, <1>13,
     <1>14, <1>15, NextCases

-----------------------------------------------------------------------------
(* A worker that trains holds the GPU lock, whoever else waits for it.     *)
LEMMA NextLock == Typing /\ LockIsHeld /\ [Next]_vars => LockIsHeld'
<1> SUFFICES ASSUME Typing, LockIsHeld, [Next]_vars PROVE LockIsHeld'
  OBVIOUS
<1> USE WorkersAssumption DEF Typing, TypeOK, LockIsHeld, Selected,
        Attending, Steps, rows, session
<1>1. ASSUME NEW p \in Ranks, NEW route \in AllRoutes, Create(p, route)
      PROVE LockIsHeld'
  BY <1>1 DEF Create
<1>2. ASSUME NEW r \in Runs, HeartbeatLapses(r) PROVE LockIsHeld'
  BY <1>2 DEF HeartbeatLapses
<1>3. ASSUME NEW w \in Workers, MarkStaleRuns(w) PROVE LockIsHeld'
  BY <1>3 DEF MarkStaleRuns, Goto
<1>4. ASSUME NEW w \in Workers, NextClaimableRun(w) PROVE LockIsHeld'
  BY <1>4 DEF NextClaimableRun, Goto
<1>5. ASSUME NEW w \in Workers, Waits(w) PROVE LockIsHeld'
  BY <1>5 DEF Waits, QueueEmpty, LockTimeout, AcquireGpu, Preflight,
              PreflightFails, GiveUp, Goto, ReleaseGpu
<1>6. ASSUME NEW w \in Workers, WritesOne(w) PROVE LockIsHeld'
  BY <1>6 DEF WritesOne, ForceFailed, Complete, Fail, TouchHeartbeat, Executing,
              Flush, RowFree, ReleaseGpu, Goto
<1>7. ASSUME NEW w \in Workers, Claim(w) PROVE LockIsHeld'
  BY <1>7 DEF Claim, Flush, RowFree, Goto
<1>8. ASSUME NEW w \in Workers, ClaimLost(w) PROVE LockIsHeld'
  BY <1>8 DEF ClaimLost, ReleaseGpu, Goto
<1>9. ASSUME NEW w \in Workers, Refresh(w) PROVE LockIsHeld'
  BY <1>9 DEF Refresh
<1>10. ASSUME NEW w \in Workers, RollsBack(w) PROVE LockIsHeld'
  BY <1>10 DEF RollsBack, Dies, ReleaseGpu, Goto, Forget, Untouched
<1>11. ASSUME NEW w \in Workers, Progress(w) PROVE LockIsHeld'
  BY <1>11 DEF Progress, Untouched
<1>12. ASSUME NEW w \in Workers, Trains(w) PROVE LockIsHeld'
  BY <1>12 DEF Trains, ProgressRefused, TrainingEnds, Restart, Goto
<1>13. ASSUME NEW w \in Workers, Register(w) PROVE LockIsHeld'
  BY <1>13 DEF Register, ReleaseGpu, Goto
<1>14. ASSUME NEW w \in Workers, Commit(w) PROVE LockIsHeld'
  BY <1>14 DEF Commit, Forget, Goto, Untouched
<1>15. CASE UNCHANGED vars
  BY <1>15 DEF vars
<1> HIDE DEF Typing, TypeOK, LockIsHeld, Selected, Attending, Steps, rows,
         session
<1> QED
  BY <1>1, <1>2, <1>3, <1>4, <1>5, <1>6, <1>7, <1>8, <1>9, <1>10, <1>11, <1>12, <1>13,
     <1>14, <1>15, NextCases DEF Typing

(* Two open transactions never have the same row.                          *)
LEMMA NextRows == Typing /\ RowLocked /\ [Next]_vars => RowLocked'
<1> SUFFICES ASSUME Typing, RowLocked, [Next]_vars PROVE RowLocked'
  OBVIOUS
<1> USE RunsAssumption, StatusAssumption DEF Typing, TypeOK, JobFits,
        RowLocked, Selected, Attending, Status, rows, session
<1>1. ASSUME NEW p \in Ranks, NEW route \in AllRoutes, Create(p, route)
      PROVE RowLocked'
  BY <1>1 DEF Create
<1>2. ASSUME NEW r \in Runs, HeartbeatLapses(r) PROVE RowLocked'
  BY <1>2 DEF HeartbeatLapses
<1>3. ASSUME NEW w \in Workers, MarkStaleRuns(w) PROVE RowLocked'
  <2>1. \A r \in Runs, q \in Workers \ {w} :
           writes'[w][r] # None => writes[q][r] = None
    BY <1>3 DEF MarkStaleRuns, RowFree
  <2>2. \A q \in Workers \ {w} : writes'[q] = writes[q]
    BY <1>3 DEF MarkStaleRuns
  <2>3. ASSUME NEW p \in Workers, NEW q \in Workers, NEW r \in Runs,
               writes'[p][r] # None, writes'[q][r] # None
        PROVE  p = q
    <3>1. CASE p = w
      BY <2>1, <2>2, <2>3, <3>1
    <3>2. CASE q = w
      BY <2>1, <2>2, <2>3, <3>2
    <3>3. CASE p # w /\ q # w
      BY <2>2, <2>3, <3>3
    <3> QED BY <3>1, <3>2, <3>3
  <2> QED BY <2>3
<1>4. ASSUME NEW w \in Workers, NextClaimableRun(w) PROVE RowLocked'
  BY <1>4 DEF NextClaimableRun, Goto
<1>5. ASSUME NEW w \in Workers, Waits(w) PROVE RowLocked'
  BY <1>5 DEF Waits, QueueEmpty, LockTimeout, AcquireGpu, Preflight,
              PreflightFails, GiveUp, Goto, ReleaseGpu
<1>6. ASSUME NEW w \in Workers, WritesOne(w) PROVE RowLocked'
  BY <1>6 DEF WritesOne, ForceFailed, Complete, Fail, TouchHeartbeat, Executing,
              Flush, RowFree, ReleaseGpu, Goto
<1>7. ASSUME NEW w \in Workers, Claim(w) PROVE RowLocked'
  BY <1>7 DEF Claim, Flush, RowFree, Goto
<1>8. ASSUME NEW w \in Workers, ClaimLost(w) PROVE RowLocked'
  BY <1>8 DEF ClaimLost, ReleaseGpu, Goto
<1>9. ASSUME NEW w \in Workers, Refresh(w) PROVE RowLocked'
  BY <1>9 DEF Refresh
<1>10. ASSUME NEW w \in Workers, RollsBack(w) PROVE RowLocked'
  BY <1>10 DEF RollsBack, Dies, ReleaseGpu, Goto, Forget, Untouched
<1>11. ASSUME NEW w \in Workers, Progress(w) PROVE RowLocked'
  BY <1>11 DEF Progress, Untouched
<1>12. ASSUME NEW w \in Workers, Trains(w) PROVE RowLocked'
  BY <1>12 DEF Trains, ProgressRefused, TrainingEnds, Restart, Goto
<1>13. ASSUME NEW w \in Workers, Register(w) PROVE RowLocked'
  BY <1>13 DEF Register, ReleaseGpu, Goto
<1>14. ASSUME NEW w \in Workers, Commit(w) PROVE RowLocked'
  BY <1>14 DEF Commit, Forget, Goto, Untouched
<1>15. CASE UNCHANGED vars
  BY <1>15 DEF vars
<1> HIDE DEF Typing, TypeOK, JobFits, RowLocked, Selected, Attending, Status,
         rows, session
<1> QED
  BY <1>1, <1>2, <1>3, <1>4, <1>5, <1>6, <1>7, <1>8, <1>9, <1>10, <1>11, <1>12, <1>13,
     <1>14, <1>15, NextCases DEF Typing

(* What a worker completed stays written until it is committed with the    *)
(* version.                                                                *)
LEMMA NextCompleting ==
    Typing /\ RowLocked /\ Completing /\ [Next]_vars
    => Completing'
<1> SUFFICES ASSUME Typing, RowLocked, Completing, [Next]_vars
    PROVE  Completing'
  OBVIOUS
<1> USE RunsAssumption, StatusAssumption, NumbersAssumption DEF Typing,
        TypeOK, JobFits, Completing, RowLocked, Selected, Attending, Status,
        rows, session
<1>1. ASSUME NEW p \in Ranks, NEW route \in AllRoutes, Create(p, route)
      PROVE Completing'
  BY <1>1 DEF Create
<1>2. ASSUME NEW r \in Runs, HeartbeatLapses(r) PROVE Completing'
  BY <1>2 DEF HeartbeatLapses
<1>3. ASSUME NEW w \in Workers, MarkStaleRuns(w) PROVE Completing'
  BY <1>3 DEF MarkStaleRuns, Goto
<1>4. ASSUME NEW w \in Workers, NextClaimableRun(w) PROVE Completing'
  BY <1>4 DEF NextClaimableRun, Goto
<1>5. ASSUME NEW w \in Workers, Waits(w) PROVE Completing'
  BY <1>5 DEF Waits, QueueEmpty, LockTimeout, AcquireGpu, Preflight,
              PreflightFails, GiveUp, Goto, ReleaseGpu
<1>6. ASSUME NEW w \in Workers, WritesOne(w) PROVE Completing'
  BY <1>6 DEF WritesOne, ForceFailed, Complete, Fail, TouchHeartbeat, Executing,
              Flush, RowFree, ReleaseGpu, Goto
<1>7. ASSUME NEW w \in Workers, Claim(w) PROVE Completing'
  BY <1>7 DEF Claim, Flush, RowFree, Goto
<1>8. ASSUME NEW w \in Workers, ClaimLost(w) PROVE Completing'
  BY <1>8 DEF ClaimLost, ReleaseGpu, Goto
<1>9. ASSUME NEW w \in Workers, Refresh(w) PROVE Completing'
  BY <1>9 DEF Refresh
<1>10. ASSUME NEW w \in Workers, RollsBack(w) PROVE Completing'
  BY <1>10 DEF RollsBack, Dies, ReleaseGpu, Goto, Forget, Untouched
<1>11. ASSUME NEW w \in Workers, Progress(w) PROVE Completing'
  BY <1>11 DEF Progress, Untouched
<1>12. ASSUME NEW w \in Workers, Trains(w) PROVE Completing'
  BY <1>12 DEF Trains, ProgressRefused, TrainingEnds, Restart, Goto
<1>13. ASSUME NEW w \in Workers, Register(w) PROVE Completing'
  BY <1>13 DEF Register, ReleaseGpu, Goto
<1>14. ASSUME NEW w \in Workers, Commit(w) PROVE Completing'
  BY <1>14 DEF Commit, Forget, Goto, Untouched
<1>15. CASE UNCHANGED vars
  BY <1>15 DEF vars
<1> HIDE DEF Typing, TypeOK, JobFits, Completing, RowLocked, Selected,
         Attending, Status, rows, session
<1> QED
  BY <1>1, <1>2, <1>3, <1>4, <1>5, <1>6, <1>7, <1>8, <1>9, <1>10, <1>11, <1>12, <1>13,
     <1>14, <1>15, NextCases DEF Typing

(* A run that can be claimed has no version.                               *)
LEMMA ClaimsOpen ==
    ASSUME Typing, VersionsClosed, NEW w \in Workers, Claim(w)
    PROVE  \A v \in versions : v.run # job[w]
<1>1. ASSUME NEW v \in versions, v.run = job[w] PROVE FALSE
  <2>1. Seen(w, v.run) \in {"PENDING", "STALE"}
    BY <1>1 DEF Claim, Claimable
  <2>2. /\ status[v.run] \in {"COMPLETED", "FAILED"}
        /\ writes[w][v.run] \in {None, "FAILED"}
    BY <1>1 DEF VersionsClosed
  <2> QED BY <2>1, <2>2 DEF Seen
<1> QED BY <1>1

(* Nothing opens a run that has a version.                                 *)
LEMMA NextClosed ==
    Typing /\ RowLocked /\ Completing /\ AttendedOpen /\ VersionsClosed
    /\ [Next]_vars
    => VersionsClosed'
<1> SUFFICES ASSUME Typing, RowLocked, Completing, AttendedOpen,
                    VersionsClosed, [Next]_vars
    PROVE  VersionsClosed'
  OBVIOUS
<1> USE RunsAssumption, StatusAssumption, NumbersAssumption DEF Typing,
        TypeOK, JobFits, VersionsClosed, AttendedOpen, Completing, RowLocked,
        Selected, Attending, Status, rows, session
<1>1. ASSUME NEW p \in Ranks, NEW route \in AllRoutes, Create(p, route)
      PROVE VersionsClosed'
  BY <1>1 DEF Create
<1>2. ASSUME NEW r \in Runs, HeartbeatLapses(r) PROVE VersionsClosed'
  BY <1>2 DEF HeartbeatLapses
<1>3. ASSUME NEW w \in Workers, MarkStaleRuns(w) PROVE VersionsClosed'
  <2>1. \A v \in versions : ~Lapsed(v.run)
    BY DEF Lapsed
  <2> QED BY <1>3, <2>1 DEF MarkStaleRuns
<1>4. ASSUME NEW w \in Workers, NextClaimableRun(w) PROVE VersionsClosed'
  BY <1>4 DEF NextClaimableRun, Goto
<1>5. ASSUME NEW w \in Workers, Waits(w) PROVE VersionsClosed'
  BY <1>5 DEF Waits, QueueEmpty, LockTimeout, AcquireGpu, Preflight,
              PreflightFails, GiveUp, Goto, ReleaseGpu
<1>6. ASSUME NEW w \in Workers, WritesOne(w) PROVE VersionsClosed'
  <2>1. CASE ForceFailed(w)
    BY <2>1 DEF ForceFailed, Flush
  <2>2. CASE Complete(w)
    BY <2>2 DEF Complete, Flush
  <2>3. CASE Fail(w)
    BY <2>3 DEF Fail, Flush
  <2>4. CASE TouchHeartbeat(w)
    BY <2>4 DEF TouchHeartbeat, Executing, Flush
  <2> QED BY <1>6, <2>1, <2>2, <2>3, <2>4 DEF WritesOne
<1>7. ASSUME NEW w \in Workers, Claim(w) PROVE VersionsClosed'
  <2>1. \A v \in versions : v.run # job[w]
    BY <1>7, ClaimsOpen
  <2> QED BY <1>7, <2>1 DEF Claim, Flush
<1>8. ASSUME NEW w \in Workers, ClaimLost(w) PROVE VersionsClosed'
  BY <1>8 DEF ClaimLost, ReleaseGpu, Goto
<1>9. ASSUME NEW w \in Workers, Refresh(w) PROVE VersionsClosed'
  BY <1>9 DEF Refresh
<1>10. ASSUME NEW w \in Workers, RollsBack(w) PROVE VersionsClosed'
  BY <1>10 DEF RollsBack, Dies, ReleaseGpu, Goto, Forget, Untouched
<1>11. ASSUME NEW w \in Workers, Progress(w) PROVE VersionsClosed'
  <2>1. \A v \in versions : Seen(w, v.run) \in {"COMPLETED", "FAILED"}
    BY DEF Seen
  <2>2. /\ status' = [r \in Runs |-> Seen(w, r)]
        /\ versions' = versions
        /\ writes' = [writes EXCEPT ![w] = Untouched]
    BY <1>11 DEF Progress
  <2> QED BY <2>1, <2>2 DEF Untouched
<1>12. ASSUME NEW w \in Workers, Trains(w) PROVE VersionsClosed'
  BY <1>12 DEF Trains, ProgressRefused, TrainingEnds, Restart, Goto
<1>13. ASSUME NEW w \in Workers, Register(w) PROVE VersionsClosed'
  BY <1>13 DEF Register, ReleaseGpu, Goto
<1>14. ASSUME NEW w \in Workers, Commit(w) PROVE VersionsClosed'
  <2>1. \A v \in versions : Seen(w, v.run) \in {"COMPLETED", "FAILED"}
    BY DEF Seen
  <2>2. \A v \in Registered(w) :
           /\ v.run = job[w] /\ v.run \in Runs
           /\ writes[w][v.run] = "COMPLETED"
    BY DEF Registered
  <2>3. \A v \in Registered(w) :
           /\ Seen(w, v.run) = "COMPLETED"
           /\ \A q \in Workers \ {w} : writes[q][v.run] = None
    BY <2>2 DEF Seen
  <2>4. /\ status' = [r \in Runs |-> Seen(w, r)]
        /\ versions' = versions \cup Registered(w)
        /\ writes' = [writes EXCEPT ![w] = Untouched]
    BY <1>14 DEF Commit, Forget
  <2>5. ASSUME NEW v \in versions'
        PROVE  /\ status'[v.run] \in {"COMPLETED", "FAILED"}
               /\ \A q \in Workers : writes'[q][v.run] \in {None, "FAILED"}
    <3>1. v.run \in Runs
      BY <2>2, <2>4
    <3>2. \A q \in Workers \ {w} : writes'[q] = writes[q]
      BY <2>4
    <3>3. writes'[w][v.run] = None
      BY <2>4, <3>1 DEF Untouched
    <3> QED BY <2>1, <2>3, <2>4, <3>1, <3>2, <3>3
  <2> QED BY <2>5
<1>15. CASE UNCHANGED vars
  BY <1>15 DEF vars
<1> HIDE DEF Typing, TypeOK, JobFits, VersionsClosed, AttendedOpen,
         Completing, RowLocked, Selected, Attending, Status, rows, session
<1> QED
  BY <1>1, <1>2, <1>3, <1>4, <1>5, <1>6, <1>7, <1>8, <1>9, <1>10, <1>11, <1>12, <1>13,
     <1>14, <1>15, NextCases DEF Typing

(* The run that a worker has claimed is registered by nobody else.         *)
LEMMA NextOpen ==
    Typing /\ LockIsHeld /\ RowLocked /\ Completing /\ VersionsClosed
    /\ AttendedOpen /\ [Next]_vars
    => AttendedOpen'
<1> SUFFICES ASSUME Typing, LockIsHeld, RowLocked, Completing,
                    VersionsClosed, AttendedOpen, [Next]_vars
    PROVE  AttendedOpen'
  OBVIOUS
<1> USE WorkersAssumption, RunsAssumption, StatusAssumption,
        NumbersAssumption DEF Typing, TypeOK, JobFits, LockIsHeld,
        VersionsClosed, AttendedOpen, Completing, RowLocked, Selected,
        Attending, Status, rows, session
<1>1. ASSUME NEW p \in Ranks, NEW route \in AllRoutes, Create(p, route)
      PROVE AttendedOpen'
  BY <1>1 DEF Create
<1>2. ASSUME NEW r \in Runs, HeartbeatLapses(r) PROVE AttendedOpen'
  BY <1>2 DEF HeartbeatLapses
<1>3. ASSUME NEW w \in Workers, MarkStaleRuns(w) PROVE AttendedOpen'
  BY <1>3 DEF MarkStaleRuns, Goto
<1>4. ASSUME NEW w \in Workers, NextClaimableRun(w) PROVE AttendedOpen'
  BY <1>4 DEF NextClaimableRun, Goto
<1>5. ASSUME NEW w \in Workers, Waits(w) PROVE AttendedOpen'
  BY <1>5 DEF Waits, QueueEmpty, LockTimeout, AcquireGpu, Preflight,
              PreflightFails, GiveUp, Goto, ReleaseGpu
<1>6. ASSUME NEW w \in Workers, WritesOne(w) PROVE AttendedOpen'
  <2>1. CASE ForceFailed(w)
    BY <2>1 DEF ForceFailed, Flush, Goto
  <2>2. CASE Complete(w)
    <3>1. \A q \in Workers : pc'[q] \in Attending => q = w
      <4>1. gpuLock = w /\ \A q \in Workers \ {w} : pc'[q] = pc[q]
        BY <2>2 DEF Complete, Goto
      <4> QED BY <4>1
    <3>2. \A q \in Workers \ {w} : writes'[q] = writes[q]
      BY <2>2 DEF Complete, Flush
    <3> QED BY <2>2, <3>1, <3>2 DEF Complete, Goto
  <2>3. CASE Fail(w)
    BY <2>3 DEF Fail, Flush, Goto
  <2>4. CASE TouchHeartbeat(w)
    BY <2>4 DEF TouchHeartbeat, Executing, Flush
  <2> QED BY <1>6, <2>1, <2>2, <2>3, <2>4 DEF WritesOne
<1>7. ASSUME NEW w \in Workers, Claim(w) PROVE AttendedOpen'
  <2>1. \A v \in versions : v.run # job[w]
    BY <1>7, ClaimsOpen
  <2>2. \A q \in Workers \ {w} : writes[q][job[w]] # "COMPLETED"
    BY <1>7 DEF Claim, RowFree
  <2>3. \A q \in Workers : pc'[q] \in Attending => q = w
    <3>1. gpuLock = w /\ \A q \in Workers \ {w} : pc'[q] = pc[q]
      BY <1>7 DEF Claim, Goto
    <3> QED BY <3>1
  <2> QED BY <1>7, <2>1, <2>2, <2>3 DEF Claim, Flush, Goto
<1>8. ASSUME NEW w \in Workers, ClaimLost(w) PROVE AttendedOpen'
  BY <1>8 DEF ClaimLost, ReleaseGpu, Goto
<1>9. ASSUME NEW w \in Workers, Refresh(w) PROVE AttendedOpen'
  BY <1>9 DEF Refresh
<1>10. ASSUME NEW w \in Workers, RollsBack(w) PROVE AttendedOpen'
  BY <1>10 DEF RollsBack, Dies, ReleaseGpu, Goto, Forget, Untouched
<1>11. ASSUME NEW w \in Workers, Progress(w) PROVE AttendedOpen'
  BY <1>11 DEF Progress, Untouched
<1>12. ASSUME NEW w \in Workers, Trains(w) PROVE AttendedOpen'
  BY <1>12 DEF Trains, ProgressRefused, TrainingEnds, Restart, Goto
<1>13. ASSUME NEW w \in Workers, Register(w) PROVE AttendedOpen'
  BY <1>13 DEF Register, ReleaseGpu, Goto
<1>14. ASSUME NEW w \in Workers, Commit(w) PROVE AttendedOpen'
  <2>1. \A v \in Registered(w) : v.run = job[w] /\ writes[w][job[w]] = "COMPLETED"
    BY DEF Registered
  <2>2. ASSUME NEW q \in Workers, pc'[q] \in Attending
        PROVE  /\ q # w /\ pc[q] \in Attending /\ job'[q] = job[q]
               /\ \A v \in Registered(w) : v.run # job[q]
    <3>1. q # w /\ pc[q] \in Attending /\ job'[q] = job[q]
      BY <1>14, <2>2 DEF Commit, Goto, Forget
    <3> QED BY <2>1, <3>1
  <2>3. ASSUME NEW q \in Workers, pc'[q] \in Attending, NEW p \in Workers \ {q}
        PROVE  writes'[p][job'[q]] # "COMPLETED"
    <3>1. job'[q] = job[q] /\ job[q] \in Runs /\ writes[p][job[q]] # "COMPLETED"
      BY <2>2, <2>3
    <3>2. writes'[p] = writes[p] \/ writes'[p][job[q]] = None
      BY <1>14, <3>1 DEF Commit, Forget, Untouched
    <3> QED BY <3>1, <3>2
  <2>4. versions' = versions \cup Registered(w)
    BY <1>14 DEF Commit
  <2> QED BY <2>2, <2>3, <2>4
<1>15. CASE UNCHANGED vars
  BY <1>15 DEF vars
<1> HIDE DEF Typing, TypeOK, JobFits, LockIsHeld, VersionsClosed,
         AttendedOpen, Completing, RowLocked, Selected, Attending, Status,
         rows, session
<1> QED
  BY <1>1, <1>2, <1>3, <1>4, <1>5, <1>6, <1>7, <1>8, <1>9, <1>10, <1>11, <1>12, <1>13,
     <1>14, <1>15, NextCases DEF Typing

(* A second version of a run would be registered by a second attendant.    *)
LEMMA NextOneVersion ==
    Typing /\ RowLocked /\ Completing /\ VersionsClosed /\ OneVersionPerRun
    /\ [Next]_vars
    => OneVersionPerRun'
<1> SUFFICES ASSUME Typing, RowLocked, Completing, VersionsClosed,
                    OneVersionPerRun, [Next]_vars
    PROVE  OneVersionPerRun'
  OBVIOUS
<1> USE RunsAssumption, StatusAssumption, NumbersAssumption DEF Typing,
        TypeOK, JobFits, VersionsClosed, OneVersionPerRun, Completing,
        RowLocked, Selected, Attending, Status, rows, session
<1>1. ASSUME NEW p \in Ranks, NEW route \in AllRoutes, Create(p, route)
      PROVE OneVersionPerRun'
  BY <1>1 DEF Create
<1>2. ASSUME NEW r \in Runs, HeartbeatLapses(r) PROVE OneVersionPerRun'
  BY <1>2 DEF HeartbeatLapses
<1>3. ASSUME NEW w \in Workers, MarkStaleRuns(w) PROVE OneVersionPerRun'
  BY <1>3 DEF MarkStaleRuns, Goto
<1>4. ASSUME NEW w \in Workers, NextClaimableRun(w) PROVE OneVersionPerRun'
  BY <1>4 DEF NextClaimableRun, Goto
<1>5. ASSUME NEW w \in Workers, Waits(w) PROVE OneVersionPerRun'
  BY <1>5 DEF Waits, QueueEmpty, LockTimeout, AcquireGpu, Preflight,
              PreflightFails, GiveUp, Goto, ReleaseGpu
<1>6. ASSUME NEW w \in Workers, WritesOne(w) PROVE OneVersionPerRun'
  BY <1>6 DEF WritesOne, ForceFailed, Complete, Fail, TouchHeartbeat, Executing,
              Flush, RowFree, ReleaseGpu, Goto
<1>7. ASSUME NEW w \in Workers, Claim(w) PROVE OneVersionPerRun'
  BY <1>7 DEF Claim, Flush, RowFree, Goto
<1>8. ASSUME NEW w \in Workers, ClaimLost(w) PROVE OneVersionPerRun'
  BY <1>8 DEF ClaimLost, ReleaseGpu, Goto
<1>9. ASSUME NEW w \in Workers, Refresh(w) PROVE OneVersionPerRun'
  BY <1>9 DEF Refresh
<1>10. ASSUME NEW w \in Workers, RollsBack(w) PROVE OneVersionPerRun'
  BY <1>10 DEF RollsBack, Dies, ReleaseGpu, Goto, Forget, Untouched
<1>11. ASSUME NEW w \in Workers, Progress(w) PROVE OneVersionPerRun'
  <2>1. ASSUME NEW r \in Runs
        PROVE  Seen(w, r) = "COMPLETED" => status[r] = "COMPLETED"
    <3>1. pc[w] = "running"
      BY <1>11 DEF Progress
    <3>2. number[w] = None
      BY <3>1
    <3>3. writes[w][r] # "COMPLETED"
      BY <3>1, <3>2
    <3> QED BY <3>3 DEF Seen
  <2>2. \A r \in Runs : status'[r] = "COMPLETED" => status[r] = "COMPLETED"
    BY <1>11, <2>1 DEF Progress
  <2> QED BY <1>11, <2>2 DEF Progress
<1>12. ASSUME NEW w \in Workers, Trains(w) PROVE OneVersionPerRun'
  BY <1>12 DEF Trains, ProgressRefused, TrainingEnds, Restart, Goto
<1>13. ASSUME NEW w \in Workers, Register(w) PROVE OneVersionPerRun'
  BY <1>13 DEF Register, ReleaseGpu, Goto
<1>14. ASSUME NEW w \in Workers, Commit(w) PROVE OneVersionPerRun'
  <2>1. /\ status' = [r \in Runs |-> Seen(w, r)]
        /\ versions' = versions \cup Registered(w)
    BY <1>14 DEF Commit
  <2>2. \A v \in versions : v.run # job[w] \/ number[w] = None
    BY DEF VersionsClosed
  <2>3. \A u, v \in versions' : u.run = v.run => u = v
    BY <2>1, <2>2 DEF Registered
  <2>4. ASSUME NEW r \in Runs, status'[r] = "COMPLETED"
        PROVE  \E v \in versions' : v.run = r
    <3>1. CASE status[r] = "COMPLETED"
      BY <2>1, <3>1
    <3>2. CASE status[r] # "COMPLETED"
      <4>1. writes[w][r] = "COMPLETED"
        BY <2>1, <2>4, <3>2 DEF Seen
      <4>2. r = job[w] /\ number[w] # None
        BY <1>14, <4>1 DEF Commit
      <4>3. [run |-> job[w], number |-> number[w]] \in versions'
        BY <2>1, <4>2 DEF Registered
      <4> QED BY <4>2, <4>3
    <3> QED BY <3>1, <3>2
  <2> QED BY <2>3, <2>4
<1>15. CASE UNCHANGED vars
  BY <1>15 DEF vars
<1> HIDE DEF Typing, TypeOK, JobFits, VersionsClosed, OneVersionPerRun,
         Completing, RowLocked, Selected, Attending, Status, rows, session
<1> QED
  BY <1>1, <1>2, <1>3, <1>4, <1>5, <1>6, <1>7, <1>8, <1>9, <1>10, <1>11, <1>12, <1>13,
     <1>14, <1>15, NextCases DEF Typing

-----------------------------------------------------------------------------
LEMMA InitIInv == Init => IInv
<1> SUFFICES ASSUME Init PROVE IInv
  OBVIOUS
<1>1. Typing
  BY InitTyping
<1>2. LockIsHeld /\ RowLocked /\ Completing /\ VersionsClosed /\ AttendedOpen
  BY StatusAssumption
     DEF Init, LockIsHeld, RowLocked, Completing, VersionsClosed, AttendedOpen,
         Selected, Attending, Untouched, Status
<1>3. OneVersionPerRun
  BY DEF Init, OneVersionPerRun
<1> QED BY <1>1, <1>2, <1>3 DEF IInv

LEMMA NextIInv == IInv /\ [Next]_vars => IInv'
  BY NextTyping, NextLock, NextRows, NextCompleting, NextClosed, NextOpen,
     NextOneVersion
     DEF IInv

(* Every reachable state is well typed; in particular no run is retried    *)
(* more often than max_stale_retries, although the count is raised in a    *)
(* session and written later (training_service.claim_training_run).        *)
THEOREM QueueTypeCorrect == Spec => []TypeOK
<1>1. IInv => TypeOK
  BY DEF IInv, Typing
<1> QED BY <1>1, InitIInv, NextIInv, PTL DEF Spec

(* No run is registered twice and a completed run has its version, for any *)
(* number of workers, whichever way they are started, that are killed and  *)
(* restarted and take each other's runs (training_worker.process_next_job, *)
(* model_service.register_model_version).                                  *)
THEOREM VersionedOnce == Spec => []OneVersionPerRun
<1>1. IInv => OneVersionPerRun
  BY DEF IInv
<1> QED BY <1>1, InitIInv, NextIInv, PTL DEF Spec
=============================================================================
