------------------------ MODULE TrainingLedgerProofs ------------------------
(***************************************************************************)
(* TrainingQueue implements TrainingLedger when every worker is started    *)
(* with a provider, as python -m app.workers.training_worker does: a poll  *)
(* is then one transaction.                                                *)
(***************************************************************************)
EXTENDS TrainingQueueProofs

ProviderOnly == \A w \in Workers : RunnerOf[w] = "provider"

\* A claim is committed with its outcome, so nobody ever reads RUNNING or STALE.
ClaimsHidden ==
    /\ \A r \in Runs : status[r] \in {"PENDING", "COMPLETED", "FAILED"}
    /\ \A w \in Workers : known[w] # "STALE"

\* A transaction writes the run that its worker claimed, and nothing else.
WritesOwn ==
    \A w \in Workers :
        /\ pc[w] \in Attending => writes[w][job[w]] # None
        /\ \A r \in Runs : writes[w][r] # None =>
             /\ r = job[w] /\ status[r] = "PENDING"
             /\ \/ pc[w] \in Attending /\ writes[w][r] \in {"RUNNING", "COMPLETED"}
                \/ pc[w] = "committing" /\ writes[w][r] \in {"COMPLETED", "FAILED"}

\* One version is in flight, under the next number.
NumberFollows ==
    /\ \A w \in Workers : number[w] # None => NextNumber(number[w])
    /\ \A q, w \in Workers : number[q] # None /\ number[w] # None => q = w

EInv == IInv /\ ClaimsHidden /\ WritesOwn /\ NumberFollows

-----------------------------------------------------------------------------
LEMMA InitEInv == Init => EInv
<1> SUFFICES ASSUME Init PROVE EInv
  OBVIOUS
<1>1. IInv
  BY InitIInv
<1>2. ClaimsHidden /\ WritesOwn /\ NumberFollows
  BY StatusAssumption
     DEF Init, ClaimsHidden, WritesOwn, NumberFollows, Attending, Untouched, Status
<1> QED BY <1>1, <1>2 DEF EInv

(* The detector finds nothing and the retry limit is never reached.        *)
LEMMA NextHidden ==
    ProviderOnly /\ Typing /\ Completing /\ WritesOwn /\ ClaimsHidden
    /\ [Next]_vars
    => ClaimsHidden'
<1> SUFFICES ASSUME ProviderOnly, Typing, Completing, WritesOwn,
                    ClaimsHidden, [Next]_vars
    PROVE  ClaimsHidden'
  OBVIOUS
<1> USE RunsAssumption, StatusAssumption DEF Typing, TypeOK, JobFits,
        WritesOwn, ClaimsHidden, Selected, Attending, Status, rows, session
<1>1. ASSUME NEW p \in Ranks, NEW route \in AllRoutes, Create(p, route)
      PROVE ClaimsHidden'
  BY <1>1 DEF Create
<1>2. ASSUME NEW r \in Runs, HeartbeatLapses(r) PROVE ClaimsHidden'
  BY <1>2 DEF HeartbeatLapses
<1>3. ASSUME NEW w \in Workers, MarkStaleRuns(w) PROVE ClaimsHidden'
  BY <1>3 DEF MarkStaleRuns, Goto
<1>4. ASSUME NEW w \in Workers, NextClaimableRun(w) PROVE ClaimsHidden'
  <2>1. ASSUME NEW r \in Runs PROVE Seen(w, r) # "STALE"
    <3>1. pc[w] = "selecting"
      BY <1>4 DEF NextClaimableRun
    <3>2. writes[w][r] = None
      BY <3>1
    <3> QED BY <3>2 DEF Seen
  <2> QED BY <1>4, <2>1 DEF NextClaimableRun, Candidates
<1>5. ASSUME NEW w \in Workers, Waits(w) PROVE ClaimsHidden'
  BY <1>5 DEF Waits, QueueEmpty, LockTimeout, AcquireGpu, Preflight,
              PreflightFails, GiveUp, Goto, ReleaseGpu
<1>6. ASSUME NEW w \in Workers, WritesOne(w) PROVE ClaimsHidden'
  BY <1>6 DEF WritesOne, ForceFailed, Complete, Fail, TouchHeartbeat, Executing,
              Flush, RowFree, ReleaseGpu, Goto
<1>7. ASSUME NEW w \in Workers, Claim(w) PROVE ClaimsHidden'
  BY <1>7 DEF Claim, Flush, RowFree, Goto
<1>8. ASSUME NEW w \in Workers, ClaimLost(w) PROVE ClaimsHidden'
  BY <1>8 DEF ClaimLost, ReleaseGpu, Goto
<1>9. ASSUME NEW w \in Workers, Refresh(w) PROVE ClaimsHidden'
  <2>1. Seen(w, job[w]) # "STALE"
    BY <1>9 DEF Refresh, Executing, Seen
  <2> QED BY <1>9, <2>1 DEF Refresh
<1>10. ASSUME NEW w \in Workers, RollsBack(w) PROVE ClaimsHidden'
  BY <1>10 DEF RollsBack, Dies, ReleaseGpu, Goto, Forget, Untouched
<1>11. ASSUME NEW w \in Workers, Progress(w) PROVE ClaimsHidden'
  BY <1>11 DEF Progress, Streams, ProviderOnly
<1>12. ASSUME NEW w \in Workers, Trains(w) PROVE ClaimsHidden'
  BY <1>12 DEF Trains, ProgressRefused, TrainingEnds, Restart, Goto
<1>13. ASSUME NEW w \in Workers, Register(w) PROVE ClaimsHidden'
  BY <1>13 DEF Register, ReleaseGpu, Goto
<1>14. ASSUME NEW w \in Workers, Commit(w) PROVE ClaimsHidden'
  <2>1. \A r \in Runs : Seen(w, r) \in {"PENDING", "COMPLETED", "FAILED"}
    BY <1>14 DEF Commit, Seen
  <2> QED BY <1>14, <2>1 DEF Commit, Forget
<1>15. CASE UNCHANGED vars
  BY <1>15 DEF vars
<1> HIDE DEF Typing, TypeOK, JobFits, WritesOwn, ClaimsHidden, Selected,
         Attending, Status, rows, session
<1> QED
  BY <1>1, <1>2, <1>3, <1>4, <1>5, <1>6, <1>7, <1>8, <1>9, <1>10, <1>11, <1>12, <1>13,
     <1>14, <1>15, NextCases DEF Typing

(* What a transaction writes is still pending for the others.              *)
LEMMA NextOwn ==
    ProviderOnly /\ Typing /\ RowLocked /\ Completing /\ ClaimsHidden
    /\ WritesOwn /\ [Next]_vars
    => WritesOwn'
<1> SUFFICES ASSUME ProviderOnly, Typing, RowLocked, Completing,
                    ClaimsHidden, WritesOwn, [Next]_vars
    PROVE  WritesOwn'
  OBVIOUS
<1> USE RunsAssumption, StatusAssumption DEF Typing, TypeOK, JobFits,
        RowLocked, ClaimsHidden, WritesOwn, Selected, Attending, Status,
        rows, session
<1>1. ASSUME NEW p \in Ranks, NEW route \in AllRoutes, Create(p, route)
      PROVE WritesOwn'
  BY <1>1 DEF Create
<1>2. ASSUME NEW r \in Runs, HeartbeatLapses(r) PROVE WritesOwn'
  BY <1>2 DEF HeartbeatLapses
<1>3. ASSUME NEW w \in Workers, MarkStaleRuns(w) PROVE WritesOwn'
  <2>1. \A r \in Runs : ~Lapsed(r)
    BY DEF Lapsed
  <2> QED BY <1>3, <2>1 DEF MarkStaleRuns, Goto
<1>4. ASSUME NEW w \in Workers, NextClaimableRun(w) PROVE WritesOwn'
  BY <1>4 DEF NextClaimableRun, Goto
<1>5. ASSUME NEW w \in Workers, Waits(w) PROVE WritesOwn'
  BY <1>5 DEF Waits, QueueEmpty, LockTimeout, AcquireGpu, Preflight,
              PreflightFails, GiveUp, Goto, ReleaseGpu
<1>6. ASSUME NEW w \in Workers, WritesOne(w) PROVE WritesOwn'
  <2>1. ~ForceFailed(w) /\ ~TouchHeartbeat(w)
    <3>1. ~ForceFailed(w)
      BY DEF ForceFailed, Exhausted
    <3>2. ~TouchHeartbeat(w)
      BY DEF TouchHeartbeat, Executing
    <3> QED BY <3>1, <3>2
  <2>2. CASE Complete(w)
    BY <2>2 DEF Complete, Flush, Goto
  <2>3. CASE Fail(w)
    BY <2>3 DEF Fail, Flush, Goto
  <2> QED BY <1>6, <2>1, <2>2, <2>3 DEF WritesOne
<1>7. ASSUME NEW w \in Workers, Claim(w) PROVE WritesOwn'
  <2>1. job[w] \in Runs /\ \A r \in Runs : writes[w][r] = None
    <3>1. pc[w] = "claiming"
      BY <1>7 DEF Claim
    <3>2. job[w] \in Runs
      BY <3>1
    <3>3. \A r \in Runs : writes[w][r] = None
      BY <3>1
    <3> QED BY <3>2, <3>3
  <2>2. status[job[w]] = "PENDING"
    BY <1>7, <2>1 DEF Claim, Seen, Claimable
  <2> QED BY <1>7, <2>1, <2>2 DEF Claim, Flush, Goto
<1>8. ASSUME NEW w \in Workers, ClaimLost(w) PROVE WritesOwn'
  BY <1>8 DEF ClaimLost, ReleaseGpu, Goto
<1>9. ASSUME NEW w \in Workers, Refresh(w) PROVE WritesOwn'
  BY <1>9 DEF Refresh
<1>10. ASSUME NEW w \in Workers, RollsBack(w) PROVE WritesOwn'
  BY <1>10 DEF RollsBack, Dies, ReleaseGpu, Goto, Forget, Untouched
<1>11. ASSUME NEW w \in Workers, Progress(w) PROVE WritesOwn'
  BY <1>11 DEF Progress, Streams, ProviderOnly
<1>12. ASSUME NEW w \in Workers, Trains(w) PROVE WritesOwn'
  BY <1>12 DEF Trains, ProgressRefused, TrainingEnds, Restart, Goto
<1>13. ASSUME NEW w \in Workers, Register(w) PROVE WritesOwn'
  <2>1. writes[w][job[w]] = "COMPLETED"
    BY <1>13 DEF Register, Completing
  <2> QED BY <1>13, <2>1 DEF Register, Goto
<1>14. ASSUME NEW w \in Workers, Commit(w) PROVE WritesOwn'
  <2>1. \A q \in Workers \ {w}, r \in Runs :
           writes[q][r] # None => Seen(w, r) = status[r]
    BY DEF Seen
  <2>2. /\ status' = [r \in Runs |-> Seen(w, r)]
        /\ \A r \in Runs : writes'[w][r] = None
        /\ pc'[w] \notin Attending
    BY <1>14 DEF Commit, Forget, Goto, Untouched
  <2>3. \A q \in Workers \ {w} :
           writes'[q] = writes[q] /\ pc'[q] = pc[q] /\ job'[q] = job[q]
    BY <1>14 DEF Commit, Forget, Goto
  <2>4. ASSUME NEW q \in Workers \ {w}, NEW r \in Runs, writes[q][r] # None
        PROVE  status'[r] = status[r]
    BY <2>1, <2>2, <2>4
  <2>5. ASSUME NEW q \in Workers, NEW r \in Runs, writes'[q][r] # None
        PROVE  /\ q # w /\ r = job'[q] /\ status'[r] = "PENDING"
               /\ \/ pc'[q] \in Attending /\ writes'[q][r] \in {"RUNNING", "COMPLETED"}
                  \/ pc'[q] = "committing" /\ writes'[q][r] \in {"COMPLETED", "FAILED"}
    <3>1. q # w
      BY <2>2, <2>5
    <3>2. writes'[q] = writes[q] /\ pc'[q] = pc[q] /\ job'[q] = job[q]
      BY <2>3, <3>1
    <3>3. status'[r] = status[r]
      BY <2>4, <2>5, <3>1, <3>2
    <3> QED BY <2>5, <3>1, <3>2, <3>3
  <2>6. ASSUME NEW q \in Workers, pc'[q] \in Attending
        PROVE  writes'[q][job'[q]] # None
    BY ZenonT(30), <2>2, <2>3, <2>6
  <2> QED BY <2>5, <2>6
<1>15. CASE UNCHANGED vars
  BY <1>15 DEF vars
<1> HIDE DEF Typing, TypeOK, JobFits, RowLocked, ClaimsHidden, WritesOwn,
         Selected, Attending, Status, rows, session
<1> QED
  BY <1>1, <1>2, <1>3, <1>4, <1>5, <1>6, <1>7, <1>8, <1>9, <1>10, <1>11, <1>12, <1>13,
     <1>14, <1>15, NextCases DEF Typing

(* Only one number is the next one.                                        *)
LEMMA OneNextNumber ==
    ASSUME TypeOK, NEW n \in Numbers, NEW m \in Numbers, NextNumber(n), NextNumber(m)
    PROVE  n = m
<1>1. \A v \in versions : v.number \in Int
  BY RunsAssumption DEF TypeOK, Numbers
<1>2. n \in Int /\ m \in Int /\ n >= 1 /\ m >= 1
  BY RunsAssumption DEF Numbers
<1> QED BY <1>1, <1>2 DEF NextNumber

(* A number that is in flight stays the next one until its commit.         *)
LEMMA NextFollows ==
    ProviderOnly /\ Typing /\ Completing /\ NumberFollows /\ [Next]_vars
    => NumberFollows'
<1> SUFFICES ASSUME ProviderOnly, Typing, Completing, NumberFollows,
                    [Next]_vars
    PROVE  NumberFollows'
  OBVIOUS
<1> USE NumbersAssumption DEF Typing, TypeOK, NumberFollows, NextNumber,
        rows, session
<1>1. ASSUME NEW p \in Ranks, NEW route \in AllRoutes, Create(p, route)
      PROVE NumberFollows'
  BY <1>1 DEF Create
<1>2. ASSUME NEW r \in Runs, HeartbeatLapses(r) PROVE NumberFollows'
  BY <1>2 DEF HeartbeatLapses
<1>3. ASSUME NEW w \in Workers, MarkStaleRuns(w) PROVE NumberFollows'
  BY <1>3 DEF MarkStaleRuns, Goto
<1>4. ASSUME NEW w \in Workers, NextClaimableRun(w) PROVE NumberFollows'
  BY <1>4 DEF NextClaimableRun, Goto
<1>5. ASSUME NEW w \in Workers, Waits(w) PROVE NumberFollows'
  BY <1>5 DEF Waits, QueueEmpty, LockTimeout, AcquireGpu, Preflight,
              PreflightFails, GiveUp, Goto, ReleaseGpu
<1>6. ASSUME NEW w \in Workers, WritesOne(w) PROVE NumberFollows'
  BY <1>6 DEF WritesOne, ForceFailed, Complete, Fail, TouchHeartbeat, Executing,
              Flush, RowFree, ReleaseGpu, Goto
<1>7. ASSUME NEW w \in Workers, Claim(w) PROVE NumberFollows'
  BY <1>7 DEF Claim, Flush, RowFree, Goto
<1>8. ASSUME NEW w \in Workers, ClaimLost(w) PROVE NumberFollows'
  BY <1>8 DEF ClaimLost, ReleaseGpu, Goto
<1>9. ASSUME NEW w \in Workers, Refresh(w) PROVE NumberFollows'
  BY <1>9 DEF Refresh
<1>10. ASSUME NEW w \in Workers, RollsBack(w) PROVE NumberFollows'
  BY <1>10 DEF RollsBack, Dies, ReleaseGpu, Goto, Forget, Untouched
<1>11. ASSUME NEW w \in Workers, Progress(w) PROVE NumberFollows'
  BY <1>11 DEF Progress, Streams, ProviderOnly
<1>12. ASSUME NEW w \in Workers, Trains(w) PROVE NumberFollows'
  BY <1>12 DEF Trains, ProgressRefused, TrainingEnds, Restart, Goto
<1>13. ASSUME NEW w \in Workers, Register(w) PROVE NumberFollows'
  <2>1. PICK n \in Numbers : Allocatable(w, n) /\ number' = [number EXCEPT ![w] = n]
    BY <1>13 DEF Register
  <2>2. \A q \in Workers \ {w} : number[q] = None
    <3>1. ASSUME NEW q \in Workers \ {w}, number[q] # None PROVE FALSE
      <4>1. NextNumber(n) /\ NextNumber(number[q]) /\ number[q] # n
        BY <2>1, <3>1 DEF Allocatable
      <4>2. number[q] \in Numbers
        BY <3>1
      <4> QED BY <4>1, <4>2, OneNextNumber
    <3> QED BY <3>1
  <2>3. NextNumber(n) /\ versions' = versions
    BY <1>13, <2>1 DEF Register, Allocatable
  <2> QED BY <2>1, <2>2, <2>3
<1>14. ASSUME NEW w \in Workers, Commit(w) PROVE NumberFollows'
  <2>1. number' = [number EXCEPT ![w] = None]
    BY <1>14 DEF Commit, Forget
  <2>2. CASE number[w] = None
    BY <1>14, <2>1, <2>2 DEF Commit, Registered
  <2>3. CASE number[w] # None
    BY <2>1, <2>3
  <2> QED BY <2>2, <2>3
<1>15. CASE UNCHANGED vars
  BY <1>15 DEF vars
<1> HIDE DEF Typing, TypeOK, NumberFollows, NextNumber, rows, session
<1> QED
  BY <1>1, <1>2, <1>3, <1>4, <1>5, <1>6, <1>7, <1>8, <1>9, <1>10, <1>11, <1>12, <1>13,
     <1>14, <1>15, NextCases DEF Typing

LEMMA NextEInv == ProviderOnly /\ EInv /\ [Next]_vars => EInv'
  BY NextIInv, NextHidden, NextOwn, NextFollows DEF EInv, IInv

-----------------------------------------------------------------------------
LEMMA LedgerInit == Init => Ledger!Init
  BY DEF Init, Ledger!Init, Outcome

(* The commit of a poll ends the run of the worker in the ledger, or        *)
(* nothing.                                                                *)
LEMMA CommitEnds ==
    ASSUME EInv, NEW w \in Workers, Commit(w)
    PROVE  Ledger!Next \/ UNCHANGED Ledger!vars
<1> USE DEF EInv, IInv, Typing, TypeOK
<1>1. /\ pc[w] = "committing"
      /\ status' = [r \in Runs |-> Seen(w, r)]
      /\ versions' = versions \cup Registered(w)
  BY DEF Commit
<1>2. \A r \in Runs \ {job[w]} : status'[r] = status[r]
  BY <1>1 DEF WritesOwn, Seen
<1>3. ASSUME NEW how \in {"COMPLETED", "FAILED"}, job[w] \in Runs,
             writes[w][job[w]] = how
      PROVE  Outcome[job[w]] = "open" /\ Outcome' = [Outcome EXCEPT ![job[w]] = how]
  <2>1. status[job[w]] = "PENDING" /\ status'[job[w]] = how
    BY <1>1, <1>3, StatusAssumption DEF WritesOwn, Seen, Status
  <2>2. Outcome[job[w]] = "open"
    BY <1>3, <2>1 DEF Outcome
  <2>3. \A r \in Runs : Outcome'[r] = IF r = job[w] THEN how ELSE Outcome[r]
    BY <1>2, <2>1 DEF Outcome
  <2> QED BY <2>2, <2>3 DEF Outcome
<1>4. CASE number[w] # None
  <2>1. job[w] \in Runs /\ writes[w][job[w]] = "COMPLETED"
    BY <1>4 DEF Completing
  <2>2. Ledger!End(job[w], "COMPLETED")
    BY <1>3, <2>1 DEF Ledger!End
  <2>3. Ledger!Follows(number[w]) /\ number[w] \in Numbers
    BY <1>4 DEF NumberFollows, NextNumber, Ledger!Follows
  <2>4. versions' = versions \cup {[run |-> job[w], number |-> number[w]]}
    BY <1>1, <1>4 DEF Registered
  <2> QED BY <2>1, <2>2, <2>3, <2>4 DEF Ledger!Next, Ledger!Complete
<1>5. CASE number[w] = None /\ \E r \in Runs : writes[w][r] # None
  <2>1. job[w] \in Runs /\ writes[w][job[w]] = "FAILED"
    <3>1. PICK r \in Runs : writes[w][r] # None
      BY <1>5
    <3>2. r = job[w] /\ writes[w][r] \in {"COMPLETED", "FAILED"}
      BY <1>1, <3>1 DEF WritesOwn, Attending
    <3>3. writes[w][r] # "COMPLETED"
      BY <1>1, <1>5 DEF Completing
    <3> QED BY <3>2, <3>3
  <2>2. Ledger!End(job[w], "FAILED")
    BY <1>3, <2>1 DEF Ledger!End
  <2>3. versions' = versions
    BY <1>1, <1>5 DEF Registered
  <2> QED BY <2>1, <2>2, <2>3 DEF Ledger!Next, Ledger!Fail
<1>6. CASE number[w] = None /\ \A r \in Runs : writes[w][r] = None
  <2>1. status' = status
    BY <1>1, <1>6 DEF Seen
  <2>2. versions' = versions
    BY <1>1, <1>6 DEF Registered
  <2> QED BY <2>1, <2>2 DEF Outcome, Ledger!vars
<1> QED BY <1>4, <1>5, <1>6

(* All the other steps are invisible in the ledger.                        *)
LEMMA LedgerStep ==
    ProviderOnly /\ EInv /\ [Next]_vars => Ledger!Next \/ UNCHANGED Ledger!vars
<1> SUFFICES ASSUME ProviderOnly, EInv, [Next]_vars
    PROVE  Ledger!Next \/ UNCHANGED Ledger!vars
  OBVIOUS
<1>1. ASSUME status' = status /\ versions' = versions PROVE UNCHANGED Ledger!vars
  BY <1>1 DEF Outcome, Ledger!vars
<1>2. ASSUME NEW p \in Ranks, NEW route \in AllRoutes, Create(p, route)
      PROVE  UNCHANGED Ledger!vars
  BY <1>1, <1>2 DEF Create
<1>3. ASSUME NEW r \in Runs, HeartbeatLapses(r) PROVE UNCHANGED Ledger!vars
  BY <1>1, <1>3 DEF HeartbeatLapses
<1>4. ASSUME NEW w \in Workers,
             MarkStaleRuns(w) \/ NextClaimableRun(w) \/ Waits(w) \/ WritesOne(w)
             \/ Claim(w) \/ ClaimLost(w) \/ Refresh(w) \/ RollsBack(w) \/ Trains(w)
             \/ Register(w)
      PROVE  UNCHANGED Ledger!vars
  BY <1>1, <1>4
     DEF MarkStaleRuns, NextClaimableRun, Waits, QueueEmpty, LockTimeout, AcquireGpu,
         Preflight, PreflightFails, GiveUp, WritesOne, ForceFailed, Complete, Fail,
         TouchHeartbeat, Claim, ClaimLost, Refresh, RollsBack, Dies, Trains,
         ProgressRefused, TrainingEnds, Restart, Register, rows
<1>5. ASSUME NEW w \in Workers, Progress(w) PROVE FALSE
  BY <1>5 DEF Progress, Streams, ProviderOnly
<1>6. CASE UNCHANGED vars
  BY <1>1, <1>6 DEF vars, rows
<1>7. TypeOK
  BY DEF EInv, IInv, Typing
<1> QED BY <1>2, <1>3, <1>4, <1>5, <1>6, <1>7, CommitEnds, NextCases

(* With the workers of the container the queue implements TrainingLedger:  *)
(* a run completes together with its version, under the next number, and   *)
(* ends once (training_worker.run_forever, model_service._allocate_version).*)
THEOREM QueueImplementsLedger == ProviderOnly => (Spec => ImplementsTrainingLedger)
<1> SUFFICES ASSUME ProviderOnly PROVE Spec => ImplementsTrainingLedger
  OBVIOUS
<1>1. EInv /\ [Next]_vars => EInv'
  BY NextEInv
<1>2. EInv /\ [Next]_vars => [Ledger!Next]_(Ledger!vars)
  BY LedgerStep
<1> QED
  BY <1>1, <1>2, InitEInv, LedgerInit, PTL DEF Spec, ImplementsTrainingLedger, Ledger!Spec
=============================================================================
