---------------------------- MODULE Runner_proofs ----------------------------
(* Theorems about Runner, for any number of runners and rows and any values *)
(* of the configuration.                                                    *)
EXTENDS RunnerLedger, TaskStore_proofs, FiniteSetTheorems, WellFoundedInduction

(* The ledger's count of done rows, which recomputeProgress stores, is a    *)
(* natural number.                                                          *)
LEMMA DoneCountNat == DoneCount \in Nat
<1>1. IsFiniteSet(Rows)
  BY FS_Interval, RunnerAssumption DEF Rows
<1>2. IsFiniteSet({r \in Rows : row[r].status = "done"})
  BY <1>1, FS_Subset
<1> QED
  BY <1>2, FS_CardinalityType DEF DoneCount

(* A runner's process state: its exit and its moves keep the types.         *)
RunnersOK ==
  /\ pc \in [Runners -> PC]
  /\ own \in [Runners -> Nat]
  /\ halt \in [Runners -> {"no", "drain", "lost"}]
  /\ tally \in [Runners -> Nat]
  /\ stage \in [Runners -> [Rows -> Stage]]

LEMMA ExitType ==
  ASSUME RunnersOK, NEW w \in Runners, Exit(w)
  PROVE  RunnersOK'
  BY DEF RunnersOK, Exit, PC, AllIdle, Stage

LEMMA GoToType ==
  ASSUME RunnersOK, NEW w \in Runners, NEW l \in PC, GoTo(w, l)
  PROVE  RunnersOK'
  BY DEF RunnersOK, GoTo

LEMMA ToStageType ==
  ASSUME RunnersOK, NEW w \in Runners, NEW r \in Rows, NEW s \in Stage, ToStage(w, r, s)
  PROVE  stage' \in [Runners -> [Rows -> Stage]]
  BY DEF RunnersOK, ToStage

LEMMA TypeInit == Init => TypeOK
<1> SUFFICES ASSUME Init PROVE TypeOK
  OBVIOUS
<1>1. task \in Task
  BY RunnerAssumption DEF Init, Task, TaskStatus, TaskWeight, Instant, NewTask, MarkPending,
     SetTotalRows
<1>2. row \in [Rows -> Row]
  BY DEF Init, Row, RowStatus, NewRow
<1>3. stage \in [Runners -> [Rows -> Stage]]
  BY DEF Init, Stage, AllIdle
<1>4. pc \in [Runners -> PC] /\ halt \in [Runners -> {"no", "drain", "lost"}]
  BY DEF Init, PC
<1>5. replays \in 0 .. MaxReplays
  BY RunnerAssumption DEF Init
<1> QED
  BY <1>1, <1>2, <1>3, <1>4, <1>5 DEF Init, TypeOK

LEMMA TypeRowStep ==
  ASSUME TypeOK, NEW w \in Runners, RowStep(w)
  PROVE  TypeOK'
<1>0. RunnersOK BY DEF TypeOK, RunnersOK
<1> PICK r \in Rows :
       \/ StartRow(w, r) \/ ApplyRow(w, r) \/ ApplyThrows(w, r)
       \/ FlipReads(w, r) \/ FlipWrites(w, r) \/ FlipThrows(w, r) \/ CheckMiss(w, r)
       \/ FailReads(w, r) \/ FailWrites(w, r) \/ PoolRejects(w, r)
  BY DEF RowStep
<1>1. CASE StartRow(w, r)
  BY <1>0, <1>1, ToStageType DEF StartRow, TypeOK, store, Stage
<1>2. CASE ApplyRow(w, r)
  BY <1>0, <1>2, ToStageType DEF ApplyRow, TypeOK, Stage
<1>3. CASE ApplyThrows(w, r)
  BY <1>0, <1>3, ToStageType DEF ApplyThrows, TypeOK, Stage
<1>4. CASE FlipReads(w, r)
  BY <1>0, <1>4, ToStageType DEF FlipReads, TypeOK, store, Stage
<1>5. CASE FlipWrites(w, r)
  <2>1. row' \in [Rows -> Row]
    BY <1>5, RowOps DEF FlipWrites, TypeOK
  <2>2. stage' \in [Runners -> [Rows -> Stage]] 
    BY <1>0, <1>5, ToStageType DEF FlipWrites, Stage
  <2>3. tally' \in [Runners -> Nat]
    BY <1>5 DEF FlipWrites, TypeOK
  <2> QED BY <1>5, <2>1, <2>2, <2>3 DEF FlipWrites, TypeOK
<1>6. CASE FlipThrows(w, r)
  BY <1>0, <1>6, ToStageType DEF FlipThrows, TypeOK, store, Stage
<1>7. CASE CheckMiss(w, r)
  BY <1>0, <1>7, ToStageType DEF CheckMiss, Lose, TypeOK, store, Stage
<1>8. CASE FailReads(w, r)
  BY <1>0, <1>8, ToStageType DEF FailReads, TypeOK, store, Stage
<1>9. CASE FailWrites(w, r)
  <2>1. row' \in [Rows -> Row]
    <3>1. row[r] \in Row BY DEF TypeOK
    <3>2. MaxAttempts \in Nat BY RunnerAssumption
    <3>3. RecordRowFailure(row[r], MaxAttempts) \in Row BY <3>1, <3>2, RowOps
    <3> QED BY <1>9, <3>3 DEF FailWrites, TypeOK
  <2>2. stage' \in [Runners -> [Rows -> Stage]] 
    BY <1>0, <1>9, ToStageType DEF FailWrites, Stage
  <2> QED BY <1>9, <2>1, <2>2 DEF FailWrites, TypeOK
<1>10. CASE PoolRejects(w, r)
  <2>1. row' \in [Rows -> Row]
    <3>1. CASE UNCHANGED row
      BY <3>1 DEF TypeOK
    <3>2. CASE row' = [row EXCEPT ![r] = RecordRowFailure(row[r], MaxAttempts)]
      <4>1. RecordRowFailure(row[r], MaxAttempts) \in Row
        BY RowOps, RunnerAssumption DEF TypeOK
      <4> QED BY <3>2, <4>1 DEF TypeOK
    <3> QED BY <1>10, <3>1, <3>2 DEF PoolRejects
  <2>2. stage' \in [Runners -> [Rows -> Stage]]
    BY <1>0, <1>10, ToStageType DEF PoolRejects, Stage
  <2> QED BY <1>10, <2>1, <2>2 DEF PoolRejects, TypeOK, PC
<1> QED BY <1>1, <1>2, <1>3, <1>4, <1>5, <1>6, <1>7, <1>8, <1>9, <1>10

LEMMA TypeRunStep ==
  ASSUME TypeOK, NEW w \in Runners, RunStep(w)
  PROVE  TypeOK'
<1>0. RunnersOK BY DEF TypeOK, RunnersOK
<1> USE DoneCountNat
<1>a. ASSUME RunnersOK', task' \in Task, UNCHANGED <<row, applied, due, replays>>
      PROVE  TypeOK'
  BY <1>a DEF TypeOK, RunnersOK
<1>f. ASSUME NEW t \in Task, NEW l \in PC, Fenced(w, t, l)
      PROVE  TypeOK'
  BY <1>0, <1>a, <1>f, GoToType, ExitType DEF Fenced, TypeOK
<1>1. CASE Acquire(w)
  <2>1. RunnersOK'
    BY <1>0, <1>1, GoToType, ExitType DEF Acquire, RunnersOK, PC, TypeOK, Task
  <2> QED BY <1>1, <1>a, <2>1 DEF Acquire, TypeOK
<1>2. CASE ClaimPending(w)
  <2>1. RunnersOK'
    BY <1>0, <1>2, ExitType DEF ClaimPending, RunnersOK, PC, TypeOK, Task
  <2> QED BY <1>2, <1>a, <2>1, TaskOps DEF ClaimPending, TypeOK
<1>3. CASE BeginRun(w)
  BY <1>3, <1>f, TaskOps DEF BeginRun, PC, TypeOK
<1>4. CASE InitialRecount(w)
  BY <1>4, <1>f, TaskOps DEF InitialRecount, PC, TypeOK
<1>5. CASE FetchPage(w)
  <2>1. RunnersOK'
    <3>1. CASE halt[w] # "no" \/ NextPage = {}
      BY <1>0, <1>5, <3>1, GoToType DEF FetchPage, PC
    <3>2. CASE ~(halt[w] # "no" \/ NextPage = {})
      <4>1. [r \in Rows |-> IF r \in NextPage THEN "queued" ELSE "idle"] \in [Rows -> Stage]
        BY DEF Stage
      <4>2. stage' \in [Runners -> [Rows -> Stage]]
        BY <1>0, <1>5, <3>2, <4>1 DEF FetchPage, RunnersOK
      <4>3. pc' \in [Runners -> PC] /\ tally' \in [Runners -> Nat]
        BY <1>0, <1>5, <3>2 DEF FetchPage, RunnersOK, PC
      <4> QED BY <1>0, <1>5, <3>2, <4>2, <4>3 DEF FetchPage, RunnersOK
    <3> QED BY <3>1, <3>2
  <2> QED BY <1>5, <1>a, <2>1 DEF FetchPage, TypeOK
<1>6. CASE EndPage(w)
  <2>1. RunnersOK'
    <3>1. CASE halt[w] = "lost" \/ ~Owns(w)
      BY <1>0, <1>6, <3>1, ExitType DEF EndPage
    <3>2. CASE ~(halt[w] = "lost" \/ ~Owns(w))
      <4>1. AllIdle \in [Rows -> Stage] BY DEF AllIdle, Stage
      <4>2. stage' \in [Runners -> [Rows -> Stage]]
        BY <1>0, <1>6, <3>2, <4>1 DEF EndPage, RunnersOK
      <4>3. pc' \in [Runners -> PC] /\ tally' \in [Runners -> Nat]
        <5>1. /\ pc'    = [pc EXCEPT ![w] = "loop"]
              /\ tally' = [tally EXCEPT ![w] = 0]
          BY <1>6, <3>2 DEF EndPage
        <5> QED BY <1>0, <5>1 DEF RunnersOK, PC
      <4> QED BY <1>0, <1>6, <3>2, <4>2, <4>3 DEF EndPage, RunnersOK
    <3> QED BY <3>1, <3>2
  <2>2. task' \in Task
    <3>1. tally[w] \in Nat BY DEF TypeOK
    <3>2. task \in Task BY DEF TypeOK
    <3>3. AdvanceProgress(task, tally[w]) \in Task BY <3>1, <3>2, TaskOps
    <3> QED BY <1>6, <3>2, <3>3 DEF EndPage
  <2> QED BY <1>6, <1>a, <2>1, <2>2 DEF EndPage
<1>7. CASE ZombieEnds(w)
  BY <1>0, <1>7, <1>a, ExitType DEF ZombieEnds, store, TypeOK
<1>8. CASE FinalRecount(w)
  <2>1. RunnersOK'
    BY <1>0, <1>8, GoToType, ExitType DEF FinalRecount, PC
  <2>2. task' \in Task
    BY <1>8, TaskOps DEF FinalRecount, TypeOK
  <2> QED BY <1>8, <1>a, <2>1, <2>2 DEF FinalRecount
<1>9. CASE CountRows(w)
  BY <1>0, <1>9, <1>a, GoToType DEF CountRows, store, TypeOK, PC
<1>10. CASE Finish(w)
  BY <1>0, <1>10, <1>a, ExitType, TaskOps DEF Finish, TypeOK
<1> QED BY <1>1, <1>2, <1>3, <1>4, <1>5, <1>6, <1>7, <1>8, <1>9, <1>10 DEF RunStep

LEMMA TypeNext == TypeOK /\ [Next]_vars => TypeOK'
<1> SUFFICES ASSUME TypeOK, [Next]_vars PROVE TypeOK'
  OBVIOUS
<1>0. RunnersOK BY DEF TypeOK, RunnersOK
<1>1. ASSUME NEW w \in Runners, Launch(w) PROVE TypeOK'
  BY <1>0, <1>1, GoToType DEF Launch, TypeOK, RunnersOK, PC
<1>2. ASSUME NEW w \in Runners, FireByHand(w) PROVE TypeOK'
  BY <1>0, <1>2, GoToType DEF FireByHand, TypeOK, RunnersOK, PC
<1>3. ASSUME NEW w \in Runners, Beat(w) PROVE TypeOK'
  BY <1>3, TaskOps DEF Beat, Lose, TypeOK
<1>4. ASSUME NEW w \in Runners, RequestDrain(w) PROVE TypeOK'
  BY <1>4 DEF RequestDrain, TypeOK, store
<1>5. ASSUME NEW w \in Runners, Crash(w) PROVE TypeOK'
  BY <1>0, <1>5, ExitType DEF Crash, TypeOK, RunnersOK, store
<1>6. CASE ClaimNextPending
  BY <1>6, TaskOps DEF ClaimNextPending, TypeOK
<1>7. CASE LaunchFails
  BY <1>7 DEF LaunchFails, TypeOK
<1>8. CASE Reclaim \/ DeadLetter
  BY <1>8, TaskOps DEF Reclaim, DeadLetter, Sweep, TypeOK
<1>9. CASE RetryFailed
  BY <1>9, TaskOps, RowOps, RunnerAssumption DEF RetryFailed, CanRetry, TypeOK
<1>10. CASE Elapse
  BY <1>10, TaskOps DEF Elapse, TypeOK
<1>11. CASE UNCHANGED vars
  BY <1>11 DEF vars, TypeOK
<1> QED
  BY <1>1, <1>2, <1>3, <1>4, <1>5, <1>6, <1>7, <1>8, <1>9, <1>10, <1>11,
     TypeRowStep, TypeRunStep DEF Next

(* Type correctness.                                                        *)
THEOREM TypeCorrect == Spec => []TypeOK
  BY TypeInit, TypeNext, PTL DEF Spec

-----------------------------------------------------------------------------
(* Whatever rows are open, fetchPendingRows returns some: an empty page     *)
(* means that no row can be fetched.                                        *)
LEMMA EmptyPage ==
  ASSUME NextPage = {}, NEW r \in Rows
  PROVE  ~Fetchable(row[r], MaxAttempts)
<1> DEFINE open == {x \in Rows : Fetchable(row[x], MaxAttempts)}
<1> SUFFICES ASSUME open # {} PROVE FALSE
  OBVIOUS
<1>1. open \in SUBSET Nat
  BY RunnerAssumption DEF Rows
<1>2. PICK x \in open : \A y \in open : x <= y
  BY <1>1, Least
<1>3. {s \in open : s < x} = {}
  BY <1>1, <1>2
<1>4. Cardinality({s \in open : s < x}) < BatchSize
  BY <1>3, FS_EmptySet, RunnerAssumption
<1>5. x \in NextPage
  BY <1>2, <1>4 DEF NextPage
<1> QED
  BY <1>5

-----------------------------------------------------------------------------
(* Epochs only grow, and a runner never holds one from the future.          *)
LEMMA OpsEpoch ==
  ASSUME NEW t \in Task, NEW n \in Nat
  PROVE  /\ Claim(t).epoch = t.epoch /\ MarkRunning(t).epoch = t.epoch
         /\ Heartbeat(t).epoch = t.epoch /\ AdvanceProgress(t, n).epoch = t.epoch
         /\ RecomputeProgress(t, n).epoch = t.epoch
         /\ MarkCompleted(t).epoch = t.epoch /\ MarkFailed(t).epoch = t.epoch
         /\ AgeStarted(t).epoch = t.epoch /\ AgeBeat(t).epoch = t.epoch
         /\ ReclaimStale(t).epoch = t.epoch + 1 /\ DeadLetterStale(t).epoch = t.epoch + 1
         /\ RetryTask(t).epoch = t.epoch + 1
<1>1. AgeStarted(t).epoch = t.epoch /\ AgeBeat(t).epoch = t.epoch
  BY DEF Task, AgeStarted, AgeBeat
<1> QED
  BY <1>1 DEF Task, Claim, MarkRunning, Heartbeat, AdvanceProgress, RecomputeProgress,
     MarkCompleted, MarkFailed, ReclaimStale, DeadLetterStale, RetryTask

(* The runner's own steps leave the epoch alone; own changes at acquire and *)
(* at exit.                                                                 *)
OwnMoves == \A w \in Runners : own'[w] = own[w] \/ own'[w] = 0 \/ own'[w] = task.epoch

LEMMA EpochStep ==
  ASSUME TypeOK, [Next]_vars
  PROVE  /\ task'.epoch = task.epoch \/ (task'.epoch = task.epoch + 1 /\ own' = own)
         /\ OwnMoves
<1> DEFINE Goal == /\ task'.epoch = task.epoch \/ (task'.epoch = task.epoch + 1 /\ own' = own)
                   /\ OwnMoves
<1> USE DoneCountNat
<1>t. task \in Task /\ own \in [Runners -> Nat] /\ tally \in [Runners -> Nat]
  BY DEF TypeOK
<1>g. ASSUME NEW w \in Runners, NEW l, GoTo(w, l) PROVE own' = own /\ OwnMoves
  BY <1>g DEF GoTo, OwnMoves
<1>e. ASSUME NEW w \in Runners, Exit(w) PROVE OwnMoves
  BY <1>t, <1>e DEF Exit, OwnMoves
<1>a. ASSUME NEW w \in Runners, own' = [own EXCEPT ![w] = task.epoch] PROVE OwnMoves
  BY <1>t, <1>a DEF OwnMoves
<1>1. ASSUME NEW w \in Runners, RowStep(w) PROVE Goal
  BY <1>1, <1>t DEF RowStep, OwnMoves, StartRow, ApplyRow, ApplyThrows, FlipReads, FlipWrites,
     FlipThrows, CheckMiss, FailReads, FailWrites, PoolRejects, store
<1>2. ASSUME NEW w \in Runners, RunStep(w) PROVE Goal
  <2>f. ASSUME NEW t, t.epoch = task.epoch, NEW l, Fenced(w, t, l) PROVE Goal
    BY <1>t, <1>g, <1>e, <2>f DEF Fenced
  <2>1. CASE Acquire(w)
    BY <1>g, <1>e, <1>a, <2>1 DEF Acquire
  <2>2. CASE ClaimPending(w)
    BY <1>t, <1>e, <1>a, <2>2, OpsEpoch DEF ClaimPending
  <2>3. CASE BeginRun(w)
    BY <1>t, <2>3, <2>f, OpsEpoch DEF BeginRun
  <2>4. CASE InitialRecount(w)
    BY <1>t, <2>4, <2>f, OpsEpoch DEF InitialRecount
  <2>5. CASE FetchPage(w)
    BY <1>t, <1>g, <2>5 DEF FetchPage, OwnMoves
  <2>6. CASE EndPage(w)
    <3>1. AdvanceProgress(task, tally[w]).epoch = task.epoch
      BY <1>t, OpsEpoch
    <3> QED BY <1>t, <1>e, <2>6, <3>1 DEF EndPage, OwnMoves
  <2>7. CASE ZombieEnds(w)
    BY <1>e, <2>7 DEF ZombieEnds, store
  <2>8. CASE FinalRecount(w)
    <3>1. RecomputeProgress(task, DoneCount).epoch = task.epoch
      BY <1>t, OpsEpoch
    <3> QED BY <1>g, <1>e, <2>8, <3>1 DEF FinalRecount
  <2>9. CASE CountRows(w)
    BY <1>t, <1>g, <2>9 DEF CountRows, OwnMoves, store
  <2>10. CASE Finish(w)
    BY <1>t, <1>e, <2>10, OpsEpoch DEF Finish
  <2> QED BY <1>2, <2>1, <2>2, <2>3, <2>4, <2>5, <2>6, <2>7, <2>8, <2>9, <2>10 DEF RunStep
<1>3. ASSUME NEW w \in Runners, Launch(w) \/ FireByHand(w) PROVE Goal
  BY <1>t, <1>g, <1>3 DEF Launch, FireByHand, OwnMoves
<1>4. ASSUME NEW w \in Runners, Beat(w) PROVE Goal
  BY <1>t, <1>4, OpsEpoch DEF Beat, OwnMoves
<1>5. ASSUME NEW w \in Runners, RequestDrain(w) PROVE Goal
  BY <1>t, <1>5 DEF RequestDrain, OwnMoves, store
<1>6. ASSUME NEW w \in Runners, Crash(w) PROVE Goal
  BY <1>e, <1>6 DEF Crash, store
<1>7. CASE ClaimNextPending \/ LaunchFails \/ Elapse
  BY <1>t, <1>7, OpsEpoch DEF ClaimNextPending, LaunchFails, Elapse, OwnMoves
<1>8. CASE Reclaim \/ DeadLetter \/ RetryFailed
  BY <1>t, <1>8, OpsEpoch DEF Reclaim, DeadLetter, Sweep, RetryFailed, OwnMoves
<1>9. CASE UNCHANGED vars
  BY <1>9 DEF vars, OwnMoves
<1> QED
  BY <1>1, <1>2, <1>3, <1>4, <1>5, <1>6, <1>7, <1>8, <1>9 DEF Next

LEMMA EpochsPastNext ==
  ASSUME TypeOK, EpochsPast, [Next]_vars
  PROVE  EpochsPast'
<1>1. task.epoch \in Nat /\ own \in [Runners -> Nat]
  BY DEF TypeOK, Task
<1> QED
  BY <1>1, EpochStep DEF EpochsPast, OwnMoves

-----------------------------------------------------------------------------
(* Only the row steps of a page and the retry touch the ledger, and only    *)
(* the former bring a row anywhere but out of the page or into its queue.   *)
Calm ==
  /\ applied' = applied
  /\ row' = row \/ RetryFailed
  /\ \A w \in Runners, r \in Rows : stage'[w][r] \in {stage[w][r], "idle", "queued"}

LEMMA CalmStep ==
  ASSUME TypeOK, [Next]_vars
  PROVE  Calm \/ \E w \in Runners : RowStep(w)
<1>t. stage \in [Runners -> [Rows -> Stage]]
  BY DEF TypeOK
<1>u. ASSUME UNCHANGED <<applied, row, stage>> PROVE Calm
  BY <1>u DEF Calm
<1>g. ASSUME NEW w \in Runners, NEW l, GoTo(w, l), UNCHANGED <<applied, row>> PROVE Calm
  BY <1>g DEF GoTo, Calm
<1>e. ASSUME NEW w \in Runners, Exit(w), UNCHANGED <<applied, row>> PROVE Calm
  BY <1>t, <1>e DEF Exit, AllIdle, Calm
<1>1. ASSUME NEW w \in Runners, RunStep(w) PROVE Calm
  <2>f. ASSUME NEW t, NEW l, Fenced(w, t, l) PROVE Calm
    BY <1>g, <1>e, <2>f DEF Fenced
  <2>1. CASE Acquire(w)
    BY <1>u, <1>g, <1>e, <2>1 DEF Acquire
  <2>2. CASE ClaimPending(w)
    BY <1>u, <1>e, <2>2 DEF ClaimPending
  <2>3. CASE BeginRun(w) \/ InitialRecount(w)
    BY <2>3, <2>f DEF BeginRun, InitialRecount
  <2>5. CASE FetchPage(w)
    <3>1. CASE halt[w] # "no" \/ NextPage = {}
      BY <1>g, <2>5, <3>1 DEF FetchPage
    <3>2. CASE ~(halt[w] # "no" \/ NextPage = {})
      BY <1>t, <2>5, <3>2 DEF FetchPage, Calm
    <3> QED BY <3>1, <3>2
  <2>6. CASE EndPage(w)
    <3>1. CASE halt[w] = "lost" \/ ~Owns(w)
      BY <1>e, <2>6, <3>1 DEF EndPage
    <3>2. CASE ~(halt[w] = "lost" \/ ~Owns(w))
      BY <1>t, <2>6, <3>2 DEF EndPage, AllIdle, Calm
    <3> QED BY <3>1, <3>2
  <2>7. CASE ZombieEnds(w)
    BY <1>e, <2>7 DEF ZombieEnds, store
  <2>8. CASE FinalRecount(w)
    BY <1>g, <1>e, <2>8 DEF FinalRecount
  <2>9. CASE CountRows(w)
    BY <1>g, <2>9 DEF CountRows, store
  <2>10. CASE Finish(w)
    BY <1>e, <2>10 DEF Finish
  <2> QED BY <1>1, <2>1, <2>2, <2>3, <2>5, <2>6, <2>7, <2>8, <2>9, <2>10 DEF RunStep
<1>2. ASSUME NEW w \in Runners, Launch(w) \/ FireByHand(w) PROVE Calm
  BY <1>g, <1>2 DEF Launch, FireByHand
<1>3. ASSUME NEW w \in Runners, Beat(w) \/ RequestDrain(w) PROVE Calm
  BY <1>u, <1>3 DEF Beat, RequestDrain, store
<1>4. ASSUME NEW w \in Runners, Crash(w) PROVE Calm
  BY <1>e, <1>4 DEF Crash, store
<1>5. CASE ClaimNextPending \/ LaunchFails \/ Elapse \/ Reclaim \/ DeadLetter
  BY <1>u, <1>5 DEF ClaimNextPending, LaunchFails, Elapse, Reclaim, DeadLetter, Sweep
<1>6. CASE RetryFailed
  BY <1>6 DEF RetryFailed, CanRetry, Calm
<1>7. CASE UNCHANGED vars
  BY <1>u, <1>7 DEF vars
<1> QED
  BY <1>1, <1>2, <1>3, <1>4, <1>5, <1>6, <1>7 DEF Next

(* What the steps of one row do to the effects and to the ledger: `done`    *)
(* comes from "flipping", a recorded failure from "failing", both on a row  *)
(* that is pending at that moment.                                          *)
RowMoves(w, r) ==
  /\ \A v \in Runners, s \in Rows : <<v, s>> # <<w, r>> => stage'[v][s] = stage[v][s]
  /\ \A s \in Rows : s # r => row'[s] = row[s]
  /\ task' = task
  /\ \A s \in Rows : applied[s] => applied'[s]
  /\ applied' = applied \/ (row' = row /\ applied' = [applied EXCEPT ![r] = TRUE])
  /\ stage'[w][r] = "flip" => applied'[r]
  /\ stage'[w][r] = "flipping" => stage[w][r] = "flip"
  /\ \/ row'[r] = row[r]
     \/ /\ stage[w][r] = "flipping" /\ row[r].status = "pending"
        /\ row'[r] = MarkRowDone(row[r])
     \/ /\ stage[w][r] = "failing" /\ row[r].status = "pending"
        /\ row'[r] = RecordRowFailure(row[r], MaxAttempts)

LEMMA RowStepMoves ==
  ASSUME TypeOK, NEW w \in Runners, RowStep(w)
  PROVE  \E r \in Rows : RowMoves(w, r)
<1>t. /\ stage \in [Runners -> [Rows -> Stage]] /\ row \in [Rows -> Row]
      /\ applied \in [Rows -> BOOLEAN]
  BY DEF TypeOK
<1> PICK r \in Rows :
       \/ StartRow(w, r) \/ ApplyRow(w, r) \/ ApplyThrows(w, r)
       \/ FlipReads(w, r) \/ FlipWrites(w, r) \/ FlipThrows(w, r) \/ CheckMiss(w, r)
       \/ FailReads(w, r) \/ FailWrites(w, r) \/ PoolRejects(w, r)
  BY DEF RowStep
<1>s. ASSUME NEW s \in Stage, ToStage(w, r, s)
      PROVE  /\ stage'[w][r] = s
             /\ \A v \in Runners, q \in Rows : <<v, q>> # <<w, r>> => stage'[v][q] = stage[v][q]
  BY <1>t, <1>s DEF ToStage
<1>1. CASE StartRow(w, r)
  BY <1>t, <1>s, <1>1 DEF StartRow, RowMoves, store, Stage
<1>2. CASE ApplyRow(w, r)
  BY <1>t, <1>s, <1>2 DEF ApplyRow, RowMoves, Stage
<1>3. CASE ApplyThrows(w, r)
  <2>1. PICK landed \in BOOLEAN : applied' = [applied EXCEPT ![r] = applied[r] \/ landed]
    BY <1>3 DEF ApplyThrows
  <2>2. applied' = applied \/ applied' = [applied EXCEPT ![r] = TRUE]
    <3>1. CASE landed
      <4>1. (applied[r] \/ landed) = TRUE
        BY <1>t, <3>1
      <4> QED BY <2>1, <4>1
    <3>2. CASE ~landed
      <4>1. (applied[r] \/ landed) = applied[r]
        BY <1>t, <3>2
      <4>2. [applied EXCEPT ![r] = applied[r]] = applied
        BY <1>t
      <4> QED BY <2>1, <4>1, <4>2
    <3> QED BY <3>1, <3>2
  <2>3. \A s \in Rows : applied[s] => applied'[s]
    BY <1>t, <2>2
  <2>4. task' = task /\ row' = row
    BY <1>3 DEF ApplyThrows
  <2>5. PICK s \in {"fail", "idle"} : ToStage(w, r, s)
    BY <1>3 DEF ApplyThrows
  <2> QED BY <1>s, <2>2, <2>3, <2>4, <2>5 DEF RowMoves, Stage
<1>4. CASE FlipReads(w, r)
  BY <1>t, <1>s, <1>4 DEF FlipReads, RowMoves, store, Stage
<1>5. CASE FlipWrites(w, r)
  BY <1>t, <1>s, <1>5 DEF FlipWrites, RowMoves, Stage
<1>6. CASE FlipThrows(w, r)
  BY <1>t, <1>s, <1>6 DEF FlipThrows, RowMoves, store, Stage
<1>7. CASE CheckMiss(w, r)
  BY <1>t, <1>s, <1>7 DEF CheckMiss, RowMoves, store, Stage
<1>8. CASE FailReads(w, r)
  BY <1>t, <1>s, <1>8 DEF FailReads, RowMoves, store, Stage
<1>9. CASE FailWrites(w, r)
  BY <1>t, <1>s, <1>9 DEF FailWrites, RowMoves, Stage
<1>10. CASE PoolRejects(w, r)
  BY <1>t, <1>s, <1>10 DEF PoolRejects, RowMoves, store, Stage
<1> QED BY <1>1, <1>2, <1>3, <1>4, <1>5, <1>6, <1>7, <1>8, <1>9, <1>10

-----------------------------------------------------------------------------
(* Effects come first.                                                      *)
LEMMA EffectsNext ==
  ASSUME TypeOK, EffectKnown, EffectBeforeFlip, [Next]_vars
  PROVE  EffectKnown' /\ EffectBeforeFlip'
<1>t. row \in [Rows -> Row] /\ applied \in [Rows -> BOOLEAN]
  BY DEF TypeOK
<1>1. CASE Calm
  <2>1. EffectKnown'
    BY <1>1 DEF Calm, EffectKnown
  <2>2. \A r \in Rows : row'[r].status = "done" => row[r].status = "done"
    BY <1>t, <1>1 DEF Calm, RetryFailed, RetryRow, NewRow
  <2>3. EffectBeforeFlip'
    BY <1>1, <2>2 DEF Calm, EffectBeforeFlip
  <2> QED BY <2>1, <2>3
<1>2. ASSUME NEW w \in Runners, NEW r \in Rows, RowMoves(w, r)
      PROVE  EffectKnown' /\ EffectBeforeFlip'
  <2>1. EffectKnown'
    <3> SUFFICES ASSUME NEW v \in Runners, NEW s \in Rows,
                        stage'[v][s] \in {"flip", "flipping"}
                 PROVE  applied'[s]
      BY DEF EffectKnown
    <3>1. CASE <<v, s>> # <<w, r>>
      BY <1>2, <3>1 DEF RowMoves, EffectKnown
    <3>2. CASE <<v, s>> = <<w, r>>
      BY <1>2, <3>2 DEF RowMoves, EffectKnown
    <3> QED BY <3>1, <3>2
  <2>2. EffectBeforeFlip'
    <3> SUFFICES ASSUME NEW s \in Rows, row'[s].status = "done"
                 PROVE  applied'[s]
      BY DEF EffectBeforeFlip
    <3>1. CASE row'[s] = row[s]
      BY <1>2, <3>1 DEF RowMoves, EffectBeforeFlip
    <3>2. CASE row'[s] # row[s] /\ stage[w][r] = "flipping"
      BY <1>2, <3>2 DEF RowMoves, EffectKnown
    <3>3. CASE row'[s] # row[s] /\ stage[w][r] # "flipping"
      <4>1. s = r /\ row'[s] = RecordRowFailure(row[r], MaxAttempts)
        BY <1>2, <3>3 DEF RowMoves
      <4> QED BY <4>1 DEF RecordRowFailure
    <3> QED BY <3>1, <3>2, <3>3
  <2> QED BY <2>1, <2>2
<1> QED
  BY <1>1, <1>2, CalmStep, RowStepMoves

(* The attempts budget.                                                     *)
LEMMA BudgetNext ==
  ASSUME TypeOK, AttemptsBudget, [Next]_vars
  PROVE  AttemptsBudget'
<1>t. row \in [Rows -> Row] /\ row' \in [Rows -> Row]
  BY TypeNext DEF TypeOK
<1>b. MaxAttempts \in Nat /\ MaxAttempts > 0
  BY RunnerAssumption
<1> DEFINE Within(x) == /\ x.status = "pending" => x.attempts < MaxAttempts
                        /\ x.status = "failed"  => x.attempts = MaxAttempts
                        /\ x.status = "done"    => x.attempts \in 1 .. MaxAttempts
<1>0. \A r \in Rows : Within(row[r])
  BY DEF AttemptsBudget
<1>1. ASSUME \A r \in Rows : Within(row'[r]) PROVE AttemptsBudget'
  BY <1>t, <1>1 DEF AttemptsBudget, Row, RowStatus
<1>2. ASSUME NEW x \in Row, Within(x) PROVE Within(RetryRow(x))
  BY <1>b, <1>2 DEF RetryRow, NewRow
<1>3. ASSUME NEW x \in Row, Within(x), x.status = "pending"
      PROVE  Within(MarkRowDone(x)) /\ Within(RecordRowFailure(x, MaxAttempts))
  BY <1>b, <1>3 DEF Row, MarkRowDone, RecordRowFailure
<1> HIDE DEF Within
<1>4. CASE Calm
  <2>1. \A r \in Rows : row'[r] = row[r] \/ row'[r] = RetryRow(row[r])
    BY <1>t, <1>4 DEF Calm, RetryFailed
  <2> QED BY <1>t, <1>0, <1>1, <1>2, <2>1
<1>5. ASSUME NEW w \in Runners, NEW r \in Rows, RowMoves(w, r) PROVE AttemptsBudget'
  BY <1>t, <1>0, <1>1, <1>3, <1>5 DEF RowMoves
<1> QED
  BY <1>4, <1>5, CalmStep, RowStepMoves

-----------------------------------------------------------------------------
(* The verdict.  Same(v): the step leaves runner v where it is, or only     *)
(* makes it halt.                                                           *)
Same(v) == /\ own'[v] = own[v] /\ pc'[v] = pc[v]
           /\ halt'[v] = halt[v] \/ halt'[v] # "no"

VerdictFor(v) ==
  Owns(v) => /\ (pc[v] = "final" /\ halt[v] = "no") \/ pc[v] = "count" => NoPending
             /\ pc[v] = "complete" => AllDone
             /\ pc[v] = "fail" => SomeFailed

(* Only three steps of a runner bring it nearer to a verdict.               *)
Nearer(v) == FetchPage(v) \/ FinalRecount(v) \/ CountRows(v)

LEMMA WhoMoves ==
  ASSUME TypeOK, [Next]_vars, NEW v \in Runners
  PROVE  Same(v) \/ pc'[v] \notin {"final", "count", "complete", "fail"} \/ Nearer(v)
<1> DEFINE Goal == Same(v) \/ pc'[v] \notin {"final", "count", "complete", "fail"} \/ Nearer(v)
<1>t. /\ pc \in [Runners -> PC] /\ own \in [Runners -> Nat]
      /\ halt \in [Runners -> {"no", "drain", "lost"}]
  BY DEF TypeOK
<1>u. ASSUME UNCHANGED <<pc, own, halt>> PROVE Goal
  BY <1>u DEF Same
<1>g. ASSUME NEW w \in Runners, NEW l, GoTo(w, l), l \notin {"final", "count", "complete", "fail"}
      PROVE Goal
  BY <1>t, <1>g DEF GoTo, Same
<1>e. ASSUME NEW w \in Runners, Exit(w) PROVE Goal
  BY <1>t, <1>e DEF Exit, Same
<1>n. ASSUME NEW w \in Runners, NEW l, GoTo(w, l), Nearer(w) PROVE Goal
  BY <1>t, <1>n DEF GoTo, Same
<1>1. ASSUME NEW w \in Runners, RowStep(w) PROVE Goal
  BY <1>t, <1>1 DEF RowStep, StartRow, ApplyRow, ApplyThrows, FlipReads, FlipWrites,
     FlipThrows, CheckMiss, Lose, FailReads, FailWrites, PoolRejects, Same
<1>2. ASSUME NEW w \in Runners, RunStep(w) PROVE Goal
  <2>f. ASSUME NEW t, NEW l, l \notin {"final", "count", "complete", "fail"}, Fenced(w, t, l) PROVE Goal
    BY <1>g, <1>e, <2>f DEF Fenced
  <2>1. CASE Acquire(w)
    BY <1>t, <1>g, <1>e, <2>1 DEF Acquire, Same
  <2>2. CASE ClaimPending(w)
    BY <1>t, <1>e, <2>2 DEF ClaimPending, Same
  <2>3. CASE BeginRun(w) \/ InitialRecount(w)
    BY <2>3, <2>f DEF BeginRun, InitialRecount
  <2>5. CASE FetchPage(w)
    <3>1. CASE halt[w] # "no" \/ NextPage = {}
      BY <1>n, <2>5, <3>1 DEF FetchPage, Nearer
    <3>2. CASE ~(halt[w] # "no" \/ NextPage = {})
      BY <1>t, <2>5, <3>2 DEF FetchPage, Same
    <3> QED BY <3>1, <3>2
  <2>6. CASE EndPage(w)
    <3>1. CASE halt[w] = "lost" \/ ~Owns(w)
      BY <1>e, <2>6, <3>1 DEF EndPage
    <3>2. CASE ~(halt[w] = "lost" \/ ~Owns(w))
      BY <1>t, <2>6, <3>2 DEF EndPage, Same
    <3> QED BY <3>1, <3>2
  <2>7. CASE ZombieEnds(w)
    BY <1>e, <2>7 DEF ZombieEnds
  <2>8. CASE FinalRecount(w)
    BY <1>n, <1>e, <2>8 DEF FinalRecount, Nearer
  <2>9. CASE CountRows(w)
    BY <1>n, <2>9 DEF CountRows, Nearer
  <2>10. CASE Finish(w)
    BY <1>e, <2>10 DEF Finish
  <2> QED BY <1>2, <2>1, <2>2, <2>3, <2>5, <2>6, <2>7, <2>8, <2>9, <2>10 DEF RunStep
<1>3. ASSUME NEW w \in Runners, Launch(w) \/ FireByHand(w) PROVE Goal
  BY <1>g, <1>3 DEF Launch, FireByHand
<1>4. ASSUME NEW w \in Runners, Beat(w) \/ RequestDrain(w) PROVE Goal
  BY <1>t, <1>4 DEF Beat, RequestDrain, Lose, Same
<1>5. ASSUME NEW w \in Runners, Crash(w) PROVE Goal
  BY <1>e, <1>5 DEF Crash
<1>6. CASE ClaimNextPending \/ LaunchFails \/ Elapse \/ Reclaim \/ DeadLetter \/ RetryFailed
  BY <1>u, <1>6 DEF ClaimNextPending, LaunchFails, Elapse, Reclaim, DeadLetter, Sweep,
     RetryFailed
<1>7. CASE UNCHANGED vars
  BY <1>u, <1>7 DEF vars
<1> QED
  BY <1>1, <1>2, <1>3, <1>4, <1>5, <1>6, <1>7 DEF Next

(* A ledger without a pending row stays as it is until a retry.             *)
LEMMA Settled ==
  ASSUME TypeOK, [Next]_vars, ~RetryFailed
  PROVE  /\ NoPending => NoPending'
         /\ AllDone => AllDone'
         /\ SomeFailed => SomeFailed'
<1>1. AllDone => NoPending
  BY DEF AllDone, NoPending
<1>2. ASSUME NoPending PROVE \A r \in Rows : row'[r] = row[r]
  BY <1>2, CalmStep, RowStepMoves DEF Calm, RowMoves, NoPending
<1>3. ASSUME NEW r \in Rows, row[r].status = "failed" PROVE row'[r] = row[r]
  BY <1>3, CalmStep, RowStepMoves DEF Calm, RowMoves
<1> QED
  BY <1>1, <1>2, <1>3 DEF AllDone, NoPending, SomeFailed

LEMMA OpsStatus ==
  ASSUME NEW t \in Task, NEW n \in Nat
  PROVE  /\ Claim(t).status = "starting" /\ MarkRunning(t).status = "running"
         /\ Heartbeat(t).status = t.status /\ AdvanceProgress(t, n).status = t.status
         /\ RecomputeProgress(t, n).status = t.status
         /\ MarkCompleted(t).status = "completed" /\ MarkFailed(t).status = "failed"
         /\ AgeStarted(t).status = t.status /\ AgeBeat(t).status = t.status
         /\ ReclaimStale(t).status = "pending" /\ DeadLetterStale(t).status = "failed"
         /\ RetryTask(t).status = "pending"
<1>1. AgeStarted(t).status = t.status /\ AgeBeat(t).status = t.status
  BY DEF Task, AgeStarted, AgeBeat
<1> QED
  BY <1>1 DEF Task, Claim, MarkRunning, Heartbeat, AdvanceProgress, RecomputeProgress,
     MarkCompleted, MarkFailed, ReclaimStale, DeadLetterStale, RetryTask

(* Nothing but markCompleted makes a task completed.                        *)
LEMMA WhoCompletes ==
  ASSUME TypeOK, [Next]_vars, task'.status = "completed"
  PROVE  \/ task.status = "completed" /\ ~RetryFailed
         \/ \E w \in Runners : Finish(w) /\ pc[w] = "complete" /\ Owns(w)
<1> DEFINE Goal == \/ task.status = "completed" /\ ~RetryFailed
                   \/ \E w \in Runners : Finish(w) /\ pc[w] = "complete" /\ Owns(w)
<1> USE DoneCountNat
<1>t. task \in Task /\ tally \in [Runners -> Nat]
  BY DEF TypeOK
<1>r. ~RetryFailed
  BY <1>t, OpsStatus DEF RetryFailed, CanRetry
<1>u. ASSUME task' = task PROVE Goal
  BY <1>r, <1>u
<1>1. ASSUME NEW w \in Runners, RowStep(w) PROVE Goal
  BY <1>u, <1>1 DEF RowStep, StartRow, ApplyRow, ApplyThrows, FlipReads, FlipWrites,
     FlipThrows, CheckMiss, FailReads, FailWrites, PoolRejects, store
<1>2. ASSUME NEW w \in Runners, RunStep(w) PROVE Goal
  <2>1. CASE Acquire(w)
    BY <1>u, <2>1 DEF Acquire
  <2>2. CASE ClaimPending(w)
    BY <1>u, <1>t, <2>2, OpsStatus DEF ClaimPending
  <2>3. CASE BeginRun(w)
    BY <1>u, <1>t, <2>3, OpsStatus DEF BeginRun, Fenced
  <2>4. CASE InitialRecount(w)
    <3>1. RecomputeProgress(task, DoneCount).status = task.status
      BY <1>t, OpsStatus
    <3> QED BY <1>u, <1>r, <2>4, <3>1 DEF InitialRecount, Fenced
  <2>5. CASE FetchPage(w) \/ ZombieEnds(w) \/ CountRows(w)
    BY <1>u, <2>5 DEF FetchPage, ZombieEnds, CountRows, store
  <2>6. CASE EndPage(w)
    <3>1. AdvanceProgress(task, tally[w]).status = task.status
      BY <1>t, OpsStatus
    <3> QED BY <1>u, <1>r, <2>6, <3>1 DEF EndPage
  <2>8. CASE FinalRecount(w)
    <3>1. RecomputeProgress(task, DoneCount).status = task.status
      BY <1>t, OpsStatus
    <3> QED BY <1>u, <1>r, <2>8, <3>1 DEF FinalRecount
  <2>10. CASE Finish(w)
    <3>1. MarkFailed(task).status = "failed"
      BY <1>t, OpsStatus
    <3> QED BY <1>u, <2>10, <3>1 DEF Finish
  <2> QED BY <1>2, <2>1, <2>2, <2>3, <2>4, <2>5, <2>6, <2>8, <2>10 DEF RunStep
<1>3. ASSUME NEW w \in Runners, Launch(w) \/ FireByHand(w) \/ RequestDrain(w) \/ Crash(w)
      PROVE Goal
  BY <1>u, <1>3 DEF Launch, FireByHand, RequestDrain, Crash, store
<1>4. ASSUME NEW w \in Runners, Beat(w) PROVE Goal
  BY <1>u, <1>r, <1>t, <1>4, OpsStatus DEF Beat
<1>5. CASE ClaimNextPending \/ Reclaim \/ DeadLetter
  BY <1>t, <1>5, OpsStatus DEF ClaimNextPending, Reclaim, DeadLetter, Sweep
<1>6. CASE LaunchFails \/ Elapse
  BY <1>u, <1>r, <1>t, <1>6, OpsStatus DEF LaunchFails, Elapse
<1>7. CASE UNCHANGED vars
  BY <1>u, <1>7 DEF vars
<1> QED
  BY <1>r, <1>1, <1>2, <1>3, <1>4, <1>5, <1>6, <1>7 DEF Next

LEMMA VerdictNext ==
  ASSUME TypeOK, EpochsPast, AttemptsBudget, VerdictKnown, CompletedMeansAllDone, [Next]_vars
  PROVE  VerdictKnown' /\ CompletedMeansAllDone'
<1>t. /\ task \in Task /\ row \in [Rows -> Row] /\ own \in [Runners -> Nat]
      /\ pc \in [Runners -> PC] /\ halt \in [Runners -> {"no", "drain", "lost"}]
  BY DEF TypeOK
<1>v. \A v \in Runners : VerdictFor(v)
  BY DEF VerdictKnown, VerdictFor
<1>1. VerdictKnown'
  <2> SUFFICES ASSUME NEW v \in Runners PROVE VerdictFor(v)'
    BY DEF VerdictKnown, VerdictFor
  <2>1. CASE task'.epoch # task.epoch
    <3>1. task'.epoch = task.epoch + 1 /\ own'[v] = own[v]
      BY <2>1, EpochStep
    <3>2. own[v] \in Nat /\ task.epoch \in Nat /\ own[v] <= task.epoch
      BY <1>t DEF EpochsPast, Task
    <3>3. own'[v] # task'.epoch
      BY <3>1, <3>2
    <3> QED BY <3>3 DEF VerdictFor, Owns, Holds
  <2>2. CASE task'.epoch = task.epoch
    <3>r. ~RetryFailed
      <4>1. task.epoch \in Nat /\ RetryTask(task).epoch = task.epoch + 1
        BY <1>t, OpsEpoch DEF Task
      <4> QED BY <2>2, <4>1 DEF RetryFailed, CanRetry
    <3>1. CASE Same(v)
      BY <1>v, <2>2, <3>r, <3>1, Settled DEF Same, VerdictFor, Owns, Holds
    <3>2. CASE pc'[v] \notin {"final", "count", "complete", "fail"}
      BY <3>2 DEF VerdictFor
    <3>3. CASE FetchPage(v)
      <4>1. CASE halt[v] # "no"
        BY <1>t, <3>3, <4>1 DEF FetchPage, GoTo, VerdictFor
      <4>2. CASE halt[v] = "no" /\ NextPage = {}
        <5>1. NoPending
          BY <4>2, EmptyPage DEF AttemptsBudget, Fetchable, NoPending
        <5>2. pc'[v] = "final"
          BY <1>t, <3>3, <4>2 DEF FetchPage, GoTo
        <5> QED BY <3>r, <5>1, <5>2, Settled DEF VerdictFor
      <4>3. CASE halt[v] = "no" /\ NextPage # {}
        BY <1>t, <3>3, <4>3 DEF FetchPage, VerdictFor
      <4> QED BY <4>1, <4>2, <4>3
    <3>4. CASE FinalRecount(v)
      <4>1. CASE halt[v] = "no" /\ Owns(v)
        <5>1. NoPending
          BY <1>v, <3>4, <4>1 DEF FinalRecount, VerdictFor
        <5>2. pc'[v] = "count"
          BY <1>t, <3>4, <4>1 DEF FinalRecount, GoTo
        <5> QED BY <3>r, <5>1, <5>2, Settled DEF VerdictFor
      <4>2. CASE ~(halt[v] = "no" /\ Owns(v))
        <5>1. pc'[v] = "off"
          BY <1>t, <3>4, <4>2 DEF FinalRecount, Exit
        <5> QED BY <5>1 DEF VerdictFor
      <4> QED BY <4>1, <4>2
    <3>5. CASE CountRows(v)
      <4>1. Owns(v)' => Owns(v)
        BY <2>2, <3>5 DEF CountRows, GoTo, Owns, Holds
      <4>2. Owns(v) => NoPending
        BY <1>v, <3>5 DEF CountRows, VerdictFor
      <4>3. IF SomeFailed THEN pc'[v] = "fail" ELSE pc'[v] = "complete"
        BY <1>t, <3>5 DEF CountRows, GoTo, SomeFailed
      <4>4. NoPending /\ ~SomeFailed => AllDone
        BY <1>t DEF NoPending, SomeFailed, AllDone, Row, RowStatus
      <4> QED BY <3>r, <4>1, <4>2, <4>3, <4>4, Settled DEF VerdictFor
    <3> QED BY <3>1, <3>2, <3>3, <3>4, <3>5, WhoMoves DEF Nearer
  <2> QED BY <2>1, <2>2
<1>2. CompletedMeansAllDone'
  <2> SUFFICES ASSUME task'.status = "completed" PROVE AllDone'
    BY DEF CompletedMeansAllDone, AllDone
  <2>1. CASE task.status = "completed" /\ ~RetryFailed
    BY <2>1, Settled DEF CompletedMeansAllDone, AllDone
  <2>2. ASSUME NEW w \in Runners, Finish(w), pc[w] = "complete", Owns(w) PROVE AllDone'
    BY <1>v, <2>2 DEF VerdictFor, Finish, AllDone
  <2> QED BY <2>1, <2>2, WhoCompletes
<1> QED
  BY <1>1, <1>2

-----------------------------------------------------------------------------
(* Nothing but a runner's verdict and the sweeper fails a task, and a       *)
(* failed task gets no new owner.                                           *)
LEMMA WhoFails ==
  ASSUME TypeOK, [Next]_vars, task'.status = "failed"
  PROVE  \/ task.status = "failed" /\ ~RetryFailed
         \/ DeadLetter
         \/ \E w \in Runners : Finish(w) /\ pc[w] = "fail" /\ Owns(w)
<1> DEFINE Goal == \/ task.status = "failed" /\ ~RetryFailed
                   \/ DeadLetter
                   \/ \E w \in Runners : Finish(w) /\ pc[w] = "fail" /\ Owns(w)
<1> USE DoneCountNat
<1>t. task \in Task /\ tally \in [Runners -> Nat]
  BY DEF TypeOK
<1>r. ~RetryFailed
  BY <1>t, OpsStatus DEF RetryFailed, CanRetry
<1>u. ASSUME task' = task PROVE Goal
  BY <1>r, <1>u
<1>1. ASSUME NEW w \in Runners, RowStep(w) PROVE Goal
  BY <1>u, <1>1 DEF RowStep, StartRow, ApplyRow, ApplyThrows, FlipReads, FlipWrites,
     FlipThrows, CheckMiss, FailReads, FailWrites, PoolRejects, store
<1>2. ASSUME NEW w \in Runners, RunStep(w) PROVE Goal
  <2>1. CASE Acquire(w)
    BY <1>u, <2>1 DEF Acquire
  <2>2. CASE ClaimPending(w)
    BY <1>u, <1>t, <2>2, OpsStatus DEF ClaimPending
  <2>3. CASE BeginRun(w)
    BY <1>u, <1>t, <2>3, OpsStatus DEF BeginRun, Fenced
  <2>4. CASE InitialRecount(w)
    <3>1. RecomputeProgress(task, DoneCount).status = task.status
      BY <1>t, OpsStatus
    <3> QED BY <1>u, <1>r, <2>4, <3>1 DEF InitialRecount, Fenced
  <2>5. CASE FetchPage(w) \/ ZombieEnds(w) \/ CountRows(w)
    BY <1>u, <2>5 DEF FetchPage, ZombieEnds, CountRows, store
  <2>6. CASE EndPage(w)
    <3>1. AdvanceProgress(task, tally[w]).status = task.status
      BY <1>t, OpsStatus
    <3> QED BY <1>u, <1>r, <2>6, <3>1 DEF EndPage
  <2>8. CASE FinalRecount(w)
    <3>1. RecomputeProgress(task, DoneCount).status = task.status
      BY <1>t, OpsStatus
    <3> QED BY <1>u, <1>r, <2>8, <3>1 DEF FinalRecount
  <2>10. CASE Finish(w)
    <3>1. MarkCompleted(task).status = "completed"
      BY <1>t, OpsStatus
    <3> QED BY <1>u, <2>10, <3>1 DEF Finish
  <2> QED BY <1>2, <2>1, <2>2, <2>3, <2>4, <2>5, <2>6, <2>8, <2>10 DEF RunStep
<1>3. ASSUME NEW w \in Runners, Launch(w) \/ FireByHand(w) \/ RequestDrain(w) \/ Crash(w)
      PROVE Goal
  BY <1>u, <1>3 DEF Launch, FireByHand, RequestDrain, Crash, store
<1>4. ASSUME NEW w \in Runners, Beat(w) PROVE Goal
  BY <1>u, <1>r, <1>t, <1>4, OpsStatus DEF Beat
<1>5. CASE ClaimNextPending \/ Reclaim \/ DeadLetter
  BY <1>t, <1>5, OpsStatus DEF ClaimNextPending, Reclaim, Sweep
<1>6. CASE LaunchFails \/ Elapse
  BY <1>u, <1>r, <1>t, <1>6, OpsStatus DEF LaunchFails, Elapse
<1>7. CASE UNCHANGED vars
  BY <1>u, <1>7 DEF vars
<1> QED
  BY <1>r, <1>1, <1>2, <1>3, <1>4, <1>5, <1>6, <1>7 DEF Next

Unowned == {"off", "boot", "claim"}

LEMMA WhoEnters ==
  ASSUME TypeOK, [Next]_vars, NEW v \in Runners, pc'[v] \notin Unowned,
         task.status = "failed"
  PROVE  pc[v] \notin Unowned /\ own'[v] = own[v]
<1> DEFINE Goal == pc[v] \notin Unowned /\ own'[v] = own[v]
<1> USE DEF Unowned
<1>t. pc \in [Runners -> PC] /\ own \in [Runners -> Nat]
  BY DEF TypeOK
<1>u. ASSUME UNCHANGED <<pc, own>> PROVE Goal
  BY <1>u
<1>e. ASSUME NEW w \in Runners, Exit(w) PROVE Goal
  BY <1>t, <1>e DEF Exit
<1>m. ASSUME NEW w \in Runners, NEW l, pc' = [pc EXCEPT ![w] = l], own' = own,
             pc[w] \notin Unowned \/ l \in Unowned
      PROVE Goal
  BY <1>t, <1>m
<1>1. ASSUME NEW w \in Runners, RowStep(w) PROVE Goal
  BY <1>u, <1>t, <1>1 DEF RowStep, StartRow, ApplyRow, ApplyThrows, FlipReads, FlipWrites,
     FlipThrows, CheckMiss, FailReads, FailWrites, PoolRejects
<1>2. ASSUME NEW w \in Runners, RunStep(w) PROVE Goal
  <2>1. CASE Acquire(w)
    BY <1>e, <1>m, <2>1 DEF Acquire, GoTo, Claimed
  <2>2. CASE ClaimPending(w)
    BY <1>e, <2>2 DEF ClaimPending
  <2>3. CASE BeginRun(w) \/ InitialRecount(w)
    BY <1>e, <1>m, <2>3 DEF BeginRun, InitialRecount, Fenced, GoTo
  <2>5. CASE FetchPage(w)
    BY <1>m, <2>5 DEF FetchPage, GoTo
  <2>6. CASE EndPage(w)
    BY <1>e, <1>m, <2>6 DEF EndPage
  <2>7. CASE ZombieEnds(w) \/ Finish(w)
    BY <1>e, <2>7 DEF ZombieEnds, Finish
  <2>8. CASE FinalRecount(w)
    BY <1>e, <1>m, <2>8 DEF FinalRecount, GoTo
  <2>9. CASE CountRows(w)
    BY <1>m, <2>9 DEF CountRows, GoTo
  <2> QED BY <1>2, <2>1, <2>2, <2>3, <2>5, <2>6, <2>7, <2>8, <2>9 DEF RunStep
<1>3. ASSUME NEW w \in Runners, Launch(w) \/ FireByHand(w) PROVE Goal
  BY <1>m, <1>3 DEF Launch, FireByHand, GoTo
<1>4. ASSUME NEW w \in Runners, Beat(w) \/ RequestDrain(w) PROVE Goal
  BY <1>u, <1>4 DEF Beat, RequestDrain
<1>5. ASSUME NEW w \in Runners, Crash(w) PROVE Goal
  BY <1>e, <1>5 DEF Crash
<1>6. CASE ClaimNextPending \/ LaunchFails \/ Elapse \/ Reclaim \/ DeadLetter \/ RetryFailed
  BY <1>u, <1>6 DEF ClaimNextPending, LaunchFails, Elapse, Reclaim, DeadLetter, Sweep,
     RetryFailed
<1>7. CASE UNCHANGED vars
  BY <1>u, <1>7 DEF vars
<1> QED
  BY <1>1, <1>2, <1>3, <1>4, <1>5, <1>6, <1>7 DEF Next

LEMMA FailedByVerdictNext ==
  ASSUME TypeOK, EpochsPast, VerdictKnown, FailedByVerdict, [Next]_vars
  PROVE  FailedByVerdict'
<1> SUFFICES ASSUME NEW v \in Runners, Owns(v)', pc'[v] \notin Unowned,
                    task'.status = "failed"
             PROVE  SomeFailed'
  BY DEF FailedByVerdict, Unowned
<1>t. task.epoch \in Nat /\ own[v] \in Nat /\ own[v] <= task.epoch
  BY DEF TypeOK, Task, EpochsPast
<1>1. task'.epoch = task.epoch
  BY <1>t, EpochStep DEF Owns, Holds
<1>2. ~RetryFailed /\ ~DeadLetter
  <2>1. /\ RetryTask(task).epoch = task.epoch + 1
        /\ DeadLetterStale(task).epoch = task.epoch + 1
    BY OpsEpoch DEF TypeOK
  <2> QED BY <1>t, <1>1, <2>1 DEF RetryFailed, CanRetry, DeadLetter, Sweep
<1>3. CASE task.status = "failed"
  <2>1. pc[v] \notin Unowned /\ own'[v] = own[v]
    BY <1>3, WhoEnters
  <2>2. SomeFailed
    BY <1>1, <1>3, <2>1 DEF FailedByVerdict, Unowned, Owns, Holds
  <2> QED BY <1>2, <2>2, Settled
<1>4. ASSUME NEW w \in Runners, pc[w] = "fail", Owns(w) PROVE SomeFailed'
  <2>1. SomeFailed
    BY <1>4 DEF VerdictKnown
  <2> QED BY <1>2, <2>1, Settled
<1> QED
  BY <1>2, <1>3, <1>4, WhoFails

-----------------------------------------------------------------------------
(* Together: the strengthening is an invariant.                             *)
LEMMA IInvInit == Init => IInv
<1> SUFFICES ASSUME Init PROVE IInv
  OBVIOUS
<1>1. TypeOK
  BY TypeInit
<1>2. row = [r \in Rows |-> NewRow] /\ task.status = "pending"
  BY DEF Init, MarkPending, SetTotalRows, NewTask
<1>3. EpochsPast
  BY DEF Init, MarkPending, SetTotalRows, NewTask, EpochsPast
<1>4. EffectKnown /\ EffectBeforeFlip
  BY <1>2 DEF Init, AllIdle, NewRow, EffectKnown, EffectBeforeFlip
<1>5. AttemptsBudget /\ CompletedMeansAllDone
  <2>1. \A r \in Rows : row[r].status = "pending" /\ row[r].attempts = 0
    BY <1>2 DEF NewRow
  <2>2. 0 < MaxAttempts
    BY RunnerAssumption
  <2>3. AttemptsBudget
    BY <2>1, <2>2 DEF AttemptsBudget
  <2> QED BY <1>2, <2>3 DEF CompletedMeansAllDone
<1>6. VerdictKnown /\ FailedByVerdict
  BY DEF Init, VerdictKnown, FailedByVerdict
<1> QED
  BY <1>1, <1>3, <1>4, <1>5, <1>6 DEF IInv

LEMMA IInvNext == IInv /\ [Next]_vars => IInv'
  BY TypeNext, EpochsPastNext, EffectsNext, BudgetNext, VerdictNext, FailedByVerdictNext
  DEF IInv

THEOREM IInvCorrect == Spec => []IInv
  BY IInvInit, IInvNext, PTL DEF Spec

(* No crash, drain, zombie, peer or replay ever leaves a row `done` whose   *)
(* effect has not reached the store.                                        *)
THEOREM EffectsFirst == Spec => []EffectBeforeFlip
<1>1. IInv => EffectBeforeFlip
  BY DEF IInv
<1> QED
  BY <1>1, IInvCorrect, PTL

(* A completed task has every row done.                                     *)
THEOREM NothingLost == Spec => []CompletedMeansAllDone
<1>1. IInv => CompletedMeansAllDone
  BY DEF IInv
<1> QED
  BY <1>1, IInvCorrect, PTL

(* No row is charged more than ROW_MAX_ATTEMPTS attempts, and none is stuck *)
(* pending with its budget spent.                                           *)
THEOREM AttemptsBounded == Spec => []AttemptsBudget
<1>1. IInv => AttemptsBudget
  BY DEF IInv
<1> QED
  BY <1>1, IInvCorrect, PTL

-----------------------------------------------------------------------------
(* A settled row is settled for good: `done` never changes again, `failed`  *)
(* only through the retry of a failed task, which moves the epoch on.       *)
SettledRows ==
  \A r \in Rows :
    /\ row[r].status = "done" => row'[r] = row[r]
    /\ row[r].status = "failed" /\ row'[r] # row[r] =>
         /\ task.status = "failed" /\ task'.status = "pending"
         /\ task'.epoch > task.epoch

LEMMA SettledRowsStep ==
  ASSUME TypeOK, [Next]_vars
  PROVE  SettledRows
<1>t. task \in Task /\ row \in [Rows -> Row]
  BY DEF TypeOK
<1>1. CASE row' = row
  BY <1>1 DEF SettledRows
<1>2. CASE RetryFailed
  <2>1. task'.status = "pending" /\ task'.epoch = task.epoch + 1
    BY <1>t, <1>2, OpsStatus, OpsEpoch DEF RetryFailed, CanRetry
  <2>2. task'.epoch > task.epoch
    BY <1>t, <2>1 DEF Task
  <2> QED BY <1>2, <2>1, <2>2 DEF RetryFailed, CanRetry, RetryRow, SettledRows
<1>3. ASSUME NEW w \in Runners, NEW r \in Rows, RowMoves(w, r) PROVE SettledRows
  BY <1>3 DEF RowMoves, SettledRows
<1> QED
  BY <1>1, <1>2, <1>3, CalmStep, RowStepMoves DEF Calm

THEOREM SettledStays == Spec => SettledRowsStay
<1>1. TypeOK /\ [Next]_vars => [SettledRows]_vars
  BY SettledRowsStep
<1> QED
  BY <1>1, TypeCorrect, PTL DEF Spec, SettledRowsStay, SettledRows

(* A task fails for a reason that still stands when it fails.               *)
THEOREM FailuresHaveACause == Spec => FailureHasCause
<1> DEFINE Cause == task.status # "failed" /\ task'.status = "failed" =>
                      (\E r \in Rows : row[r].status = "failed") \/ CanDeadLetter(task)
<1>1. IInv /\ [Next]_vars => Cause
  <2> SUFFICES ASSUME IInv, [Next]_vars, task.status # "failed", task'.status = "failed"
               PROVE  SomeFailed \/ CanDeadLetter(task)
    BY DEF SomeFailed
  <2>1. ASSUME NEW w \in Runners, pc[w] = "fail", Owns(w) PROVE SomeFailed
    BY <2>1 DEF IInv, VerdictKnown
  <2>2. DeadLetter => CanDeadLetter(task)
    BY DEF DeadLetter
  <2> QED BY <2>1, <2>2, WhoFails DEF IInv
<1>2. IInv /\ [Next]_vars => [Cause]_vars
  BY <1>1
<1> QED
  BY <1>2, IInvCorrect, PTL DEF Spec, FailureHasCause

-----------------------------------------------------------------------------
(* A fenced-out runner is silent on the task, at whatever step it is.       *)
LEMMA FencedOutStep ==
  ASSUME TypeOK, [Next]_vars, NEW w \in Runners, pc[w] \notin Unowned, ~Owns(w),
         <<pc[w], halt[w], tally[w], stage[w]>>' # <<pc[w], halt[w], tally[w], stage[w]>>
  PROVE  task' = task
<1>t. /\ pc \in [Runners -> PC] /\ halt \in [Runners -> {"no", "drain", "lost"}]
      /\ tally \in [Runners -> Nat] /\ stage \in [Runners -> [Rows -> Stage]]
  BY DEF TypeOK
<1>g. ASSUME NEW v \in Runners, NEW l, GoTo(v, l) PROVE v = w
  BY <1>t, <1>g DEF GoTo
<1>e. ASSUME NEW v \in Runners, Exit(v) PROVE v = w
  BY <1>t, <1>e DEF Exit
<1>u. ASSUME UNCHANGED <<pc, halt, tally, stage>> PROVE FALSE
  BY <1>u
<1>1. ASSUME NEW v \in Runners, RowStep(v) PROVE task' = task
  BY <1>1, RowStepMoves DEF RowMoves
<1>2. ASSUME NEW v \in Runners, RunStep(v) PROVE task' = task
  <2>1. CASE Acquire(v) \/ FetchPage(v) \/ ZombieEnds(v) \/ CountRows(v)
    BY <2>1 DEF Acquire, FetchPage, ZombieEnds, CountRows, store
  <2>2. CASE ClaimPending(v)
    BY <1>t, <1>e, <2>2 DEF ClaimPending, Unowned
  <2>3. CASE BeginRun(v) \/ InitialRecount(v)
    BY <1>g, <2>3 DEF BeginRun, InitialRecount, Fenced
  <2>4. CASE EndPage(v)
    <3>1. CASE v = w
      BY <2>4, <3>1 DEF EndPage
    <3>2. CASE v # w
      BY <1>t, <1>e, <2>4, <3>2 DEF EndPage
    <3> QED BY <3>1, <3>2
  <2>5. CASE FinalRecount(v)
    BY <1>g, <1>e, <2>5 DEF FinalRecount
  <2>6. CASE Finish(v)
    BY <1>e, <2>6 DEF Finish
  <2> QED BY <1>2, <2>1, <2>2, <2>3, <2>4, <2>5, <2>6 DEF RunStep
<1>3. ASSUME NEW v \in Runners, Launch(v) \/ FireByHand(v) \/ RequestDrain(v) \/ Crash(v)
      PROVE task' = task
  BY <1>3 DEF Launch, FireByHand, RequestDrain, Crash, store
<1>4. ASSUME NEW v \in Runners, Beat(v) PROVE task' = task
  BY <1>t, <1>4 DEF Beat, Lose
<1>5. CASE ClaimNextPending \/ LaunchFails \/ Reclaim \/ DeadLetter \/ RetryFailed \/ Elapse
  BY <1>u, <1>5 DEF ClaimNextPending, LaunchFails, Reclaim, DeadLetter, Sweep, RetryFailed,
     Elapse
<1>6. CASE UNCHANGED vars
  BY <1>6 DEF vars
<1> QED
  BY <1>1, <1>2, <1>3, <1>4, <1>5, <1>6 DEF Next

THEOREM Silence == Spec => FencedOutIsSilent
<1> DEFINE Silent1 ==
      \A w \in Runners :
        /\ pc[w] \notin {"off", "boot", "claim"} /\ ~Owns(w)
        /\ <<pc[w], halt[w], tally[w], stage[w]>>' # <<pc[w], halt[w], tally[w], stage[w]>>
        => task' = task
<1>1. TypeOK /\ [Next]_vars => [Silent1]_vars
  BY FencedOutStep DEF Unowned
<1> QED
  BY <1>1, TypeCorrect, PTL DEF Spec, FencedOutIsSilent

-----------------------------------------------------------------------------
(* The runners implement the ledger.                                        *)
LEMMA LedgerStep == IInv /\ [Next]_vars => [L!Next]_(L!vars)
<1> SUFFICES ASSUME IInv, [Next]_vars, ~(UNCHANGED L!vars)
             PROVE  L!Next
  OBVIOUS
<1>t. /\ TypeOK /\ task \in Task /\ row \in [Rows -> Row]
      /\ applied \in [Rows -> BOOLEAN]
  BY DEF IInv, TypeOK
<1>1. CASE RetryFailed
  <2>1. Job(task) = "failed" /\ Job(task') = "open"
    BY <1>t, <1>1, OpsStatus DEF RetryFailed, CanRetry, Job, Terminal
  <2>2. [r \in Rows |-> row[r].status]' =
          [r \in Rows |-> IF [q \in Rows |-> row[q].status][r] = "failed" THEN "pending"
                          ELSE [q \in Rows |-> row[q].status][r]]
    BY <1>1 DEF RetryFailed, CanRetry, RetryRow, NewRow
  <2> QED BY <1>1, <2>1, <2>2 DEF RetryFailed, CanRetry, L!Next, L!Replay
<1>2. ASSUME row' = row, applied' = applied, ~RetryFailed PROVE L!Next
  <2>1. Job(task') # Job(task)
    BY <1>2 DEF L!vars
  <2>2. CASE task'.status = "completed"
    <3>1. PICK w \in Runners : pc[w] = "complete" /\ Owns(w)
      BY <1>t, <2>1, <2>2, WhoCompletes DEF Job, Terminal
    <3>2. AllDone
      BY <3>1 DEF IInv, VerdictKnown
    <3>3. task.status # "failed"
      BY <3>1, <3>2 DEF IInv, FailedByVerdict, SomeFailed, AllDone
    <3>4. Job(task) = "open" /\ Job(task') = "completed"
      BY <2>1, <2>2, <3>3 DEF Job, Terminal
    <3> QED BY <1>2, <3>2, <3>4 DEF AllDone, L!Next, L!Complete
  <2>3. CASE task'.status = "failed"
    <3>1. task.status # "completed"
      <4>1. ASSUME NEW w \in Runners, pc[w] = "fail", Owns(w) PROVE SomeFailed
        BY <4>1 DEF IInv, VerdictKnown
      <4>2. DeadLetter => task.status # "completed"
        BY DEF DeadLetter, CanDeadLetter, Claimed
      <4>3. SomeFailed => task.status # "completed"
        BY DEF IInv, CompletedMeansAllDone, SomeFailed
      <4> QED BY <1>t, <2>3, <4>1, <4>2, <4>3, WhoFails
    <3>2. Job(task) = "open" /\ Job(task') = "failed"
      BY <2>1, <2>3, <3>1 DEF Job, Terminal
    <3> QED BY <1>2, <3>2 DEF L!Next, L!Fail
  <2>4. CASE task'.status \notin {"completed", "failed"}
    <3>1. Job(task') = "open" /\ Job(task) # "open"
      BY <2>1, <2>4 DEF Job, Terminal
    <3> QED BY <1>2, <3>1 DEF L!Next, L!Resume
  <2> QED BY <2>2, <2>3, <2>4
<1>3. ASSUME NEW w \in Runners, NEW r \in Rows, RowMoves(w, r) PROVE L!Next
  <2>j. Job(task') = Job(task)
    BY <1>3 DEF RowMoves
  <2>1. CASE applied' # applied
    <3>1. row' = row /\ applied' = [applied EXCEPT ![r] = TRUE]
      BY <1>3, <2>1 DEF RowMoves
    <3> QED BY <2>j, <3>1 DEF L!Next, L!Apply
  <2>2. CASE applied' = applied /\ row' = row
    BY <2>j, <2>2 DEF L!vars
  <2>3. CASE applied' = applied /\ row' # row
    <3> DEFINE ledger == [q \in Rows |-> row[q].status]
    <3>0. TypeOK' /\ row' \in [Rows -> Row]
      BY <1>t, TypeNext DEF TypeOK
    <3>1. row[r].status = "pending"
      BY <1>t, <1>3, <2>3, <3>0 DEF RowMoves
    <3>2. ledger' = [ledger EXCEPT ![r] = row'[r].status]
      BY <1>3 DEF RowMoves
    <3>3. row'[r].status = "done" => applied[r]
      <4>1. row'[r].status = "done" => stage[w][r] = "flipping"
        BY <1>3, <3>1 DEF RowMoves, RecordRowFailure
      <4> QED BY <4>1 DEF IInv, EffectKnown
    <3>4. row'[r].status # "pending"
      BY <2>j, <2>3, <3>0, <3>1, <3>2 DEF L!vars
    <3>5. row'[r].status \in {"done", "failed"}
      BY <3>0, <3>4 DEF Row, RowStatus
    <3>6. CASE row'[r].status = "done"
      BY <2>3, <2>j, <3>1, <3>2, <3>3, <3>6 DEF L!Next, L!Flip
    <3>7. CASE row'[r].status = "failed"
      BY <2>3, <2>j, <3>1, <3>2, <3>7 DEF L!Next, L!DeadLetterRow
    <3> QED BY <3>5, <3>6, <3>7
  <2> QED BY <2>1, <2>2, <2>3
<1> QED
  BY <1>t, <1>1, <1>2, <1>3, CalmStep, RowStepMoves DEF Calm

LEMMA LedgerInit == Init => L!Init
  BY DEF Init, NewTask, MarkPending, SetTotalRows, NewRow, Job, Terminal, L!Init

THEOREM RunnersImplementLedger == Spec => ImplementsLedger
  BY LedgerInit, LedgerStep, IInvCorrect, PTL DEF Spec, ImplementsLedger, L!Spec
-----------------------------------------------------------------------------
(* What a step does to the task: nothing, a claim, a write of a runner past *)
(* its acquire, a sweep, a replay, or the passing of time.                  *)
RunnerWrites ==
  \E w \in Runners :
    /\ pc[w] \notin Unowned
    /\ \/ task' \in {MarkRunning(task), Heartbeat(task), MarkCompleted(task), MarkFailed(task)}
       \/ \E n \in Nat : task' \in {AdvanceProgress(task, n), RecomputeProgress(task, n)}

TaskMoves ==
  \/ task' = task
  \/ task.status = "pending" /\ task' = Claim(task)
  \/ RunnerWrites
  \/ CanReclaim(task) /\ task' = ReclaimStale(task)
  \/ CanDeadLetter(task) /\ task' = DeadLetterStale(task)
  \/ CanRetry(task) /\ task' = RetryTask(task)
  \/ Claimed(task) /\ task' \in {AgeStarted(task), AgeBeat(task)}

LEMMA TaskStep ==
  ASSUME TypeOK, [Next]_vars PROVE TaskMoves
<1> USE DoneCountNat
<1>t. tally \in [Runners -> Nat]
  BY DEF TypeOK
<1>s. ASSUME task' = task PROVE TaskMoves
  BY <1>s DEF TaskMoves
<1>r. ASSUME RunnerWrites PROVE TaskMoves
  BY <1>r DEF TaskMoves
<1>1. ASSUME NEW w \in Runners, RowStep(w) PROVE TaskMoves
  BY <1>s, <1>1 DEF RowStep, StartRow, ApplyRow, ApplyThrows, FlipReads, FlipWrites,
     FlipThrows, CheckMiss, FailReads, FailWrites, PoolRejects, store
<1>2. ASSUME NEW w \in Runners, RunStep(w) PROVE TaskMoves
  <2>1. CASE Acquire(w) \/ FetchPage(w) \/ ZombieEnds(w) \/ CountRows(w)
    BY <1>s, <2>1 DEF Acquire, FetchPage, ZombieEnds, CountRows, store
  <2>2. CASE ClaimPending(w)
    BY <1>s, <2>2 DEF ClaimPending, TaskMoves
  <2>3. CASE BeginRun(w)
    <3>1. task' = task \/ (pc[w] \notin Unowned /\ task' = MarkRunning(task))
      BY <2>3 DEF BeginRun, Fenced, Unowned
    <3> QED BY <1>s, <1>r, <3>1 DEF RunnerWrites
  <2>4. CASE InitialRecount(w)
    <3>1. task' = task \/ (pc[w] \notin Unowned /\ task' = RecomputeProgress(task, DoneCount))
      BY <2>4 DEF InitialRecount, Fenced, Unowned
    <3> QED BY <1>s, <1>r, <3>1 DEF RunnerWrites
  <2>6. CASE EndPage(w)
    <3>1. task' = task \/ (pc[w] \notin Unowned /\ task' = AdvanceProgress(task, tally[w]))
      BY <2>6 DEF EndPage, Unowned
    <3> QED BY <1>s, <1>r, <1>t, <3>1 DEF RunnerWrites
  <2>8. CASE FinalRecount(w)
    <3>1. task' = task \/ (pc[w] \notin Unowned /\ task' = RecomputeProgress(task, DoneCount))
      BY <2>8 DEF FinalRecount, Unowned
    <3> QED BY <1>s, <1>r, <3>1 DEF RunnerWrites
  <2>10. CASE Finish(w)
    <3>1. task' = task \/ (pc[w] \notin Unowned /\ task' \in {MarkCompleted(task), MarkFailed(task)})
      BY <2>10 DEF Finish, Unowned
    <3> QED BY <1>s, <1>r, <3>1 DEF RunnerWrites
  <2> QED BY <1>2, <2>1, <2>2, <2>3, <2>4, <2>6, <2>8, <2>10 DEF RunStep
<1>3. ASSUME NEW w \in Runners, Launch(w) \/ FireByHand(w) \/ RequestDrain(w) \/ Crash(w)
      PROVE TaskMoves
  BY <1>s, <1>3 DEF Launch, FireByHand, RequestDrain, Crash, store
<1>4. ASSUME NEW w \in Runners, Beat(w) PROVE TaskMoves
  <2>1. task' = task \/ (pc[w] \notin Unowned /\ task' = Heartbeat(task))
    BY <1>4 DEF Beat, Unowned
  <2> QED BY <1>s, <1>r, <2>1 DEF RunnerWrites
<1>5. CASE ClaimNextPending \/ LaunchFails
  BY <1>s, <1>5 DEF ClaimNextPending, LaunchFails, TaskMoves
<1>6. CASE Reclaim \/ DeadLetter \/ RetryFailed \/ Elapse
  BY <1>6 DEF Reclaim, DeadLetter, Sweep, RetryFailed, Elapse, TaskMoves
<1>7. CASE UNCHANGED vars
  BY <1>s, <1>7 DEF vars
<1> QED
  BY <1>1, <1>2, <1>3, <1>4, <1>5, <1>6, <1>7 DEF Next

(* What the statements do to the two instants of a task.                    *)
LEMMA OpsInstants ==
  ASSUME NEW t \in Task, NEW n \in Nat
  PROVE  /\ Claim(t).started = "fresh" /\ Claim(t).beat = t.beat
         /\ \A u \in {MarkRunning(t), Heartbeat(t), AdvanceProgress(t, n),
                      RecomputeProgress(t, n)} : u.started = t.started /\ u.beat = "fresh"
         /\ \A u \in {MarkCompleted(t), MarkFailed(t), DeadLetterStale(t)} :
              u.started = t.started /\ u.beat = t.beat
         /\ \A u \in {ReclaimStale(t), RetryTask(t)} : u.started = t.started /\ u.beat = "none"
         /\ \A u \in {AgeStarted(t), AgeBeat(t)} :
              /\ u.started # "fresh" /\ (u.started = "none" => t.started = "none")
              /\ u.status = t.status
         /\ AgeStarted(t).beat = t.beat
<1>t. /\ t.started \in Instant /\ t.beat \in Instant
      /\ t = [status |-> t.status, weight |-> t.weight, total |-> t.total,
              processed |-> t.processed, epoch |-> t.epoch, restarts |-> t.restarts,
              beat |-> t.beat, started |-> t.started]
  BY DEF Task
<1>1. Claim(t).started = "fresh" /\ Claim(t).beat = t.beat
  BY <1>t DEF Claim
<1>2. \A u \in {MarkRunning(t), Heartbeat(t), AdvanceProgress(t, n), RecomputeProgress(t, n)} :
        u.started = t.started /\ u.beat = "fresh"
  BY DEF Task, MarkRunning, Heartbeat, AdvanceProgress, RecomputeProgress
<1>3. \A u \in {MarkCompleted(t), MarkFailed(t), DeadLetterStale(t)} :
        u.started = t.started /\ u.beat = t.beat
  BY DEF Task, MarkCompleted, MarkFailed, DeadLetterStale
<1>4. \A u \in {ReclaimStale(t), RetryTask(t)} : u.started = t.started /\ u.beat = "none"
  BY DEF Task, ReclaimStale, RetryTask
<1>5. /\ AgeStarted(t) \in Task /\ AgeStarted(t).beat = t.beat
      /\ AgeStarted(t).status = t.status
      /\ AgeStarted(t).started = IF t.started = "fresh" THEN "stale" ELSE t.started
  BY DEF Task, AgeStarted, Instant
<1>6. AgeBeat(t).started = AgeStarted(t).started /\ AgeBeat(t).status = AgeStarted(t).status
  BY <1>5 DEF Task, AgeBeat
<1> QED BY <1>t, <1>1, <1>2, <1>3, <1>4, <1>5, <1>6 DEF Instant

(* A runner gets past its acquire by a claim, its own or one it finds.      *)
LEMMA EntersClaimed ==
  ASSUME TypeOK, [Next]_vars, NEW v \in Runners, pc'[v] \notin Unowned
  PROVE  pc[v] \notin Unowned \/ Claimed(task) \/ task' = Claim(task)
<1> DEFINE Goal == pc[v] \notin Unowned \/ Claimed(task) \/ task' = Claim(task)
<1> USE DEF Unowned
<1>t. pc \in [Runners -> PC]
  BY DEF TypeOK
<1>u. ASSUME UNCHANGED pc PROVE Goal
  BY <1>u
<1>e. ASSUME NEW w \in Runners, Exit(w) PROVE Goal
  BY <1>t, <1>e DEF Exit
<1>m. ASSUME NEW w \in Runners, NEW l, pc' = [pc EXCEPT ![w] = l],
             pc[w] \notin Unowned \/ l \in Unowned
      PROVE Goal
  BY <1>t, <1>m
<1>1. ASSUME NEW w \in Runners, RowStep(w) PROVE Goal
  BY <1>u, <1>t, <1>1 DEF RowStep, StartRow, ApplyRow, ApplyThrows, FlipReads, FlipWrites,
     FlipThrows, CheckMiss, FailReads, FailWrites, PoolRejects
<1>2. ASSUME NEW w \in Runners, RunStep(w) PROVE Goal
  <2>1. CASE Acquire(w)
    BY <1>e, <1>m, <2>1 DEF Acquire, GoTo
  <2>2. CASE ClaimPending(w)
    BY <1>e, <2>2 DEF ClaimPending
  <2>3. CASE BeginRun(w) \/ InitialRecount(w)
    BY <1>e, <1>m, <2>3 DEF BeginRun, InitialRecount, Fenced, GoTo
  <2>5. CASE FetchPage(w)
    BY <1>m, <2>5 DEF FetchPage, GoTo
  <2>6. CASE EndPage(w)
    BY <1>e, <1>m, <2>6 DEF EndPage
  <2>7. CASE ZombieEnds(w) \/ Finish(w)
    BY <1>e, <2>7 DEF ZombieEnds, Finish
  <2>8. CASE FinalRecount(w)
    BY <1>e, <1>m, <2>8 DEF FinalRecount, GoTo
  <2>9. CASE CountRows(w)
    BY <1>m, <2>9 DEF CountRows, GoTo
  <2> QED BY <1>2, <2>1, <2>2, <2>3, <2>5, <2>6, <2>7, <2>8, <2>9 DEF RunStep
<1>3. ASSUME NEW w \in Runners, Launch(w) \/ FireByHand(w) PROVE Goal
  BY <1>m, <1>3 DEF Launch, FireByHand, GoTo
<1>4. ASSUME NEW w \in Runners, Beat(w) \/ RequestDrain(w) PROVE Goal
  BY <1>u, <1>4 DEF Beat, RequestDrain
<1>5. ASSUME NEW w \in Runners, Crash(w) PROVE Goal
  BY <1>e, <1>5 DEF Crash
<1>6. CASE ClaimNextPending \/ LaunchFails \/ Elapse \/ Reclaim \/ DeadLetter \/ RetryFailed
  BY <1>u, <1>6 DEF ClaimNextPending, LaunchFails, Elapse, Reclaim, DeadLetter, Sweep,
     RetryFailed
<1>7. CASE UNCHANGED vars
  BY <1>u, <1>7 DEF vars
<1> QED
  BY <1>1, <1>2, <1>3, <1>4, <1>5, <1>6, <1>7 DEF Next

LEMMA BeatOfClaimNext ==
  ASSUME TypeOK, BeatOfClaim, [Next]_vars
  PROVE  BeatOfClaim'
<1>t. task \in Task /\ task.beat \in Instant /\ task.started \in Instant
  BY DEF TypeOK, Task
<1>z. 0 \in Nat
  OBVIOUS
<1> USE DEF BeatOfClaim, Unowned
<1>m. TaskMoves
  BY TaskStep
<1>p. ASSUME task.started = "none", task' # Claim(task), NEW w \in Runners
      PROVE  pc'[w] \in Unowned
  BY <1>p, EntersClaimed DEF Claimed
<1>1. CASE task' = task
  <2>1. ASSUME task.started = "none", NEW w \in Runners PROVE pc'[w] \in Unowned
    BY <1>1, <1>t, <1>p, <2>1, OpsInstants, <1>z
  <2> QED BY <1>1, <2>1 DEF Claimed
<1>2. CASE task.status = "pending" /\ task' = Claim(task)
  <2>1. task'.started = "fresh" /\ task'.beat = task.beat /\ task'.status = "starting"
    BY <1>2, <1>t, <1>z, OpsInstants, OpsStatus
  <2> QED BY <1>2, <2>1 DEF Claimed
<1>3. CASE RunnerWrites
  <2>1. PICK w \in Runners :
          /\ pc[w] \notin Unowned
          /\ \/ task' \in {MarkRunning(task), Heartbeat(task), MarkCompleted(task), MarkFailed(task)}
             \/ \E n \in Nat : task' \in {AdvanceProgress(task, n), RecomputeProgress(task, n)}
    BY <1>3 DEF RunnerWrites
  <2>2. task.started # "none"
    BY <2>1
  <2>3. CASE task' = MarkRunning(task) \/ task' = Heartbeat(task)
             \/ \E n \in Nat : task' \in {AdvanceProgress(task, n), RecomputeProgress(task, n)}
    <3>1. task'.started = task.started /\ task'.beat = "fresh"
      BY <1>t, <1>z, <2>3, OpsInstants
    <3> QED BY <2>2, <3>1 DEF Claimed
  <2>4. CASE task' = MarkCompleted(task) \/ task' = MarkFailed(task)
    <3>1. task'.started = task.started /\ task'.status \in {"completed", "failed"}
      BY <1>t, <1>z, <2>4, OpsInstants, OpsStatus
    <3> QED BY <2>2, <3>1 DEF Claimed
  <2> QED BY <2>1, <2>3, <2>4
<1>4. CASE \/ CanReclaim(task) /\ task' = ReclaimStale(task)
           \/ CanRetry(task) /\ task' = RetryTask(task)
  <2>1. task'.started = task.started /\ task'.beat = "none" /\ task.status # "pending"
    BY <1>4, <1>t, <1>z, OpsInstants DEF CanReclaim, CanRetry, Claimed
  <2> QED BY <2>1 DEF Claimed
<1>5. CASE CanDeadLetter(task) /\ task' = DeadLetterStale(task)
  <2>1. task'.started = task.started /\ task'.status = "failed" /\ task.status # "pending"
    BY <1>5, <1>t, <1>z, OpsInstants, OpsStatus DEF CanDeadLetter, Claimed
  <2> QED BY <2>1 DEF Claimed
<1>6. CASE Claimed(task) /\ task' \in {AgeStarted(task), AgeBeat(task)}
  <2>1. /\ task.started # "none" /\ task'.started = "stale" /\ task'.status = task.status
    <3>1. task.started # "none" /\ task.started \in Instant
      BY <1>6, <1>t DEF Claimed
    <3>2. task'.started # "fresh" /\ task'.started # "none" /\ task'.status = task.status
      BY <1>6, <1>t, <1>z, <3>1, OpsInstants
    <3>3. task'.started \in Instant
      BY TypeNext DEF TypeOK, Task
    <3> QED BY <3>1, <3>2, <3>3 DEF Instant
  <2> QED BY <1>6, <2>1 DEF Claimed
<1> QED BY <1>m, <1>1, <1>2, <1>3, <1>4, <1>5, <1>6 DEF TaskMoves

(* The last beat of an earlier runner never counts against a claim: only a  *)
(* claim as old as STALE_AFTER_MS is reclaimed or dead-lettered             *)
(* (TaskRepository.reclaimStale, which resets heartbeat_at).                *)
THEOREM FreshClaimsAreSafe == Spec => FreshClaimNotReclaimed
<1> DEFINE Old == Claimed(task) /\ task'.epoch # task.epoch => task.started = "stale"
<1>1. Init => BeatOfClaim
  BY DEF Init, BeatOfClaim, NewTask, MarkPending, SetTotalRows, Claimed
<1>2. TypeOK /\ BeatOfClaim /\ [Next]_vars => BeatOfClaim'
  BY BeatOfClaimNext
<1>3. TypeOK /\ BeatOfClaim /\ [Next]_vars => Old
  <2> SUFFICES ASSUME TypeOK, BeatOfClaim, [Next]_vars, Claimed(task), task'.epoch # task.epoch
               PROVE  task.started = "stale"
    OBVIOUS
  <2>1. task \in Task /\ 0 \in Nat
    BY DEF TypeOK
  <2>2. ~RunnerWrites
    BY <2>1, OpsEpoch DEF RunnerWrites
  <2>3. Silent(task)
    BY <2>1, <2>2, TaskStep, OpsEpoch
    DEF TaskMoves, CanReclaim, CanDeadLetter, CanRetry, Claimed
  <2> QED BY <2>3 DEF Silent, BeatOfClaim
<1>4. BeatOfClaim /\ TypeOK /\ [Next]_vars => [Old]_vars
  BY <1>3
<1> QED
  BY <1>1, <1>2, <1>4, TypeCorrect, PTL DEF Spec, FreshClaimNotReclaimed
-----------------------------------------------------------------------------
(* The progress of a runner that works alone.                               *)
Done == {r \in Rows : row[r].status = "done"}

LEMMA RowsFinite == IsFiniteSet(Rows) /\ Cardinality(Rows) = NRows
<1>1. 1 \in Int /\ NRows \in Int /\ ~(1 > NRows) /\ NRows - 1 + 1 = NRows
  BY RunnerAssumption
<1> QED BY <1>1, FS_Interval DEF Rows

(* A row that is done is counted for good.                                  *)
LEMMA CountGrows ==
  ASSUME TypeOK, [Next]_vars
  PROVE  DoneCount' \in Nat /\ DoneCount <= DoneCount'
<1>1. Done \subseteq Done' /\ Done' \subseteq Rows
  BY SettledRowsStep DEF SettledRows, Done
<1>2. IsFiniteSet(Done')
  BY <1>1, RowsFinite, FS_Subset
<1>3. Cardinality(Done) <= Cardinality(Done') /\ Cardinality(Done') \in Nat
  BY <1>1, <1>2, FS_Subset, FS_CardinalityType
<1> QED BY <1>3 DEF DoneCount, Done

LEMMA CountSteady ==
  ASSUME TypeOK, row' = row \/ RetryFailed
  PROVE  DoneCount' = DoneCount
<1>1. \A r \in Rows : row'[r].status = "done" <=> row[r].status = "done"
  BY DEF RetryFailed, RetryRow, NewRow, TypeOK
<1> QED BY <1>1 DEF DoneCount

LEMMA CountFlip ==
  ASSUME TypeOK, NEW r \in Rows, row[r].status = "pending",
         row' = [row EXCEPT ![r] = MarkRowDone(row[r])]
  PROVE  DoneCount' = DoneCount + 1
<1>1. Done' = Done \cup {r} /\ r \notin Done
  BY DEF Done, MarkRowDone, TypeOK
<1>2. IsFiniteSet(Done)
  BY RowsFinite, FS_Subset DEF Done
<1>3. Cardinality(Done') = Cardinality(Done) + 1
  BY <1>1, <1>2, FS_AddElement
<1> QED BY <1>3 DEF DoneCount, Done

LEMMA CountAll ==
  ASSUME AllDone
  PROVE  DoneCount = NRows
<1>1. {r \in Rows : row[r].status = "done"} = Rows
  BY DEF AllDone
<1> QED BY <1>1, RowsFinite DEF DoneCount

LEMMA OpsProcessed ==
  ASSUME NEW t \in Task, NEW n \in Nat
  PROVE  /\ \A u \in {Claim(t), MarkRunning(t), Heartbeat(t), MarkCompleted(t), MarkFailed(t),
                      AgeStarted(t), AgeBeat(t), ReclaimStale(t), DeadLetterStale(t),
                      RetryTask(t)} : u.processed = t.processed
         /\ AdvanceProgress(t, n).processed = t.processed + n
         /\ RecomputeProgress(t, n).processed = n
<1>1. AgeStarted(t) \in Task /\ AgeStarted(t).processed = t.processed
  BY DEF Task, AgeStarted, Instant
<1>2. AgeBeat(t).processed = t.processed
  BY <1>1 DEF Task, AgeBeat
<1>3. \A u \in {Claim(t), MarkRunning(t), Heartbeat(t), MarkCompleted(t), MarkFailed(t),
                ReclaimStale(t), DeadLetterStale(t), RetryTask(t)} : u.processed = t.processed
  BY DEF Task, Claim, MarkRunning, Heartbeat, MarkCompleted, MarkFailed, ReclaimStale,
     DeadLetterStale, RetryTask
<1>4. /\ AdvanceProgress(t, n).processed = t.processed + n
      /\ RecomputeProgress(t, n).processed = n
  BY DEF Task, AdvanceProgress, RecomputeProgress
<1> QED BY <1>1, <1>2, <1>3, <1>4

(* A row of a page counts in the tally once its flip is in the ledger.      *)
LEMMA TallyFollows ==
  ASSUME TypeOK, NEW w \in Runners, RowStep(w), ProgressKnown(w)
  PROVE  /\ pc[w] \in {"page", "zombie"} /\ pc'[w] \in {"page", "zombie"}
         /\ task' = task
         /\ \/ tally' = tally
            \/ tally'[w] = tally[w] + 1 /\ DoneCount' = DoneCount + 1
<1>t. /\ stage \in [Runners -> [Rows -> Stage]] /\ pc \in [Runners -> PC]
      /\ tally \in [Runners -> Nat]
  BY DEF TypeOK
<1> PICK r \in Rows :
       \/ StartRow(w, r) \/ ApplyRow(w, r) \/ ApplyThrows(w, r)
       \/ FlipReads(w, r) \/ FlipWrites(w, r) \/ FlipThrows(w, r) \/ CheckMiss(w, r)
       \/ FailReads(w, r) \/ FailWrites(w, r) \/ PoolRejects(w, r)
  BY DEF RowStep
<1>1. stage[w][r] # "idle"
  BY DEF StartRow, ApplyRow, ApplyThrows, FlipReads, FlipWrites, FlipThrows, CheckMiss,
     FailReads, FailWrites, PoolRejects
<1>2. pc[w] \in {"page", "zombie"}
  BY <1>1 DEF ProgressKnown, AllIdle
<1>3. task' = task /\ (pc' = pc \/ pc' = [pc EXCEPT ![w] = "zombie"])
  BY DEF StartRow, ApplyRow, ApplyThrows, FlipReads, FlipWrites, FlipThrows, CheckMiss,
     FailReads, FailWrites, PoolRejects, store
<1>4. \/ tally' = tally
      \/ /\ row[r].status = "pending" /\ row' = [row EXCEPT ![r] = MarkRowDone(row[r])]
         /\ tally' = [tally EXCEPT ![w] = tally[w] + 1]
  BY DEF StartRow, ApplyRow, ApplyThrows, FlipReads, FlipWrites, FlipThrows, CheckMiss,
     FailReads, FailWrites, PoolRejects, store
<1> QED BY <1>t, <1>2, <1>3, <1>4, CountFlip

LEMMA AloneStep ==
  ASSUME IInv, [Next]_vars, NEW w, Runners = {w}, ProgressKnown(w)
  PROVE  ProgressKnown(w)'
<1> USE DoneCountNat
<1>t. /\ TypeOK /\ task \in Task /\ task.processed \in Nat /\ tally \in [Runners -> Nat]
      /\ pc \in [Runners -> PC] /\ stage \in [Runners -> [Rows -> Stage]] /\ w \in Runners
      /\ tally[w] \in Nat /\ 0 \in Nat
  BY DEF IInv, TypeOK, Task
<1>g. DoneCount' \in Nat /\ DoneCount <= DoneCount'
  BY <1>t, CountGrows
<1>k. /\ pc[w] \notin {"page", "zombie"} => tally[w] = 0 /\ stage[w] = AllIdle
      /\ task.processed + tally[w] <= DoneCount
      /\ pc[w] \in {"count", "fail", "complete"} => task.processed = DoneCount
      /\ task.status = "completed" => pc[w] \in {"off", "boot"} /\ task.processed = NRows
  BY DEF ProgressKnown
<1>i. AllIdle' = AllIdle
  BY DEF AllIdle
<1>o. task.processed <= DoneCount
  BY <1>t, <1>k
(* The process exits.                                                       *)
<1>e. ASSUME Exit(w), task'.processed \in Nat, task'.processed <= DoneCount',
             task'.status = "completed" => task'.processed = NRows
      PROVE  ProgressKnown(w)'
  <2>1. pc'[w] = "off" /\ tally'[w] = 0 /\ stage'[w] = AllIdle
    BY <1>t, <1>e DEF Exit
  <2> QED BY <1>e, <1>i, <2>1 DEF ProgressKnown
(* The process goes on between two statements, its tally empty.             *)
<1>m. ASSUME NEW l, pc'[w] = l, tally'[w] = 0, stage'[w] = AllIdle,
             task'.processed \in Nat, task'.processed <= DoneCount',
             l \in {"count", "fail", "complete"} => task'.processed = DoneCount',
             task'.status # "completed"
      PROVE  ProgressKnown(w)'
  BY <1>m, <1>i DEF ProgressKnown
(* The runner is not touched, nor its count.                                *)
<1>q. ASSUME UNCHANGED <<pc, tally, stage>>, DoneCount' = DoneCount,
             task'.processed = task.processed,
             task'.status = "completed" => task.status = "completed"
      PROVE  ProgressKnown(w)'
  BY <1>k, <1>q, <1>i DEF ProgressKnown
<1>1. CASE RowStep(w)
  <2>1. /\ pc[w] \in {"page", "zombie"} /\ pc'[w] \in {"page", "zombie"} /\ task' = task
        /\ \/ tally' = tally
           \/ tally'[w] = tally[w] + 1 /\ DoneCount' = DoneCount + 1
    BY <1>t, <1>1, TallyFollows
  <2>2. task'.processed + tally'[w] <= DoneCount'
    <3>1. CASE tally' = tally
      BY <1>t, <1>g, <1>k, <2>1, <3>1
    <3>2. CASE tally'[w] = tally[w] + 1 /\ DoneCount' = DoneCount + 1
      BY <1>t, <1>k, <2>1, <3>2
    <3> QED BY <2>1, <3>1, <3>2
  <2>3. task'.status # "completed"
    BY <1>k, <2>1
  <2> QED BY <2>1, <2>2, <2>3 DEF ProgressKnown
<1>2. CASE RunStep(w)
  <2>d. row' = row
    BY <1>2 DEF RunStep, Acquire, ClaimPending, BeginRun, InitialRecount, Fenced, FetchPage,
       EndPage, ZombieEnds, FinalRecount, CountRows, Finish, store
  <2>c. DoneCount' = DoneCount
    BY <1>t, <2>d, CountSteady
  <2>p. ASSUME Exit(w), task' = task PROVE ProgressKnown(w)'
    BY <1>e, <1>g, <1>k, <1>o, <1>t, <2>c, <2>p
  <2>h. ASSUME NEW l, GoTo(w, l), pc[w] \notin {"page", "zombie"}
        PROVE  pc'[w] = l /\ tally'[w] = 0 /\ stage'[w] = AllIdle
    BY <1>t, <1>k, <2>h DEF GoTo
  <2>1. CASE Acquire(w)
    <3>0. task' = task /\ pc[w] = "boot" /\ tally[w] = 0 /\ stage[w] = AllIdle
      BY <1>k, <2>1 DEF Acquire
    <3>1. CASE Claimed(task)
      <4>1. /\ task.status # "completed" /\ pc'[w] = "begin" /\ tally' = tally
            /\ stage' = stage
        BY <1>t, <2>1, <3>1 DEF Acquire, Claimed
      <4> QED BY <1>m, <1>t, <1>o, <2>c, <3>0, <4>1
    <3>2. CASE ~Claimed(task) /\ task.status = "pending"
      <4>1. GoTo(w, "claim")
        BY <2>1, <3>2 DEF Acquire
      <4> QED BY <1>m, <1>t, <1>o, <2>c, <2>h, <3>0, <3>2, <4>1
    <3>3. CASE ~Claimed(task) /\ task.status # "pending"
      BY <2>1, <2>p, <3>0, <3>3 DEF Acquire
    <3> QED BY <3>1, <3>2, <3>3
  <2>2. CASE ClaimPending(w)
    <3>1. CASE task.status = "pending"
      <4>1. /\ task' = Claim(task) /\ pc'[w] = "begin" /\ tally' = tally /\ stage' = stage
            /\ tally[w] = 0 /\ stage[w] = AllIdle
        BY <1>t, <1>k, <2>2, <3>1 DEF ClaimPending
      <4>2. task'.processed = task.processed /\ task'.status = "starting"
        BY <1>t, <4>1, OpsProcessed, OpsStatus
      <4> QED BY <1>m, <1>t, <1>o, <2>c, <4>1, <4>2
    <3>2. CASE task.status # "pending"
      BY <2>2, <2>p, <3>2 DEF ClaimPending
    <3> QED BY <3>1, <3>2
  <2>3. CASE BeginRun(w)
    <3>1. CASE Owns(w)
      <4>1. task' = MarkRunning(task) /\ GoTo(w, "recount") /\ pc[w] = "begin"
        BY <2>3, <3>1 DEF BeginRun, Fenced
      <4>2. task'.processed = task.processed /\ task'.status = "running"
        BY <1>t, <4>1, OpsProcessed, OpsStatus
      <4> QED BY <1>m, <1>t, <1>o, <2>c, <2>h, <4>1, <4>2
    <3>2. CASE ~Owns(w)
      BY <2>3, <2>p, <3>2 DEF BeginRun, Fenced
    <3> QED BY <3>1, <3>2
  <2>4. CASE InitialRecount(w)
    <3>1. CASE Owns(w)
      <4>1. task' = RecomputeProgress(task, DoneCount) /\ GoTo(w, "loop") /\ pc[w] = "recount"
        BY <2>4, <3>1 DEF InitialRecount, Fenced
      <4>2. task'.processed = DoneCount /\ task'.status # "completed"
        BY <1>t, <1>k, <4>1, OpsProcessed, OpsStatus
      <4> QED BY <1>m, <1>t, <2>c, <2>h, <4>1, <4>2
    <3>2. CASE ~Owns(w)
      BY <2>4, <2>p, <3>2 DEF InitialRecount, Fenced
    <3> QED BY <3>1, <3>2
  <2>5. CASE FetchPage(w)
    <3>0. task' = task /\ pc[w] = "loop" /\ task.status # "completed"
      BY <1>k, <2>5 DEF FetchPage
    <3>1. CASE halt[w] # "no" \/ NextPage = {}
      <4>1. GoTo(w, "final")
        BY <2>5, <3>1 DEF FetchPage
      <4> QED BY <1>m, <1>t, <1>o, <2>c, <2>h, <3>0, <4>1
    <3>2. CASE ~(halt[w] # "no" \/ NextPage = {})
      <4>1. pc'[w] = "page" /\ tally'[w] = 0
        BY <1>t, <2>5, <3>2 DEF FetchPage
      <4>2. task'.processed + tally'[w] <= DoneCount'
        BY <1>t, <1>o, <2>c, <3>0, <4>1
      <4> QED BY <3>0, <4>1, <4>2 DEF ProgressKnown
    <3> QED BY <3>1, <3>2
  <2>6. CASE EndPage(w)
    <3>1. CASE halt[w] = "lost" \/ ~Owns(w)
      BY <2>6, <2>p, <3>1 DEF EndPage
    <3>2. CASE ~(halt[w] = "lost" \/ ~Owns(w))
      <4>1. /\ task' = AdvanceProgress(task, tally[w]) /\ pc[w] = "page"
            /\ pc'[w] = "loop" /\ tally'[w] = 0 /\ stage'[w] = AllIdle
        BY <1>t, <2>6, <3>2 DEF EndPage
      <4>2. task'.processed = task.processed + tally[w] /\ task'.status = task.status
        BY <1>t, <4>1, OpsProcessed, OpsStatus
      <4>3. task'.processed \in Nat /\ task'.processed <= DoneCount' /\ task.status # "completed"
        BY <1>t, <1>k, <2>c, <4>1, <4>2
      <4> QED BY <1>m, <4>1, <4>2, <4>3
    <3> QED BY <3>1, <3>2
  <2>7. CASE ZombieEnds(w)
    BY <2>7, <2>p DEF ZombieEnds, store
  <2>8. CASE FinalRecount(w)
    <3>1. CASE halt[w] = "lost" \/ ~Owns(w)
      BY <2>8, <2>p, <3>1 DEF FinalRecount
    <3>2. CASE ~(halt[w] = "lost" \/ ~Owns(w))
      <4>1. /\ task' = RecomputeProgress(task, DoneCount) /\ pc[w] = "final"
            /\ Exit(w) \/ GoTo(w, "count")
        BY <2>8, <3>2 DEF FinalRecount
      <4>2. task'.processed = DoneCount /\ task'.status # "completed"
        BY <1>t, <1>k, <4>1, OpsProcessed, OpsStatus
      <4>3. CASE Exit(w)
        BY <1>e, <2>c, <4>2, <4>3
      <4>4. CASE GoTo(w, "count")
        BY <1>m, <2>c, <2>h, <4>1, <4>2, <4>4
      <4> QED BY <4>1, <4>3, <4>4
    <3> QED BY <3>1, <3>2
  <2>9. CASE CountRows(w)
    <3>1. /\ task' = task /\ pc[w] = "count"
          /\ GoTo(w, "fail") \/ GoTo(w, "complete")
      BY <2>9 DEF CountRows, store
    <3>2. task'.processed = DoneCount' /\ task'.status # "completed"
      BY <1>k, <2>c, <3>1
    <3> QED BY <1>m, <1>g, <2>h, <3>1, <3>2
  <2>10. CASE Finish(w)
    <3>1. /\ Exit(w) /\ pc[w] \in {"fail", "complete"}
          /\ task' \in {task, MarkFailed(task), MarkCompleted(task)}
      BY <2>10 DEF Finish
    <3>2. task'.processed = task.processed /\ task.processed = DoneCount
      BY <1>t, <1>k, <3>1, OpsProcessed
    <3>3. ASSUME task'.status = "completed" PROVE task'.processed = NRows
      <4>1. task.status # "completed"
        BY <1>k, <3>1
      <4>2. Owns(w) /\ pc[w] = "complete"
        BY <1>t, <2>10, <3>3, <4>1, OpsStatus DEF Finish
      <4>3. AllDone
        BY <1>t, <4>2 DEF IInv, VerdictKnown
      <4> QED BY <3>2, <4>3, CountAll
    <3> QED BY <1>e, <1>g, <2>c, <3>1, <3>2, <3>3
  <2> QED BY <1>2, <2>1, <2>2, <2>3, <2>4, <2>5, <2>6, <2>7, <2>8, <2>9, <2>10 DEF RunStep
<1>3. CASE Launch(w) \/ FireByHand(w)
  <2>1. /\ GoTo(w, "boot") /\ pc[w] = "off" /\ UNCHANGED <<task, row>>
    BY <1>3 DEF Launch, FireByHand
  <2>2. DoneCount' = DoneCount
    BY <1>t, <2>1, CountSteady
  <2>3. pc'[w] = "boot" /\ tally'[w] = 0 /\ stage'[w] = AllIdle
    BY <1>t, <1>k, <2>1 DEF GoTo
  <2>4. task'.processed + tally'[w] <= DoneCount'
    BY <1>t, <1>o, <2>1, <2>2, <2>3
  <2> QED BY <1>i, <1>k, <2>1, <2>3, <2>4 DEF ProgressKnown
<1>4. CASE Beat(w)
  <2>1. /\ UNCHANGED <<row, pc, tally, stage>> /\ task' \in {task, Heartbeat(task)}
    BY <1>4 DEF Beat
  <2>2. task'.processed = task.processed /\ task'.status = task.status
    BY <1>t, <2>1, OpsProcessed, OpsStatus
  <2> QED BY <1>q, <1>t, <2>1, <2>2, CountSteady
<1>5. CASE RequestDrain(w)
  BY <1>q, <1>t, <1>5, CountSteady DEF RequestDrain, store
<1>6. CASE Crash(w)
  <2>1. Exit(w) /\ UNCHANGED <<task, row>>
    BY <1>6 DEF Crash, store
  <2> QED BY <1>e, <1>g, <1>k, <1>o, <1>t, <2>1
<1>7. CASE ClaimNextPending \/ LaunchFails \/ Elapse \/ Reclaim \/ DeadLetter \/ RetryFailed
  <2>1. /\ row' = row \/ RetryFailed
        /\ task' \in {task, Claim(task), AgeStarted(task), AgeBeat(task), ReclaimStale(task),
                      DeadLetterStale(task), RetryTask(task)}
    BY <1>7 DEF ClaimNextPending, LaunchFails, Elapse, Reclaim, DeadLetter, Sweep, RetryFailed
  <2>2. task'.processed = task.processed
    BY <1>t, <2>1, OpsProcessed
  <2>3. task'.status = "completed" => task.status = "completed"
    BY <1>t, <2>1, OpsStatus
  <2>4. DoneCount' = DoneCount
    BY <1>t, <2>1, CountSteady
  <2>5. UNCHANGED <<pc, tally, stage>>
    BY <1>7 DEF ClaimNextPending, LaunchFails, Elapse, Reclaim, DeadLetter, Sweep, RetryFailed
  <2> QED BY <1>q, <2>2, <2>3, <2>4, <2>5
<1>8. CASE UNCHANGED vars
  BY <1>q, <1>t, <1>8, CountSteady DEF vars
<1> QED
  BY <1>t, <1>1, <1>2, <1>3, <1>4, <1>5, <1>6, <1>7, <1>8 DEF Next

(* With one runner at a time, crashes, drains and replays included, the     *)
(* progress a task shows never runs ahead of its ledger, and a completed    *)
(* task shows its total (RunnerService.finalize's recount).                 *)
THEOREM ProgressOfOneRunner ==
  ASSUME NEW w, Runners = {w}
  PROVE  Spec => []ProgressFollowsLedger
<1>1. Init => ProgressKnown(w)
  <2> SUFFICES ASSUME Init PROVE ProgressKnown(w)
    OBVIOUS
  <2>1. /\ pc[w] = "off" /\ tally[w] = 0 /\ stage[w] = AllIdle
        /\ task.processed = 0 /\ task.status = "pending"
    BY DEF Init, MarkPending, SetTotalRows, NewTask
  <2> QED BY <2>1, DoneCountNat DEF ProgressKnown
<1>2. IInv /\ ProgressKnown(w) /\ [Next]_vars => ProgressKnown(w)'
  BY AloneStep
<1>3. IInv /\ ProgressKnown(w) => ProgressFollowsLedger
  <2> SUFFICES ASSUME IInv, ProgressKnown(w) PROVE ProgressFollowsLedger
    OBVIOUS
  <2>1. task.processed \in Nat /\ tally[w] \in Nat
    BY DEF IInv, TypeOK, Task
  <2> QED BY <2>1, DoneCountNat DEF ProgressKnown, ProgressFollowsLedger
<1> QED BY <1>1, <1>2, <1>3, IInvCorrect, PTL DEF Spec
=============================================================================
