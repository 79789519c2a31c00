-------------------------- MODULE Endpoints_proofs --------------------------
(***************************************************************************)
(* Theorems about the API: first Ingestion, for bodies, batches and        *)
(* thresholds of any size, then Endpoints, for any number of clients, rows *)
(* and replays.                                                            *)
(***************************************************************************)
EXTENDS Endpoints, TaskStore_proofs

LEMMA WeightType ==
  ASSUME NEW k \in Kinds, NEW n \in Nat
  PROVE  ClassifyWeight(k, n) \in TaskWeight
  BY DEF ClassifyWeight, TaskWeight

LEMMA NewTaskType ==
  /\ NewTask \in Task /\ NewTask.status = "ingesting"
  /\ NewTask.total = 0 /\ NewTask.weight = "heavy"
  BY DEF NewTask, Task, TaskStatus, TaskWeight, Instant

LEMMA InitIInv == Init => IInv
<1> SUFFICES ASSUME Init PROVE IInv
  OBVIOUS
<1> USE DEF Init
<1>1. TypeOK BY NewTaskType DEF TypeOK, PC
<1>2. NothingBefore BY DEF NothingBefore
<1>3. PayloadsKept BY DEF PayloadsKept
<1>4. SizedLast BY NewTaskType DEF SizedLast
<1>5. PublishedSized BY NewTaskType DEF PublishedSized, Open
<1>6. Answered BY DEF Answered
<1> QED BY <1>1, <1>2, <1>3, <1>4, <1>5, <1>6 DEF IInv

(* The steps of the request that leave the task record alone.               *)
LEMMA StreamSteps ==
  ASSUME IInv,
         \/ ReadPayload \/ CreateTask \/ ReadEnd \/ InsertRows \/ TouchTask
         \/ StreamFails \/ Crash \/ BadRequest
  PROVE  IInv'
<1> USE DEF IInv, TypeOK, NothingBefore, PayloadsKept, SizedLast, PublishedSized, Answered, PC
<1>0. Batch \in Nat \ {0}
  BY IngestionAssumption
<1>1. CASE ReadPayload
  BY <1>0, <1>1 DEF ReadPayload, Push
<1>2. CASE CreateTask
  <2> USE <1>0, <1>2 DEF CreateTask, Push
  <2>1. TypeOK' OBVIOUS
  <2>2. NothingBefore' OBVIOUS
  <2>3. PayloadsKept'
    <3>1. stored = 0 /\ count = 0 /\ batch = 0 /\ ~ended
      OBVIOUS
    <3>2. stored' = 0 /\ count' = 1 /\ batch' = 1 /\ ~ended' /\ known'
      BY <3>1
    <3>3. pc' \in {"insert", "read"}
      OBVIOUS
    <3> QED BY <3>2, <3>3
  <2>4. SizedLast' OBVIOUS
  <2>5. PublishedSized' OBVIOUS
  <2> QED BY <2>1, <2>2, <2>3, <2>4, <2>5
<1>3. CASE ReadEnd
  BY <1>3 DEF ReadEnd, Answer
<1>4. CASE InsertRows
  BY <1>4 DEF InsertRows
<1>5. CASE TouchTask
  BY <1>5 DEF TouchTask
<1>6. CASE StreamFails
  <2> USE <1>6 DEF StreamFails, Answer
  <2>1. TypeOK' OBVIOUS
  <2>2. NothingBefore'
    <3>1. CASE known
      <4>1. pc # "create" /\ exists
        BY <3>1
      <4>2. exists' = exists /\ known' = known
        BY <4>1
      <4> QED BY <3>1, <4>1, <4>2
    <3>2. CASE ~known
      <4>1. stored = 0 /\ count = 0 /\ batch = 0 /\ pc \in {"read", "create"}
        BY <3>2
      <4>2. stored' = 0 /\ count' = 0 /\ batch' = 0 /\ task' = task
        BY <4>1
      <4>3. ~exists
        BY <3>2, <4>1
      <4> QED BY <4>2, <4>3, <3>2
    <3> QED BY <3>1, <3>2
  <2>3. PayloadsKept' OBVIOUS
  <2>4. SizedLast' OBVIOUS
  <2>5. PublishedSized' OBVIOUS
  <2> QED BY <2>1, <2>2, <2>3, <2>4, <2>5
<1>7. CASE Crash
  BY <1>7 DEF Crash
<1>8. CASE BadRequest
  BY <1>8 DEF BadRequest, Answer
<1> QED BY <1>1, <1>2, <1>3, <1>4, <1>5, <1>6, <1>7, <1>8

(* The steps of the request that write the task record.                     *)
LEMMA TaskSteps ==
  ASSUME IInv, CatchFails \/ SizeTask \/ Publish \/ PublishFails
  PROVE  IInv'
<1> DEFINE sized == SetTotalRows(task, count)
           open  == MarkPending(task, ClassifyWeight(kind, count))
<1>1. /\ sized \in Task /\ sized.total = count
      /\ sized.status = task.status /\ sized.weight = task.weight
  BY PublishOps DEF IInv, TypeOK, TaskWeight
<1>2. /\ open \in Task /\ open.total = task.total /\ open.status = "pending"
      /\ open.weight = ClassifyWeight(kind, count)
  BY PublishOps, WeightType DEF IInv, TypeOK
<1>3. /\ MarkFailed(task) \in Task /\ MarkFailed(task).status = "failed"
      /\ MarkFailed(task).total = task.total /\ MarkFailed(task).weight = task.weight
  BY TaskOps, StatusOps DEF IInv, TypeOK
<1> HIDE DEF sized, open
<1> USE DEF IInv, TypeOK, NothingBefore, PayloadsKept, SizedLast, PublishedSized, Answered,
            PC, Answer, Open
<1>4. CASE CatchFails
  <2> USE <1>3, <1>4 DEF CatchFails
  <2>1. TypeOK' OBVIOUS
  <2>2. NothingBefore' BY <2>1
  <2>3. PayloadsKept' BY <2>1
  <2>4. SizedLast' OBVIOUS
  <2>5. PublishedSized' OBVIOUS
  <2> QED BY <2>1, <2>2, <2>3, <2>4, <2>5
<1>5. CASE SizeTask
  BY <1>1, <1>5 DEF SizeTask, sized
<1>6. CASE Publish
  BY <1>2, <1>6 DEF Publish, open
<1>7. CASE PublishFails
  <2> USE <1>7 DEF PublishFails
  <2>1. TypeOK' BY <1>1, <1>2 DEF sized, open
  <2>2. NothingBefore' BY <2>1
  <2>3. PayloadsKept' BY <2>1
  <2>4. SizedLast' BY <1>1, <1>2 DEF sized, open
  <2>5. PublishedSized' BY <1>1, <1>2 DEF sized, open
  <2> QED BY <2>1, <2>2, <2>3, <2>4, <2>5
<1> QED BY <1>4, <1>5, <1>6, <1>7

(* The sweeper, the retry, the dispatcher, the run and the clock.           *)
LEMMA OtherSteps ==
  ASSUME IInv,
         \/ FailStaleIngesting \/ RetryFailed \/ ClaimNextPending
         \/ RunEnds \/ RunLost \/ Elapse
  PROVE  IInv'
<1>1. /\ \A u \in {Claim(task), MarkFailed(task), RetryTask(task)} :
           u \in Task /\ u.total = task.total /\ u.weight = task.weight
      /\ Claim(task).status = "starting" /\ MarkFailed(task).status = "failed"
      /\ RetryTask(task).status = "pending"
  BY TaskOps, StatusOps DEF IInv, TypeOK
<1>2. \A u \in {MarkCompleted(MarkRunning(task)), MarkFailed(MarkRunning(task))} :
        /\ u \in Task /\ u.total = task.total /\ u.weight = task.weight
        /\ u.status \in {"completed", "failed"}
  <2>1. MarkRunning(task) \in Task
    BY TaskOps DEF IInv, TypeOK
  <2>2. MarkRunning(task).total = task.total /\ MarkRunning(task).weight = task.weight
    BY StatusOps DEF IInv, TypeOK
  <2>3. /\ MarkCompleted(MarkRunning(task)) \in Task /\ MarkFailed(MarkRunning(task)) \in Task
    BY <2>1, TaskOps
  <2>4. \A u \in {MarkCompleted(MarkRunning(task)), MarkFailed(MarkRunning(task))} :
          u.total = MarkRunning(task).total /\ u.weight = MarkRunning(task).weight
    BY <2>1, StatusOps
  <2>5. /\ MarkCompleted(MarkRunning(task)).status = "completed"
        /\ MarkFailed(MarkRunning(task)).status = "failed"
    BY <2>1, StatusOps
  <2> QED BY <2>2, <2>3, <2>4, <2>5
<1>0. \A u \in {ReclaimStale(task), DeadLetterStale(task)} :
        /\ u \in Task /\ u.total = task.total /\ u.weight = task.weight
        /\ u.status \in {"pending", "failed"}
  <2>1. task \in Task
    BY DEF IInv, TypeOK
  <2>2. ReclaimStale(task) \in Task /\ DeadLetterStale(task) \in Task
    BY <2>1, TaskOps
  <2>3. ReclaimStale(task).status = "pending" /\ DeadLetterStale(task).status = "failed"
    BY <2>1, StatusOps
  <2>4. \A u \in {ReclaimStale(task), DeadLetterStale(task)} :
          u.total = task.total /\ u.weight = task.weight
    BY <2>1, StatusOps
  <2> QED BY <2>2, <2>3, <2>4
<1> USE DEF IInv, TypeOK, NothingBefore, PayloadsKept, SizedLast, PublishedSized, Answered,
            PC, Open, request
<1>3. CASE FailStaleIngesting
  BY <1>1, <1>3 DEF FailStaleIngesting
<1>4. CASE RetryFailed
  BY <1>1, <1>4 DEF RetryFailed, CanRetry
<1>5. CASE ClaimNextPending
  BY <1>1, <1>5 DEF ClaimNextPending
<1>6. CASE RunEnds
  <2>1. task.status \in {"starting", "running"} /\ exists
    BY <1>6, NewTaskType DEF RunEnds, Claimed
  <2> QED BY <1>2, <1>6, <2>1 DEF RunEnds
<1>7. CASE Elapse
  BY <1>7 DEF Elapse
<1>8. CASE RunLost
  <2>1. task.status \in {"starting", "running"} /\ exists
    BY <1>8, NewTaskType DEF RunLost, Claimed
  <2>2. task' \in {ReclaimStale(task), DeadLetterStale(task)}
    BY <1>8 DEF RunLost
  <2>3. /\ task' \in Task /\ task'.total = task.total /\ task'.weight = task.weight
        /\ task'.status \in {"pending", "failed"}
    BY <1>0, <2>2
  <2> QED BY <1>8, <2>1, <2>3 DEF RunLost
<1> QED BY <1>3, <1>4, <1>5, <1>6, <1>7, <1>8

LEMMA NextIInv == IInv /\ [Next]_vars => IInv'
<1> SUFFICES ASSUME IInv, [Next]_vars PROVE IInv'
  OBVIOUS
<1>1. CASE UNCHANGED vars
  BY <1>1 DEF vars, request, IInv, TypeOK, NothingBefore, PayloadsKept, SizedLast,
     PublishedSized, Answered
<1> QED BY <1>1, StreamSteps, TaskSteps, OtherSteps DEF Next, Request

(* The inductive invariant.                                                 *)
THEOREM IngestionInvariant == Spec => []IInv
  BY InitIInv, NextIInv, PTL DEF Spec

(* Nothing but a whole job is ever claimable.                               *)
THEOREM WholeJobsOnly == Spec => []ClaimableIsWhole
<1>1. IInv => ClaimableIsWhole
  BY DEF IInv, TypeOK, PublishedSized, SizedLast, PayloadsKept, ClaimableIsWhole, Open
<1> QED BY <1>1, IngestionInvariant, PTL

(* A refused request never runs.                                            *)
THEOREM RefusedStaysOut == Spec => []RefusedNeverRuns
<1>1. IInv => RefusedNeverRuns
  BY DEF IInv, PublishedSized, SizedLast, RefusedNeverRuns
<1> QED BY <1>1, IngestionInvariant, PTL

(* What runs inline is small.                                               *)
THEOREM SmallInline == Spec => []InlineIsSmall
<1>1. IInv => InlineIsSmall
  BY IngestionAssumption DEF IInv, TypeOK, PublishedSized, SizedLast, InlineIsSmall,
     ClassifyWeight, Kinds
<1> QED BY <1>1, IngestionInvariant, PTL

(* A published task is out of the request's reach.                          *)
THEOREM PublishedOutOfReach == Spec => ApiLeavesPublishedAlone
<1>1. IInv /\ [Next]_vars => [published /\ pc' # pc => task'.status = task.status]_vars
  <2> SUFFICES ASSUME IInv, Next, published, pc' # pc PROVE task'.status = task.status
    BY DEF vars
  <2>1. pc \in {"publish", "off"} /\ task.status # "ingesting"
    BY DEF IInv, SizedLast, PublishedSized
  <2>2. task' = task
    BY <2>1 DEF Next, Request, ReadPayload, CreateTask, ReadEnd, InsertRows, TouchTask,
       StreamFails, CatchFails, SizeTask, Publish, PublishFails, Crash, request,
       FailStaleIngesting, RetryFailed, ClaimNextPending, RunEnds, RunLost, Elapse,
       BadRequest
  <2> QED BY <2>2
<1> QED BY <1>1, IngestionInvariant, PTL DEF Spec, ApiLeavesPublishedAlone

-----------------------------------------------------------------------------
(* The endpoints around the request.                                        *)

(* The steps that no row and no retry is involved in.                       *)
Others == Request \/ Crash \/ FailStaleIngesting \/ Elapse \/ ClaimNextPending \/ RunLost

(* A task that retry would accept is moved by a retry only.                 *)
LEMMA FailedIsLeftAlone ==
  ASSUME IInv, CanRetry(task), exists, Others
  PROVE  task' = task /\ exists' = exists /\ replays' = replays
<1>1. /\ task.status = "failed" /\ pc \in {"publish", "off"}
  BY DEF CanRetry, IInv, SizedLast
<1> QED
  BY <1>1 DEF Others, Request, BadRequest, ReadPayload, CreateTask, ReadEnd, InsertRows,
     TouchTask, StreamFails, CatchFails, SizeTask, Publish, PublishFails, Crash, request,
     FailStaleIngesting, ClaimNextPending, RunLost, Elapse, Claimed

(* The steps of the others keep the retries they know nothing of.           *)
LEMMA OthersReplays ==
  ASSUME Others
  PROVE  replays' = replays
  BY DEF Others, Request, BadRequest, ReadPayload, CreateTask, ReadEnd, InsertRows,
     TouchTask, StreamFails, CatchFails, SizeTask, Publish, PublishFails, Crash, request,
     FailStaleIngesting, ClaimNextPending, RunLost, Elapse

LEMMA RetryReopens ==
  ASSUME NEW t \in Task
  PROVE  ~CanRetry(RetryTask(t)) /\ RetryTask(t).status = "pending"
  BY StatusOps DEF CanRetry

(* Every step is one of Ingestion or leaves its variables alone.            *)
LEMMA StepRefines == HeldByOne /\ [EndpointsNext]_evars => [Next]_vars
<1> SUFFICES ASSUME HeldByOne, [EndpointsNext]_evars PROVE [Next]_vars
  OBVIOUS
<1>1. CASE UNCHANGED evars
  BY <1>1 DEF evars
<1>2. CASE PostStep \/ SweepStep \/ ElapseStep \/ ClaimStep
  BY <1>2 DEF PostStep, SweepStep, ElapseStep, ClaimStep, Next
<1>3. CASE RunStep
  <2>1. Verdict \/ \E r \in 1 .. MaxRows : SettleReads(r) \/ SettleWrites(r)
    BY <1>3 DEF RunStep
  <2>2. CASE Verdict
    <3>1. RunEnds
      BY <2>2 DEF Verdict, RunEnds
    <3> QED BY <3>1 DEF Next
  <2>3. CASE \E r \in 1 .. MaxRows : SettleReads(r) \/ SettleWrites(r)
    <3>1. UNCHANGED vars
      BY <2>3 DEF SettleReads, SettleWrites
    <3> QED BY <3>1
  <2> QED BY <2>1, <2>2, <2>3
<1>4. CASE \E c \in Clients : RetryStep(c)
  <2>1. PICK c \in Clients : RetryStep(c)
    BY <1>4
  <2>2. CASE RetryCommits(c)
    <3>1. RetryFailed
      BY <2>2 DEF RetryCommits, RetryFailed, HeldByOne
    <3> QED BY <3>1 DEF Next
  <2>3. CASE RetrySelect(c) \/ RetryRows(c) \/ RetryRollsBack(c)
    BY <2>3 DEF RetrySelect, RetryRows, RetryRollsBack
  <2> QED BY <2>1, <2>2, <2>3 DEF RetryStep
<1>5. CASE ListStep
  BY <1>5 DEF ListStep, ListFirst, ListLooksUp, ListFetches
<1> QED BY <1>1, <1>2, <1>3, <1>4, <1>5 DEF EndpointsNext

LEMMA EInvInit == EndpointsInit => EInv
<1> SUFFICES ASSUME EndpointsInit PROVE EInv
  OBVIOUS
<1>1. IInv /\ Init
  BY InitIInv DEF EndpointsInit
<1>2. ~CanRetry(task) /\ replays = 0
  BY <1>1, NewTaskType DEF Init, CanRetry
<1>3. NewRow \in Row
  BY DEF NewRow, Row, RowStatus
<1>4. /\ rows \in [1 .. MaxRows -> Row]
      /\ call \in [Clients -> {"idle", "rows", "task"}]
      /\ failures \in Nat
  BY <1>3 DEF EndpointsInit
<1>5. HeldByOne
  BY DEF EndpointsInit, HeldByOne
<1>6. FailuresCounted
  BY <1>2 DEF EndpointsInit, FailuresCounted
<1> QED BY <1>1, <1>4, <1>5, <1>6 DEF EInv

(* The steps that leave the rows and the retries alone.                     *)
LEMMA BesidesKeeps ==
  ASSUME EInv, Others, Besides
  PROVE  /\ rows' \in [1 .. MaxRows -> Row]
         /\ call' \in [Clients -> {"idle", "rows", "task"}]
         /\ failures' \in Nat /\ HeldByOne' /\ FailuresCounted'
<1>1. replays' = replays /\ replays \in Nat
  BY OthersReplays DEF EInv, IInv, TypeOK
<1>2. rows' = rows /\ call' = call
  BY DEF Besides, ledger, retries
<1>3. failures' = failures + IF CanRetry(task') /\ ~CanRetry(task) THEN 1 ELSE 0
  BY DEF Besides, CountFailure
<1>4. failures' \in Nat
  BY <1>3 DEF EInv
<1>5. HeldByOne'
  <2> SUFFICES ASSUME NEW c \in Clients, call'[c] # "idle"
               PROVE  /\ \A d \in Clients : call'[d] # "idle" => c = d
                      /\ exists' /\ CanRetry(task') /\ replays' < MaxReplays
    BY DEF HeldByOne
  <2>1. /\ \A d \in Clients : call[d] # "idle" => c = d
        /\ exists /\ CanRetry(task) /\ replays < MaxReplays
    BY <1>2 DEF EInv, HeldByOne
  <2>2. task' = task /\ exists' = exists
    BY <2>1, FailedIsLeftAlone DEF EInv
  <2> QED BY <2>1, <2>2, <1>1, <1>2
<1>6. FailuresCounted'
  BY <1>1, <1>3 DEF EInv, FailuresCounted
<1> QED BY <1>2, <1>4, <1>5, <1>6 DEF EInv

LEMMA EInvNext == EInv /\ [EndpointsNext]_evars => EInv'
<1> SUFFICES ASSUME EInv, [EndpointsNext]_evars PROVE EInv'
  OBVIOUS
<1>1. IInv'
  BY StepRefines, NextIInv DEF EInv
<1>2. replays \in Nat /\ failures \in Nat /\ task \in Task
  BY DEF EInv, IInv, TypeOK
<1> DEFINE Kept == /\ rows' \in [1 .. MaxRows -> Row]
                   /\ call' \in [Clients -> {"idle", "rows", "task"}]
                   /\ failures' \in Nat /\ HeldByOne' /\ FailuresCounted'
<1>3. CASE UNCHANGED evars
  <2>1. /\ UNCHANGED <<rows, call, failures, exists, task, replays>>
    BY <1>3 DEF evars, vars, request, ledger, retries
  <2> QED BY <2>1, <1>1 DEF EInv, HeldByOne, FailuresCounted
<1>4. CASE PostStep \/ SweepStep \/ ElapseStep \/ ClaimStep
  <2>1. Others /\ Besides
    BY <1>4 DEF PostStep, SweepStep, ElapseStep, ClaimStep, Others
  <2> QED BY <2>1, <1>1, BesidesKeeps DEF EInv
<1>5. CASE RunStep \/ ListStep \/ \E c \in Clients : RetryStep(c)
  <2>1. CountFailure
    BY <1>5 DEF RunStep, ListStep, RetryStep
  <2>2. failures' \in Nat
    BY <2>1, <1>2 DEF CountFailure
  <2>3. CASE Verdict
    <3>1. Claimed(task) /\ UNCHANGED <<exists, replays, rows, call>>
      BY <2>3 DEF Verdict, ledger, retries
    <3>2. ~CanRetry(task)
      BY <3>1 DEF Claimed, CanRetry
    <3>3. \A c \in Clients : call[c] = "idle"
      BY <3>2 DEF EInv, HeldByOne
    <3>4. HeldByOne'
      BY <3>1, <3>3 DEF HeldByOne
    <3>5. FailuresCounted'
      BY <3>1, <3>2, <2>1, <1>2 DEF EInv, FailuresCounted, CountFailure
    <3> QED BY <1>1, <2>2, <3>1, <3>4, <3>5 DEF EInv
  <2>4. CASE \E r \in 1 .. MaxRows : SettleReads(r) \/ SettleWrites(r)
    <3>1. PICK r \in 1 .. MaxRows : SettleReads(r) \/ SettleWrites(r)
      BY <2>4
    <3>2. UNCHANGED <<exists, task, replays, call>>
      BY <3>1 DEF SettleReads, SettleWrites, vars, request, retries
    <3>3. rows' \in [1 .. MaxRows -> Row]
      <4>1. rows[r] \in Row /\ rows \in [1 .. MaxRows -> Row]
        BY DEF EInv
      <4>2. /\ MarkRowDone(rows[r]) \in Row
            /\ RecordRowFailure(rows[r], MaxAttempts) \in Row
        BY <4>1, RowOps, EndpointsAssumption
      <4> QED BY <3>1, <4>1, <4>2 DEF SettleReads, SettleWrites
    <3>4. HeldByOne' /\ FailuresCounted'
      BY <3>2, <2>1, <1>2 DEF EInv, HeldByOne, FailuresCounted, CountFailure
    <3> QED BY <1>1, <2>2, <3>2, <3>3, <3>4 DEF EInv
  <2>5. CASE ListFirst \/ ListLooksUp \/ ListFetches
    <3>1. UNCHANGED <<exists, task, replays, rows, call>>
      BY <2>5 DEF ListFirst, ListLooksUp, ListFetches, vars, request, ledger, retries
    <3>2. HeldByOne' /\ FailuresCounted'
      BY <3>1, <2>1, <1>2 DEF EInv, HeldByOne, FailuresCounted, CountFailure
    <3> QED BY <1>1, <2>2, <3>1, <3>2 DEF EInv
  <2>6. ASSUME NEW c \in Clients, RetryStep(c) PROVE EInv'
    <3>1. CASE RetrySelect(c)
      <4>1. /\ UNCHANGED <<exists, task, replays, rows>>
            /\ \A d \in Clients : call[d] = "idle"
            /\ replays < MaxReplays
            /\ call' = [call EXCEPT ![c] = IF Outcome = "retried" THEN "rows" ELSE @]
        BY <3>1 DEF RetrySelect, TaskLocked, vars, request, ledger
      <4>2. Outcome = "retried" => exists /\ CanRetry(task)
        BY DEF Outcome
      <4>3. /\ call' \in [Clients -> {"idle", "rows", "task"}]
            /\ \A d \in Clients : call'[d] # "idle" => d = c /\ Outcome = "retried"
        BY <4>1 DEF EInv
      <4>4. HeldByOne'
        BY <4>1, <4>2, <4>3 DEF HeldByOne
      <4>5. FailuresCounted'
        BY <4>1, <2>1, <1>2 DEF EInv, FailuresCounted, CountFailure
      <4> QED BY <1>1, <2>2, <4>1, <4>3, <4>4, <4>5 DEF EInv
    <3>2. CASE RetryRows(c)
      <4>1. /\ UNCHANGED <<exists, task, replays, rows>>
            /\ call[c] = "rows" /\ call' = [call EXCEPT ![c] = "task"]
        BY <3>2 DEF RetryRows, vars, request, ledger
      <4>2. /\ call' \in [Clients -> {"idle", "rows", "task"}]
            /\ \A d \in Clients : call'[d] # "idle" => call[d] # "idle"
        BY <4>1 DEF EInv
      <4>3. HeldByOne' /\ FailuresCounted'
        BY <4>1, <4>2, <2>1, <1>2 DEF EInv, HeldByOne, FailuresCounted, CountFailure
      <4> QED BY <1>1, <2>2, <4>1, <4>2, <4>3 DEF EInv
    <3>3. CASE RetryRollsBack(c)
      <4>1. /\ UNCHANGED <<exists, task, replays, rows>>
            /\ call' = [call EXCEPT ![c] = "idle"]
        BY <3>3 DEF RetryRollsBack, CallEnds, vars, request, ledger
      <4>2. /\ call' \in [Clients -> {"idle", "rows", "task"}]
            /\ \A d \in Clients : call'[d] # "idle" => call[d] # "idle"
        BY <4>1 DEF EInv
      <4>3. HeldByOne' /\ FailuresCounted'
        BY <4>1, <4>2, <2>1, <1>2 DEF EInv, HeldByOne, FailuresCounted, CountFailure
      <4> QED BY <1>1, <2>2, <4>1, <4>2, <4>3 DEF EInv
    <3>4. CASE RetryCommits(c)
      <4>1. /\ task' = RetryTask(task) /\ replays' = replays + 1
            /\ call[c] = "task" /\ call' = [call EXCEPT ![c] = "idle"]
        BY <3>4 DEF RetryCommits, CallEnds
      <4>2. CanRetry(task) /\ \A d \in Clients : call[d] # "idle" => c = d
        BY <4>1 DEF EInv, HeldByOne
      <4>3. ~CanRetry(task')
        BY <4>1, <1>2, RetryReopens
      <4>4. /\ call' \in [Clients -> {"idle", "rows", "task"}]
            /\ \A d \in Clients : call'[d] = "idle"
        BY <4>1, <4>2 DEF EInv
      <4>5. HeldByOne'
        BY <4>4 DEF HeldByOne
      <4>6. FailuresCounted'
        BY <4>1, <4>2, <4>3, <2>1, <1>2 DEF EInv, FailuresCounted, CountFailure
      <4>7. rows' \in [1 .. MaxRows -> Row]
        <5>1. /\ rows \in [1 .. MaxRows -> Row]
              /\ rows' = [r \in DOMAIN rows |->
                            IF r \in flipped[c] THEN RetryRow(rows[r]) ELSE rows[r]]
          BY <3>4 DEF RetryCommits, EInv
        <5>2. \A r \in 1 .. MaxRows : RetryRow(rows[r]) \in Row
          BY <5>1, RowOps
        <5> QED BY <5>1, <5>2
      <4> QED BY <1>1, <2>2, <4>4, <4>5, <4>6, <4>7 DEF EInv
    <3> QED BY <2>6, <3>1, <3>2, <3>3, <3>4 DEF RetryStep
  <2> QED BY <1>5, <2>3, <2>4, <2>5, <2>6 DEF RunStep, ListStep
<1> QED BY <1>3, <1>4, <1>5 DEF EndpointsNext

(* The endpoints, statement by statement, keep what Ingestion promises:     *)
(* with this, its theorems hold of them.                                    *)
THEOREM EndpointsImplementIngestion == EndpointsSpec => ImplementsIngestion
<1>1. EndpointsInit => Init
  BY DEF EndpointsInit
<1>2. EInv => HeldByOne
  BY DEF EInv
<1> QED
  BY <1>1, <1>2, EInvInit, EInvNext, StepRefines, PTL
     DEF EndpointsSpec, ImplementsIngestion, Spec

(* What the invariant of the retries says at all times.                     *)
THEOREM EndpointsInvariant == EndpointsSpec => []EInv
  BY EInvInit, EInvNext, PTL DEF EndpointsSpec

(* No step stores a payload that was not counted, nor counts one too many.  *)
LEMMA BoundedNext == IInv /\ Bounded /\ [Next]_vars => Bounded'
<1> SUFFICES ASSUME IInv, Bounded, [Next]_vars PROVE Bounded'
  OBVIOUS
<1>1. /\ stored \in Nat /\ count \in Nat /\ batch \in Nat /\ MaxRows \in Nat
      /\ MaxRows >= 1
  BY IngestionAssumption, EndpointsAssumption DEF IInv, TypeOK
<1>2. CASE ReadPayload
  BY <1>1, <1>2 DEF ReadPayload, MorePayloads, Push, Bounded
<1>3. CASE CreateTask
  <2>1. count = 0
    BY <1>3 DEF CreateTask, IInv, PayloadsKept, NothingBefore
  <2> QED BY <1>1, <1>3, <2>1 DEF CreateTask, Push, Bounded
<1>4. CASE InsertRows \/ StreamFails
  <2>1. count' = count /\ (stored' = stored \/ (pc = "insert" /\ stored' = stored + batch))
    BY <1>4 DEF InsertRows, StreamFails
  <2>2. pc = "insert" => stored + batch = count
    BY DEF IInv, PayloadsKept
  <2> QED BY <1>1, <2>1, <2>2 DEF Bounded
<1>5. CASE UNCHANGED <<stored, count>>
  BY <1>5 DEF Bounded
<1>6. CASE \/ BadRequest \/ ReadEnd \/ TouchTask \/ CatchFails \/ SizeTask \/ Publish
           \/ PublishFails \/ Crash \/ FailStaleIngesting \/ RetryFailed
           \/ ClaimNextPending \/ RunEnds \/ RunLost \/ Elapse \/ UNCHANGED vars
  <2>1. UNCHANGED <<stored, count>>
    BY <1>6 DEF BadRequest, ReadEnd, TouchTask, CatchFails, SizeTask, Publish, PublishFails,
       Crash, FailStaleIngesting, RetryFailed, ClaimNextPending, RunEnds, RunLost, Elapse,
       vars, request
  <2> QED BY <2>1, <1>5
<1> QED BY <1>2, <1>3, <1>4, <1>6 DEF Next, Request

(* What the rows of the ledger are, those of a page and of a call included. *)
LEMMA StoredRows ==
  ASSUME IInv, Bounded
  PROVE  Stored \subseteq 1 .. MaxRows /\ Failed \subseteq 1 .. MaxRows
  BY IngestionAssumption DEF IInv, TypeOK, Bounded, Stored, Failed

LEMMA TypesNext ==
  EInv /\ EndpointsTypeOK /\ Bounded /\ EInv' /\ [EndpointsNext]_evars => EndpointsTypeOK'
<1> SUFFICES ASSUME EInv, EndpointsTypeOK, Bounded, EInv', [EndpointsNext]_evars
             PROVE  EndpointsTypeOK'
  OBVIOUS
<1> DEFINE Rest == /\ late' \subseteq 1 .. MaxRows
                   /\ flipped' \in [Clients -> SUBSET (1 .. MaxRows)]
                   /\ walk' \in {"idle", "lookup", "fetch", "over"} /\ offset' \in Nat
                   /\ owed' \subseteq 1 .. MaxRows
<1>1. /\ late \subseteq 1 .. MaxRows
      /\ flipped \in [Clients -> SUBSET (1 .. MaxRows)]
      /\ walk \in {"idle", "lookup", "fetch", "over"} /\ offset \in Nat
      /\ owed \subseteq 1 .. MaxRows
  BY DEF EndpointsTypeOK
<1>2. Stored \subseteq 1 .. MaxRows /\ Failed \subseteq 1 .. MaxRows
  BY StoredRows DEF EInv
<1>3. ASSUME UNCHANGED <<late, flipped, walk, offset, owed>> PROVE Rest
  BY <1>1, <1>3
<1>4. ASSUME PostStep \/ SweepStep \/ ElapseStep \/ ClaimStep \/ UNCHANGED evars PROVE Rest
  BY <1>3, <1>4 DEF PostStep, SweepStep, ElapseStep, ClaimStep, Besides, ledger, retries,
     listing, evars
<1>5. ASSUME RunStep PROVE Rest
  <2>1. UNCHANGED <<flipped, walk, offset, owed>> /\ late' \subseteq 1 .. MaxRows
    BY <1>1, <1>2, <1>5 DEF RunStep, Verdict, SettleReads, SettleWrites, ledger, retries, listing
  <2> QED BY <1>1, <2>1
<1>6. ASSUME NEW c \in Clients, RetryStep(c) PROVE Rest
  <2>1. UNCHANGED <<late, walk, offset>> /\ owed' \subseteq 1 .. MaxRows
    BY <1>1, <1>6 DEF RetryStep, RetrySelect, RetryRows, RetryCommits, RetryRollsBack,
       ledger, listing
  <2>2. flipped' \in {flipped, [flipped EXCEPT ![c] = Failed], [flipped EXCEPT ![c] = {}]}
    BY <1>6 DEF RetryStep, RetrySelect, RetryRows, RetryCommits, RetryRollsBack, CallEnds
  <2>3. flipped' \in [Clients -> SUBSET (1 .. MaxRows)]
    BY <1>1, <1>2, <2>2
  <2> QED BY <1>1, <2>1, <2>3
<1>7. ASSUME ListStep PROVE Rest
  <2>1. UNCHANGED <<late, flipped>>
    BY <1>7 DEF ListStep, ListFirst, ListLooksUp, ListFetches, ledger, retries
  <2>2. Limit \in Nat
    BY EndpointsAssumption
  <2>3. /\ walk' \in {"idle", "lookup", "fetch", "over"} /\ offset' \in Nat
        /\ owed' \subseteq 1 .. MaxRows
    <3>1. CASE ListFirst
      BY <1>2, <3>1 DEF ListFirst
    <3>2. CASE ListLooksUp
      BY <1>1, <3>2 DEF ListLooksUp
    <3>3. CASE ListFetches
      <4>1. \/ walk' = "over" /\ offset' = 0
            \/ walk' = "lookup" /\ offset' = offset + Limit
        BY <3>3 DEF ListFetches
      <4>2. owed' \subseteq owed
        BY <3>3 DEF ListFetches
      <4> QED BY <1>1, <2>2, <4>1, <4>2
    <3> QED BY <1>7, <3>1, <3>2, <3>3 DEF ListStep
  <2> QED BY <1>1, <2>1, <2>3
<1>8. Rest
  BY <1>3, <1>4, <1>5, <1>6, <1>7 DEF EndpointsNext
<1> QED BY <1>8 DEF EndpointsTypeOK, EInv, IInv

LEMMA TypesInit == EndpointsInit => EndpointsTypeOK /\ Bounded
<1> SUFFICES ASSUME EndpointsInit PROVE EndpointsTypeOK /\ Bounded
  OBVIOUS
<1>1. EInv
  BY EInvInit
<1>2. Bounded
  BY IngestionAssumption DEF EndpointsInit, Init, Bounded
<1>3. /\ late \subseteq 1 .. MaxRows /\ offset \in Nat /\ owed \subseteq 1 .. MaxRows
      /\ flipped \in [Clients -> SUBSET (1 .. MaxRows)] /\ walk = "idle"
  BY DEF EndpointsInit
<1> QED BY <1>1, <1>2, <1>3 DEF EndpointsTypeOK, EInv, IInv

(* Every variable of the composition has its type: a page, a call and a     *)
(* settlement under way only ever hold rows of the ledger.                  *)
THEOREM EndpointsTypes == EndpointsSpec => []EndpointsTypeOK
<1>1. EndpointsInit => EndpointsTypeOK /\ Bounded
  BY TypesInit
<1>2. EInv /\ EndpointsTypeOK /\ Bounded /\ [EndpointsNext]_evars => EndpointsTypeOK' /\ Bounded'
  BY EInvNext, TypesNext, BoundedNext, StepRefines DEF EInv
<1> QED BY <1>1, <1>2, EInvInit, EInvNext, PTL DEF EndpointsSpec

(* However many clients ask, a failure is replayed once.                    *)
THEOREM ReplaysAreSerial == EndpointsSpec => []OneReplayPerFailure
<1>1. EInv => OneReplayPerFailure
  BY DEF EInv, IInv, TypeOK, FailuresCounted, OneReplayPerFailure
<1> QED BY <1>1, EndpointsInvariant, PTL

(* Rows and task of a replay turn at once.                                  *)
THEOREM ReplaysAreWhole == EndpointsSpec => HalfReplayNeverSeen
<1> DEFINE Whole == \A r \in 1 .. MaxRows :
                      rows[r].status = "failed" /\ rows'[r].status # "failed" =>
                        task.status = "failed" /\ task'.status = "pending"
<1>1. EInv /\ [EndpointsNext]_evars => [Whole]_evars
  <2> SUFFICES ASSUME EInv, EndpointsNext, NEW r \in 1 .. MaxRows,
                      rows[r].status = "failed", rows'[r].status # "failed"
               PROVE  task.status = "failed" /\ task'.status = "pending"
    OBVIOUS
  <2>1. rows' # rows
    OBVIOUS
  <2>2. ~(PostStep \/ SweepStep \/ ElapseStep \/ ClaimStep \/ ListStep)
    BY <2>1 DEF PostStep, SweepStep, ElapseStep, ClaimStep, Besides, ledger, ListStep,
       ListFirst, ListLooksUp, ListFetches
  <2>3. ~RunStep
    <3> SUFFICES ASSUME RunStep PROVE FALSE
      OBVIOUS
    <3>1. PICK q \in 1 .. MaxRows : SettleWrites(q)
      BY <2>1 DEF RunStep, Verdict, SettleReads, ledger
    <3>2. rows[q].status = "pending" /\ \A p \in 1 .. MaxRows \ {q} : rows'[p] = rows[p]
      BY <2>1, <3>1 DEF SettleWrites, EInv
    <3> QED BY <3>2
  <2>4. PICK c \in Clients : RetryStep(c)
    BY <2>2, <2>3 DEF EndpointsNext
  <2>5. RetryCommits(c)
    BY <2>1, <2>4 DEF RetryStep, RetrySelect, RetryRows, RetryRollsBack, ledger
  <2>6. call[c] # "idle" /\ task' = RetryTask(task)
    BY <2>5 DEF RetryCommits
  <2>7. CanRetry(task) /\ task \in Task
    BY <2>6 DEF EInv, HeldByOne, IInv, TypeOK
  <2> QED BY <2>6, <2>7, RetryReopens DEF CanRetry
<1> QED BY <1>1, EndpointsInvariant, PTL DEF EndpointsSpec, HalfReplayNeverSeen

(* The rounding of the progress, for every number of digits.                *)
LEMMA RoundingBound ==
  ASSUME NEW s \in Nat, NEW t \in Nat, NEW p \in 0 .. t,
         0 < t, t < 2 * s, 2 * s * t <= 2 * p * s + t
  PROVE  p = t
<1> SUFFICES ASSUME p # t PROVE FALSE
  OBVIOUS
<1>1. PICK k \in Nat : t = p + 1 + k
  <2>1. t - p - 1 \in Nat
    OBVIOUS
  <2> QED BY <2>1
<1>2. s * t = s * p + s + s * k
  BY <1>1
<1>3. s * k \in Nat /\ s * p \in Nat
  OBVIOUS
<1>4. 2 * s * t = 2 * (s * t) /\ 2 * p * s = 2 * (s * p)
  OBVIOUS
<1> QED BY <1>2, <1>3, <1>4

(* A progress of 1 is all the rows, up to 2 * Scale of them.                *)
THEOREM ProgressOneIsAll == EndpointsSpec => []FullMeansAll
<1>1. EInv => FullMeansAll
  <2> SUFFICES ASSUME EInv, 0 < task.total, task.total < 2 * Scale,
                      NEW p \in 0 .. task.total, Scale \in Progress(p, task.total)
               PROVE  p = task.total
    BY DEF FullMeansAll
  <2>1. task.total \in Nat /\ Scale \in Nat
    BY EndpointsAssumption DEF EInv, IInv, TypeOK, Task
  <2>2. 2 * Scale * task.total <= 2 * p * Scale + task.total
    BY <2>1 DEF Progress
  <2> QED BY <2>1, <2>2, RoundingBound
<1> QED BY <1>1, EndpointsInvariant, PTL
-----------------------------------------------------------------------------
(* Paging through the dead letters.                                         *)

(* A row at or after the next page has a full page before it: the rows      *)
(* before the least such row are offset + Limit, of which no more than      *)
(* offset come before the page.                                             *)
LEMMA PageFull ==
  ASSUME NEW F \in SUBSET Nat, IsFiniteSet(F), offset \in Nat, NEW q \in F,
         offset + Limit <= Cardinality({x \in F : x < q})
  PROVE  Limit <= Cardinality(PageOf(F))
<1> DEFINE Below(y) == {x \in F : x < y}
           Late == {y \in F : offset + Limit <= Cardinality(Below(y))}
<1>f. \A y : IsFiniteSet(Below(y)) /\ Cardinality(Below(y)) \in Nat
  <2> TAKE y
  <2>1. Below(y) \in SUBSET F
    OBVIOUS
  <2> QED BY <2>1, FS_Subset, FS_CardinalityType
<1>l. Limit \in Nat
  BY EndpointsAssumption
<1>1. PICK m \in Late : \A y \in Late : m <= y
  <2>1. Late \in SUBSET Nat /\ q \in Late
    OBVIOUS
  <2> HIDE DEF Late
  <2> QED BY <2>1, Least
<1> DEFINE B == Below(m)
           A == {x \in B : Cardinality(Below(x)) < offset}
<1>2. offset + Limit <= Cardinality(B) /\ m \in F
  BY <1>1
<1>3. \A x \in B : Cardinality(Below(x)) < offset + Limit
  <2> SUFFICES ASSUME NEW x \in B, ~(Cardinality(Below(x)) < offset + Limit) PROVE FALSE
    OBVIOUS
  <2>1. x \in F /\ x < m /\ x \in Nat /\ m \in Nat
    BY <1>2
  <2>2. offset + Limit <= Cardinality(Below(x))
    BY <1>f, <1>l
  <2>3. x \in Late
    BY <2>1, <2>2
  <2> QED BY <1>1, <2>1, <2>3
<1>4. IsFiniteSet(A) /\ Cardinality(A) <= offset
  <2>1. IsFiniteSet(A) /\ A \in SUBSET Nat
    <3>1. A \in SUBSET B
      OBVIOUS
    <3> QED BY <1>f, <3>1, FS_Subset
  <2>2. CASE A = {}
    <3> HIDE DEF A
    <3> QED BY <2>2, FS_EmptySet
  <2>3. CASE A # {}
    <3>1. m \in Nat /\ \A x \in A : x <= m
      BY <1>2
    <3> HIDE DEF A
    <3>2. PICK z \in A : \A x \in A : x <= z
      BY <2>1, <2>3, <3>1, Greatest
    <3> USE DEF A
    <3>3. A \in SUBSET (Below(z) \cup {z})
      BY <2>1, <3>2
    <3>4. z \notin Below(z) /\ Cardinality(Below(z)) < offset
      BY <2>1, <3>2
    <3> HIDE DEF A, Below
    <3>5. /\ IsFiniteSet(Below(z) \cup {z})
          /\ Cardinality(Below(z) \cup {z}) = Cardinality(Below(z)) + 1
      BY <1>f, <3>4, FS_AddElement
    <3>6. Cardinality(A) <= Cardinality(Below(z) \cup {z})
      BY <3>3, <3>5, FS_Subset
    <3>7. Cardinality(A) \in Nat /\ Cardinality(Below(z)) \in Nat
      BY <1>f, <2>1, FS_CardinalityType
    <3> QED BY <2>1, <3>4, <3>5, <3>6, <3>7
  <2> QED BY <2>2, <2>3
<1>5. B \ A \subseteq PageOf(F)
  <2> SUFFICES ASSUME NEW x \in B \ A PROVE x \in PageOf(F)
    OBVIOUS
  <2>1. x \in F /\ offset <= Cardinality(Below(x))
    BY <1>f
  <2> QED BY <1>3, <2>1 DEF PageOf
<1>6. Limit <= Cardinality(B \ A)
  <2>1. B \cap A = A
    OBVIOUS
  <2>2. IsFiniteSet(B) /\ Cardinality(B) \in Nat
    BY <1>f
  <2>3. Cardinality(A) \in Nat
    BY <1>4, FS_CardinalityType
  <2> HIDE DEF A, B
  <2>4. Cardinality(B \ A) = Cardinality(B) - Cardinality(A)
    BY <2>1, <2>2, FS_Difference
  <2> QED BY <1>2, <1>4, <1>l, <2>2, <2>3, <2>4
<1>7. IsFiniteSet(PageOf(F))
  <2>1. PageOf(F) \in SUBSET F
    BY DEF PageOf
  <2> QED BY <2>1, FS_Subset
<1>8. Cardinality(B \ A) <= Cardinality(PageOf(F)) /\ Cardinality(PageOf(F)) \in Nat
  BY <1>5, <1>7, FS_Subset, FS_CardinalityType
<1>9. Cardinality(B \ A) \in Nat
  BY <1>5, <1>7, FS_Subset, FS_CardinalityType
<1> QED BY <1>6, <1>8, <1>9, <1>l

LEMMA FailedFinite ==
  ASSUME stored \in Nat PROVE Failed \in SUBSET Nat /\ IsFiniteSet(Failed)
<1>1. Failed \in SUBSET Stored /\ Stored \in SUBSET Nat /\ IsFiniteSet(Stored)
  BY FS_Interval DEF Failed, Stored
<1> QED BY <1>1, FS_Subset

LEMMA FailedFiniteNext ==
  ASSUME stored' \in Nat PROVE Failed' \in SUBSET Nat /\ IsFiniteSet(Failed')
<1>1. Failed' \in SUBSET Stored'
  BY DEF Failed
<1>2. Stored' \in SUBSET Nat /\ IsFiniteSet(Stored')
  BY FS_Interval DEF Stored
<1> QED BY <1>1, <1>2, FS_Subset

(* Rows only leave the list in a replay.                                    *)
LEMMA FailedGrows ==
  ASSUME EInv, Bounded, [EndpointsNext]_evars
  PROVE  (\E c \in Clients : RetryCommits(c)) \/ Failed \subseteq Failed'
<1> SUFFICES ASSUME ~\E c \in Clients : RetryCommits(c) PROVE Failed \subseteq Failed'
  OBVIOUS
<1>1. stored \in Nat /\ stored' \in Nat /\ stored <= stored' /\ batch \in Nat
  <2>1. [Next]_vars /\ IInv
    BY StepRefines DEF EInv
  <2>2. stored \in Nat /\ batch \in Nat /\ stored' \in Nat
    BY <2>1, NextIInv DEF IInv, TypeOK
  <2>3. stored' = stored \/ stored' = stored + batch
    BY <2>1 DEF Next, Request, BadRequest, ReadPayload, CreateTask, ReadEnd, InsertRows,
       TouchTask, StreamFails, CatchFails, SizeTask, Publish, PublishFails, Crash,
       FailStaleIngesting, RetryFailed, ClaimNextPending, RunEnds, RunLost, Elapse, vars
  <2> QED BY <2>2, <2>3
<1>2. Stored \subseteq Stored' /\ Stored \subseteq 1 .. MaxRows
  <2>1. Stored \subseteq Stored'
    BY <1>1 DEF Stored
  <2> QED BY <2>1, StoredRows DEF EInv
<1>3. \A r \in 1 .. MaxRows : rows[r].status = "failed" => rows'[r] = rows[r]
  <2>1. CASE rows' = rows
    BY <2>1
  <2>2. ASSUME NEW q \in 1 .. MaxRows, SettleWrites(q)
        PROVE  \A r \in 1 .. MaxRows : rows[r].status = "failed" => rows'[r] = rows[r]
    <3>1. rows \in [1 .. MaxRows -> Row]
      BY DEF EInv
    <3> QED BY <2>2, <3>1 DEF SettleWrites
  <2>3. ASSUME NEW c \in Clients, RetryStep(c) PROVE rows' = rows
    BY <2>3 DEF RetryStep, RetrySelect, RetryRows, RetryRollsBack, ledger
  <2> QED
    BY <2>1, <2>2, <2>3 DEF EndpointsNext, PostStep, SweepStep, ElapseStep, ClaimStep, Besides,
       ledger, RunStep, Verdict, SettleReads, ListStep, ListFirst, ListLooksUp, ListFetches, evars
<1> QED BY <1>2, <1>3 DEF Failed

(* More rows in the list put none of them back.                             *)
LEMMA RankGrows ==
  ASSUME NEW F, NEW G \in SUBSET Nat, IsFiniteSet(G), F \subseteq G, NEW q
  PROVE  Cardinality({x \in F : x < q}) <= Cardinality({x \in G : x < q})
<1>1. /\ {x \in F : x < q} \in SUBSET {x \in G : x < q}
      /\ {x \in G : x < q} \in SUBSET G
  OBVIOUS
<1> QED BY <1>1, FS_Subset

LEMMA OwedNext ==
  ASSUME EInv, Bounded, EndpointsTypeOK, OwedAhead, EInv', [EndpointsNext]_evars
  PROVE  OwedAhead'
<1>t. offset \in Nat /\ Limit \in Nat /\ IInv /\ IInv'
  BY EndpointsAssumption DEF EndpointsTypeOK, EInv
<1>f. /\ Failed \in SUBSET Nat /\ IsFiniteSet(Failed)
      /\ Failed' \in SUBSET Nat /\ IsFiniteSet(Failed')
  BY <1>t, FailedFinite, FailedFiniteNext DEF IInv, TypeOK
<1>c. \A q : Before(q) \in Nat /\ Before(q)' \in Nat
  <2> TAKE q
  <2>1. /\ {x \in Failed : x < q} \in SUBSET Failed
        /\ {x \in Failed' : x < q} \in SUBSET Failed'
    OBVIOUS
  <2> QED BY <1>f, <2>1, FS_Subset, FS_CardinalityType DEF Before
<1>1. ASSUME NEW c \in Clients, RetryCommits(c) PROVE OwedAhead'
  BY <1>1 DEF RetryCommits, OwedAhead
<1>2. CASE ~\E c \in Clients : RetryCommits(c)
  <2>1. Failed \subseteq Failed'
    BY <1>2, FailedGrows
  <2>2. \A q : Before(q) <= Before(q)'
    BY <1>f, <2>1, RankGrows DEF Before
  <2>3. ASSUME UNCHANGED listing PROVE OwedAhead'
    BY <1>t, <1>c, <2>1, <2>2, <2>3 DEF listing, OwedAhead
  <2>4. CASE ListFirst
    <3>1. walk' = "lookup" /\ offset' = 0 /\ owed' = Failed
      BY <2>4 DEF ListFirst
    <3> QED BY <1>c, <2>1, <3>1 DEF OwedAhead
  <2>5. CASE ListLooksUp
    <3>1. walk = "lookup" /\ walk' \in {"fetch", "idle"} /\ offset' = offset /\ owed' = owed
      BY <2>5 DEF ListLooksUp
    <3> QED BY <1>t, <1>c, <2>1, <2>2, <3>1 DEF OwedAhead
  <2>6. CASE ListFetches
    <3>1. walk = "fetch" /\ owed' = owed \ PageOf(Failed)
      BY <2>6 DEF ListFetches, FetchFailedRows
    <3>2. /\ owed \subseteq Failed
          /\ \A q \in owed : offset <= Before(q)
      BY <3>1 DEF OwedAhead
    <3>3. \A q \in owed' : offset + Limit <= Before(q)
      <4> SUFFICES ASSUME NEW q \in owed',
                          ~(offset + Limit <= Before(q))
                   PROVE  FALSE
        OBVIOUS
      <4>1. q \in Failed /\ q \notin PageOf(Failed)
        BY <3>1, <3>2
      <4>2. offset <= Before(q)
        BY <3>1, <3>2
      <4>3. Before(q) < offset + Limit
        BY <1>t, <1>c
      <4> QED BY <4>1, <4>2, <4>3 DEF PageOf, Before
    <3>4. CASE Cardinality(PageOf(Failed)) < Limit
      <4>1. walk' = "over"
        BY <2>6, <3>4 DEF ListFetches, FetchFailedRows
      <4>2. owed' = {}
        <5> SUFFICES ASSUME NEW q \in owed' PROVE FALSE
          OBVIOUS
        <5>1. q \in Failed
          BY <3>1, <3>2
        <5>2. Limit <= Cardinality(PageOf(Failed))
          BY <1>t, <1>f, <3>3, <5>1, PageFull DEF Before
        <5>3. Cardinality(PageOf(Failed)) \in Nat
          <6>1. PageOf(Failed) \in SUBSET Failed
            BY DEF PageOf
          <6> QED BY <1>f, <6>1, FS_Subset, FS_CardinalityType
        <5> QED BY <1>t, <3>4, <5>2, <5>3
      <4> QED BY <4>1, <4>2 DEF OwedAhead
    <3>5. CASE ~(Cardinality(PageOf(Failed)) < Limit)
      <4>1. walk' = "lookup" /\ offset' = offset + Limit
        BY <2>6, <3>5 DEF ListFetches, FetchFailedRows
      <4>2. \A q \in owed' : offset' <= Before(q)'
        BY <1>t, <1>c, <2>2, <3>3, <4>1
      <4> QED BY <2>1, <3>1, <3>2, <4>1, <4>2 DEF OwedAhead
    <3> QED BY <3>4, <3>5
  <2>7. UNCHANGED listing \/ ListFirst \/ ListLooksUp \/ ListFetches
    BY <1>2 DEF EndpointsNext, PostStep, SweepStep, ElapseStep, ClaimStep, Besides, RunStep,
       Verdict, SettleReads, SettleWrites, RetryStep, RetrySelect, RetryRows, RetryRollsBack,
       ListStep, evars
  <2> QED BY <2>3, <2>4, <2>5, <2>6, <2>7
<1> QED BY <1>1, <1>2

(* A caller that pages to the end has been given every row that was dead-   *)
(* lettered from its first page on, whatever fails under it                 *)
(* (TaskRowRepository.fetchFailedRows, ordered by row_index).               *)
THEOREM NoDeadLetterSkipped == EndpointsSpec => []WalkSkipsNothing
<1>1. EndpointsInit => OwedAhead /\ EndpointsTypeOK /\ Bounded
  <2>1. EndpointsInit => OwedAhead
    BY DEF EndpointsInit, OwedAhead
  <2> QED BY <2>1, TypesInit
<1>2. EInv /\ EndpointsTypeOK /\ Bounded /\ OwedAhead /\ EInv' /\ [EndpointsNext]_evars
        => EndpointsTypeOK' /\ Bounded' /\ OwedAhead'
  BY TypesNext, BoundedNext, StepRefines, OwedNext DEF EInv
<1>3. OwedAhead => WalkSkipsNothing
  BY DEF OwedAhead, WalkSkipsNothing
<1> QED BY <1>1, <1>2, <1>3, EInvInit, EInvNext, PTL DEF EndpointsSpec

(* What the request promises alone it keeps with its rows settled, listed   *)
(* and replayed around it, several clients asking for the replay at once:   *)
(* only whole jobs are claimable, a refused one never runs, what runs       *)
(* inline is small, and a published task is out of the request's reach.     *)
THEOREM RequestKeepsItsPromises ==
  EndpointsSpec => /\ []ClaimableIsWhole /\ []RefusedNeverRuns /\ []InlineIsSmall
                   /\ ApiLeavesPublishedAlone
  BY EndpointsImplementIngestion, WholeJobsOnly, RefusedStaysOut, SmallInline,
     PublishedOutOfReach, PTL DEF ImplementsIngestion
=============================================================================
