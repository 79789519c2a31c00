------------------------------- MODULE Runner -------------------------------
(***************************************************************************)
(* One published task, drained by one-shot runners                         *)
(* (apps/worker/src/runner/services/runner.service.ts and                  *)
(* row-executor.service.ts), claimed and fired by the dispatcher or by     *)
(* hand, reclaimed by the stale sweeper and replayed by the API's retry.   *)
(*                                                                         *)
(* Every action is one SQL statement with the code that runs on its reply, *)
(* up to the next await; the two guarded row updates take two, since the   *)
(* epoch they check is read without a lock (task-row.repository.ts:89-98). *)
(* A runner's rows are worked on concurrently, each at its own `stage`.    *)
(*                                                                         *)
(* A runner that stops for good at any step is Crash; a frozen one simply  *)
(* takes no step.  Both look alike to the sweeper.                         *)
(***************************************************************************)
EXTENDS TaskStore, FiniteSets

CONSTANTS
  Runners,        \* runner process slots: a slot whose process exited is used again
  NRows,          \* total_rows of the published task
  MaxAttempts,    \* ROW_MAX_ATTEMPTS
  BatchSize,      \* RUNNER_BATCH_SIZE
  Concurrency,    \* RUNNER_CONCURRENCY
  HandFired,      \* may an operator fire `bun run runner <id>`, at any time?
  MaxReplays      \* bound: how many times the failed task is retried

ASSUME RunnerAssumption ==
  /\ NRows \in Nat \ {0} /\ MaxAttempts \in Nat \ {0}
  /\ BatchSize \in Nat \ {0} /\ Concurrency \in Nat \ {0}
  /\ HandFired \in BOOLEAN /\ MaxReplays \in Nat

Rows == 1 .. NRows      \* row_index, the order of fetchPendingRows

(* Where run() is: each value but "off" names the statement due next.      *)
PC == {"off", "boot", "claim", "begin", "recount", "loop", "page", "zombie",
       "final", "count", "fail", "complete"}

(* Where a row of the fetched page is.  "flipping" and "failing": the      *)
(* guarded update has read the epoch and has yet to lock the row.  "threw":*)
(* its worker of the pool rejected, and is gone.                           *)
Stage == {"idle", "queued", "apply", "flip", "flipping", "flipMiss",
          "fail", "failing", "failMiss", "threw"}

VARIABLES
  task,      \* the task record
  row,       \* row[r]: its ledger row
  applied,   \* applied[r]: the row's effect has reached the store at least once
  due,       \* the dispatcher holds a claim it has yet to launch
  replays,   \* retries so far (bound)
  pc,        \* pc[w]
  own,       \* own[w]: the epoch captured at acquire
  halt,      \* halt[w]: "no", "drain" (draining), "lost" (lostOwnership, draining)
  tally,     \* tally[w]: rows of the current page counted done
  stage      \* stage[w][r]

store == <<task, row, applied>>
vars  == <<task, row, applied, due, replays, pc, own, halt, tally, stage>>

AllIdle == [r \in Rows |-> "idle"]

DoneCount == Cardinality({r \in Rows : row[r].status = "done"})

Init ==
  /\ task = MarkPending(SetTotalRows(NewTask, NRows), "heavy")
  /\ row     = [r \in Rows |-> NewRow]
  /\ applied = [r \in Rows |-> FALSE]
  /\ due = FALSE /\ replays = 0
  /\ pc    = [w \in Runners |-> "off"]
  /\ own   = [w \in Runners |-> 0]
  /\ halt  = [w \in Runners |-> "no"]
  /\ tally = [w \in Runners |-> 0]
  /\ stage = [w \in Runners |-> AllIdle]

-----------------------------------------------------------------------------
(* The process is gone, with everything it held in memory.                 *)
Exit(w) ==
  /\ pc'    = [pc EXCEPT ![w] = "off"]
  /\ own'   = [own EXCEPT ![w] = 0]
  /\ halt'  = [halt EXCEPT ![w] = "no"]
  /\ tally' = [tally EXCEPT ![w] = 0]
  /\ stage' = [stage EXCEPT ![w] = AllIdle]

GoTo(w, l) == pc' = [pc EXCEPT ![w] = l] /\ UNCHANGED <<own, halt, tally, stage>>

Owns(w) == Holds(task, own[w])

(* standDown *)
Lose(w) == halt' = [halt EXCEPT ![w] = "lost"]

(* The pool's workers: one per row in flight, and one per row that threw.  *)
Busy(w)     == {r \in Rows : stage[w][r] \notin {"idle", "queued"}}
InFlight(w) == {r \in Busy(w) : stage[w][r] # "threw"}

ToStage(w, r, s) == stage' = [stage EXCEPT ![w][r] = s]

-----------------------------------------------------------------------------
(* Claim and launch.                                                       *)

ClaimNextPending ==
  /\ task.status = "pending"
  /\ task' = Claim(task)
  /\ due' = TRUE
  /\ UNCHANGED <<row, applied, replays, pc, own, halt, tally, stage>>

Launch(w) ==
  /\ due /\ pc[w] = "off"
  /\ due' = FALSE
  /\ GoTo(w, "boot")
  /\ UNCHANGED <<task, row, applied, replays>>

(* The spawn failed, or the dispatcher died holding the claim.             *)
LaunchFails ==
  /\ due
  /\ due' = FALSE
  /\ UNCHANGED <<task, row, applied, replays, pc, own, halt, tally, stage>>

FireByHand(w) ==
  /\ HandFired /\ pc[w] = "off"
  /\ GoTo(w, "boot")
  /\ UNCHANGED <<task, row, applied, due, replays>>

-----------------------------------------------------------------------------
(* acquire and beginRun.                                                   *)

(* acquire's getTask and its match on the status.                          *)
Acquire(w) ==
  /\ pc[w] = "boot"
  /\ CASE Claimed(task) ->
            /\ pc'  = [pc EXCEPT ![w] = "begin"]
            /\ own' = [own EXCEPT ![w] = task.epoch]
            /\ UNCHANGED <<halt, tally, stage>>
       [] task.status = "pending" -> GoTo(w, "claim")
       [] OTHER -> Exit(w)
  /\ UNCHANGED <<task, row, applied, due, replays>>

ClaimPending(w) ==
  /\ pc[w] = "claim"
  /\ IF task.status = "pending"
     THEN /\ task' = Claim(task)
          /\ pc'  = [pc EXCEPT ![w] = "begin"]
          /\ own' = [own EXCEPT ![w] = task.epoch]
          /\ UNCHANGED <<halt, tally, stage>>
     ELSE Exit(w) /\ UNCHANGED task
  /\ UNCHANGED <<row, applied, due, replays>>

(* A fenced statement on the task: t becomes the task and the runner goes  *)
(* on at l, or the fence misses and the runner exits (every miss on the    *)
(* task row ends the run).                                                 *)
Fenced(w, t, l) ==
  /\ IF Owns(w) THEN task' = t /\ GoTo(w, l)
                ELSE Exit(w) /\ UNCHANGED task
  /\ UNCHANGED <<row, applied, due, replays>>

(* Mutant: markRunning without the epoch in its condition.                 *)
BeginRunUnfenced(w) ==
  /\ pc[w] = "begin"
  /\ task' = MarkRunning(task) /\ GoTo(w, "recount")
  /\ UNCHANGED <<row, applied, due, replays>>

BeginRun(w) == pc[w] = "begin" /\ Fenced(w, MarkRunning(task), "recount")

InitialRecount(w) ==
  pc[w] = "recount" /\ Fenced(w, RecomputeProgress(task, DoneCount), "loop")

-----------------------------------------------------------------------------
(* drainRows: fetch a page, run it through the pool, checkpoint.           *)

NextPage ==
  LET open == {r \in Rows : Fetchable(row[r], MaxAttempts)}
  IN  {r \in open : Cardinality({s \in open : s < r}) < BatchSize}

FetchPage(w) ==
  /\ pc[w] = "loop"
  /\ IF halt[w] # "no" \/ NextPage = {}
     THEN GoTo(w, "final")
     ELSE /\ pc'    = [pc EXCEPT ![w] = "page"]
          /\ tally' = [tally EXCEPT ![w] = 0]
          /\ stage' = [stage EXCEPT ![w] =
                         [r \in Rows |-> IF r \in NextPage THEN "queued" ELSE "idle"]]
          /\ UNCHANGED <<own, halt>>
  /\ UNCHANGED <<task, row, applied, due, replays>>

(* Mutant: the checkpoint flip comes before the effect.                    *)
StartRowFlipFirst(w, r) ==
  /\ pc[w] = "page" /\ halt[w] = "no"
  /\ stage[w][r] = "queued" /\ InFlight(w) = {}
  /\ ToStage(w, r, "flip")
  /\ UNCHANGED <<store, due, replays, pc, own, halt, tally>>

(* mapPool starts the lowest row left, below the concurrency bound; after  *)
(* a rejection the remaining workers go on without the ones that threw.    *)
StartRow(w, r) ==
  /\ pc[w] \in {"page", "zombie"} /\ halt[w] = "no"
  /\ stage[w][r] = "queued"
  /\ \A s \in Rows : stage[w][s] = "queued" => r <= s
  /\ Cardinality(Busy(w)) < Concurrency
  /\ ToStage(w, r, "apply")
  /\ UNCHANGED <<store, due, replays, pc, own, halt, tally>>

(* processor.apply resolved: the effect is in the store.                   *)
ApplyRow(w, r) ==
  /\ stage[w][r] = "apply"
  /\ applied' = [applied EXCEPT ![r] = TRUE]
  /\ ToStage(w, r, "flip")
  /\ UNCHANGED <<task, row, due, replays, pc, own, halt, tally>>

(* processor.apply threw, having reached the store or not; an abort error  *)
(* while draining skips the row, any other one is recorded.                *)
ApplyThrows(w, r) ==
  /\ stage[w][r] = "apply"
  /\ \E landed \in BOOLEAN :
       applied' = [applied EXCEPT ![r] = @ \/ landed]
  /\ \/ ToStage(w, r, "fail")
     \/ halt[w] # "no" /\ ToStage(w, r, "idle")
  /\ UNCHANGED <<task, row, due, replays, pc, own, halt, tally>>

(* markRowDone, first half: the statement's snapshot.                      *)
FlipReads(w, r) ==
  /\ stage[w][r] = "flip"
  /\ ToStage(w, r, IF Owns(w) /\ row[r].status = "pending" THEN "flipping" ELSE "flipMiss")
  /\ UNCHANGED <<store, due, replays, pc, own, halt, tally>>

(* markRowDone, second half: under the row lock `pending` is checked       *)
(* again, the epoch is not.  The reply of a committed flip may be lost,    *)
(* and then the row counts as a failed one to the runner.                  *)
FlipWrites(w, r) ==
  /\ stage[w][r] = "flipping"
  /\ IF row[r].status = "pending"
     THEN /\ row' = [row EXCEPT ![r] = MarkRowDone(@)]
          /\ \/ /\ ToStage(w, r, "idle")
                /\ tally' = [tally EXCEPT ![w] = @ + 1]
             \/ ToStage(w, r, "fail") /\ UNCHANGED tally
     ELSE /\ ToStage(w, r, "flipMiss")
          /\ UNCHANGED <<row, tally>>
  /\ UNCHANGED <<task, applied, due, replays, pc, own, halt>>

(* ownershipHolds after a missed update (markDoneMissError and the end of  *)
(* settleRowError): a superseded row is skipped, a lost task is left.      *)
CheckMiss(w, r) ==
  /\ stage[w][r] \in {"flipMiss", "failMiss"}
  /\ ToStage(w, r, "idle")
  /\ IF Owns(w) THEN UNCHANGED halt ELSE Lose(w)
  /\ UNCHANGED <<store, due, replays, pc, own, tally>>

(* A database error before the flip, or before its miss is explained, goes *)
(* to settleRowError like the processor's own failure.                     *)
FlipThrows(w, r) ==
  /\ stage[w][r] \in {"flip", "flipping", "flipMiss"}
  /\ ToStage(w, r, "fail")
  /\ UNCHANGED <<store, due, replays, pc, own, halt, tally>>

(* recordRowFailure, in the same two halves as markRowDone.                *)
FailReads(w, r) ==
  /\ stage[w][r] = "fail"
  /\ ToStage(w, r, IF Owns(w) /\ row[r].status = "pending" THEN "failing" ELSE "failMiss")
  /\ UNCHANGED <<store, due, replays, pc, own, halt, tally>>

(* Mutant: the failure is recorded without the `pending` check.            *)
FailWritesUnchecked(w, r) ==
  /\ stage[w][r] = "failing"
  /\ row' = [row EXCEPT ![r] = RecordRowFailure(@, MaxAttempts)]
  /\ ToStage(w, r, "idle")
  /\ UNCHANGED <<task, applied, due, replays, pc, own, halt, tally>>

FailWrites(w, r) ==
  /\ stage[w][r] = "failing"
  /\ IF row[r].status = "pending"
     THEN /\ row' = [row EXCEPT ![r] = RecordRowFailure(@, MaxAttempts)]
          /\ ToStage(w, r, "idle")
     ELSE ToStage(w, r, "failMiss") /\ UNCHANGED row
  /\ UNCHANGED <<task, applied, due, replays, pc, own, halt, tally>>

(* recordRowFailure threw (its reply lost, or nothing written), or its     *)
(* ownership check did: mapPool rejects, run() throws and its heartbeat    *)
(* stops, while the other rows in flight go on.                            *)
PoolRejects(w, r) ==
  /\ pc[w] \in {"page", "zombie"}
  /\ stage[w][r] \in {"fail", "failing", "failMiss"}
  /\ \/ UNCHANGED row
     \/ /\ stage[w][r] = "failing" /\ row[r].status = "pending"
        /\ row' = [row EXCEPT ![r] = RecordRowFailure(@, MaxAttempts)]
  /\ ToStage(w, r, "threw")
  /\ pc' = [pc EXCEPT ![w] = "zombie"]
  /\ UNCHANGED <<task, applied, due, replays, own, halt, tally>>

PageOver(w) ==
  /\ InFlight(w) = {}
  /\ \/ \A r \in Rows : stage[w][r] # "queued"
     \/ halt[w] # "no"
     \/ Cardinality(Busy(w)) = Concurrency         \* every worker threw

(* The page is awaited; its done rows are added to the task's progress.    *)
EndPage(w) ==
  /\ pc[w] = "page" /\ PageOver(w)
  /\ IF halt[w] = "lost" \/ ~Owns(w)
     THEN Exit(w) /\ UNCHANGED task
     ELSE /\ task'  = AdvanceProgress(task, tally[w])
          /\ pc'    = [pc EXCEPT ![w] = "loop"]
          /\ tally' = [tally EXCEPT ![w] = 0]
          /\ stage' = [stage EXCEPT ![w] = AllIdle]
          /\ UNCHANGED <<own, halt>>
  /\ UNCHANGED <<row, applied, due, replays>>

ZombieEnds(w) ==
  /\ pc[w] = "zombie" /\ PageOver(w)
  /\ Exit(w)
  /\ UNCHANGED <<store, due, replays>>

-----------------------------------------------------------------------------
(* finalize.                                                               *)

(* Mutant: a drained runner goes on to the terminal transition.            *)
FinalRecountGoesOn(w) ==
  /\ pc[w] = "final"
  /\ IF halt[w] = "lost" \/ ~Owns(w)
     THEN Exit(w) /\ UNCHANGED task
     ELSE task' = RecomputeProgress(task, DoneCount) /\ GoTo(w, "count")
  /\ UNCHANGED <<row, applied, due, replays>>

(* Mutant: the boundary is a beat, not a recount.                          *)
FinalRecountTrusts(w) ==
  /\ pc[w] = "final"
  /\ IF halt[w] = "lost" \/ ~Owns(w)
     THEN Exit(w) /\ UNCHANGED task
     ELSE /\ task' = Heartbeat(task)
          /\ IF halt[w] = "drain" THEN Exit(w) ELSE GoTo(w, "count")
  /\ UNCHANGED <<row, applied, due, replays>>

FinalRecount(w) ==
  /\ pc[w] = "final"
  /\ IF halt[w] = "lost" \/ ~Owns(w)
     THEN Exit(w) /\ UNCHANGED task
     ELSE /\ task' = RecomputeProgress(task, DoneCount)
          /\ IF halt[w] = "drain" THEN Exit(w) ELSE GoTo(w, "count")
  /\ UNCHANGED <<row, applied, due, replays>>

(* countRows: the verdict depends on the dead-lettered rows alone.         *)
CountRows(w) ==
  /\ pc[w] = "count"
  /\ GoTo(w, IF \E r \in Rows : row[r].status = "failed" THEN "fail" ELSE "complete")
  /\ UNCHANGED <<store, due, replays>>

(* Mutant: the verdict is written whatever the epoch.                      *)
FinishUnfenced(w) ==
  /\ pc[w] \in {"fail", "complete"}
  /\ task' = IF pc[w] = "fail" THEN MarkFailed(task) ELSE MarkCompleted(task)
  /\ Exit(w)
  /\ UNCHANGED <<row, applied, due, replays>>

(* markFailed or markCompleted, and the process exits either way.          *)
Finish(w) ==
  /\ pc[w] \in {"fail", "complete"}
  /\ task' = IF Owns(w)
             THEN IF pc[w] = "fail" THEN MarkFailed(task) ELSE MarkCompleted(task)
             ELSE task
  /\ Exit(w)
  /\ UNCHANGED <<row, applied, due, replays>>

-----------------------------------------------------------------------------
(* The timer, the signals and the process.                                 *)

(* One beat of startHeartbeat's timer.  It runs during drainRows; a beat   *)
(* already sent may land once finalize has begun.                          *)
Beat(w) ==
  /\ pc[w] \in {"loop", "page", "final", "count"}
  /\ IF Owns(w) THEN task' = Heartbeat(task) /\ UNCHANGED halt
                ELSE Lose(w) /\ UNCHANGED task
  /\ UNCHANGED <<row, applied, due, replays, pc, own, tally, stage>>

(* SIGTERM or SIGINT: requestDrain.                                        *)
RequestDrain(w) ==
  /\ pc[w] # "off" /\ halt[w] = "no"
  /\ halt' = [halt EXCEPT ![w] = "drain"]
  /\ UNCHANGED <<store, due, replays, pc, own, tally, stage>>

(* Killed, out of memory, an unhandled database error outside a row, or    *)
(* the drain watchdog's exit(1).                                           *)
Crash(w) ==
  /\ pc[w] # "off"
  /\ Exit(w)
  /\ UNCHANGED <<store, due, replays>>

-----------------------------------------------------------------------------
(* The sweeper, the API and the clock.                                     *)

Sweep(t) ==
  /\ task' = t
  /\ UNCHANGED <<row, applied, due, replays, pc, own, halt, tally, stage>>

Reclaim    == CanReclaim(task) /\ Sweep(ReclaimStale(task))
DeadLetter == CanDeadLetter(task) /\ Sweep(DeadLetterStale(task))

(* POST /tasks/:id/retry, one transaction.                                 *)
RetryFailed ==
  /\ replays < MaxReplays
  /\ CanRetry(task)
  /\ replays' = replays + 1
  /\ task' = RetryTask(task)
  /\ row'  = [r \in Rows |-> RetryRow(row[r])]
  /\ UNCHANGED <<applied, due, pc, own, halt, tally, stage>>

(* STALE_AFTER_MS passes without a new claim, and maybe without a beat (no *)
(* statement reads the two instants of a task that is not claimed).        *)
Elapse ==
  /\ Claimed(task)
  /\ \/ task' = AgeStarted(task)
     \/ task' = AgeBeat(task)
  /\ task' # task
  /\ UNCHANGED <<row, applied, due, replays, pc, own, halt, tally, stage>>

-----------------------------------------------------------------------------
RowStep(w) == \E r \in Rows :
  \/ StartRow(w, r) \/ ApplyRow(w, r) \/ ApplyThrows(w, r)
  \/ FlipReads(w, r) \/ FlipWrites(w, r) \/ FlipThrows(w, r) \/ CheckMiss(w, r)
  \/ FailReads(w, r) \/ FailWrites(w, r) \/ PoolRejects(w, r)

RunStep(w) ==
  \/ Acquire(w) \/ ClaimPending(w) \/ BeginRun(w) \/ InitialRecount(w)
  \/ FetchPage(w) \/ EndPage(w) \/ ZombieEnds(w)
  \/ FinalRecount(w) \/ CountRows(w) \/ Finish(w)

Next ==
  \/ \E w \in Runners :
       \/ Launch(w) \/ FireByHand(w)
       \/ RunStep(w) \/ RowStep(w)
       \/ Beat(w) \/ RequestDrain(w) \/ Crash(w)
  \/ ClaimNextPending \/ LaunchFails
  \/ Reclaim \/ DeadLetter \/ RetryFailed \/ Elapse

Spec == Init /\ [][Next]_vars

(* What the operating system, the timers and the event loop guarantee: a   *)
(* live process is scheduled, the dispatcher and the sweeper keep ticking, *)
(* a claim is launched or dropped, and time passes for a task no process   *)
(* works on.  Nothing is assumed of crashes, signals, operators or beats.  *)
Fairness ==
  /\ \A w \in Runners : WF_vars(RunStep(w)) /\ WF_vars(RowStep(w))
  /\ WF_vars(ClaimNextPending)
  /\ WF_vars(\E w \in Runners : Launch(w))
  /\ WF_vars(Reclaim) /\ WF_vars(DeadLetter)
  /\ WF_vars((\A w \in Runners : pc[w] = "off") /\ Elapse)

FairSpec == Spec /\ Fairness

(* Deploys and nothing else: every process is drained by SIGTERM and ends  *)
(* by itself, every launch and every effect succeeds, and a task only goes *)
(* silent when no process is left.                                         *)
DeployNext ==
  \/ \E w \in Runners :
       \/ Launch(w) \/ RunStep(w) \/ Beat(w) \/ RequestDrain(w)
       \/ \E r \in Rows :
            StartRow(w, r) \/ ApplyRow(w, r) \/ FlipReads(w, r) \/ FlipWrites(w, r)
  \/ ClaimNextPending \/ Reclaim \/ DeadLetter
  \/ ~due /\ (\A w \in Runners : pc[w] = "off") /\ Elapse

DeploySpec == Init /\ [][DeployNext]_vars

-----------------------------------------------------------------------------
(* Properties.                                                             *)

(* Every variable has its type.                                            *)
TypeOK ==
  /\ task \in Task
  /\ row \in [Rows -> Row]
  /\ applied \in [Rows -> BOOLEAN]
  /\ due \in BOOLEAN /\ replays \in 0 .. MaxReplays
  /\ pc \in [Runners -> PC]
  /\ own \in [Runners -> Nat]
  /\ halt \in [Runners -> {"no", "drain", "lost"}]
  /\ tally \in [Runners -> Nat]
  /\ stage \in [Runners -> [Rows -> Stage]]

(* Effect first, flip second (row-executor.service.ts:13-20): whatever     *)
(* crashes, throws or races, a row is never `done` without its effect.     *)
EffectBeforeFlip == \A r \in Rows : row[r].status = "done" => applied[r]

(* finalize looks at the failed rows only (runner.service.ts:257-270), yet *)
(* a task is never `completed` while one of its rows is pending or failed, *)
(* even with peers of the same claim, zombies and replays around.          *)
CompletedMeansAllDone ==
  task.status = "completed" => \A r \in Rows : row[r].status = "done"

(* The attempts budget (recordRowFailure, fetchPendingRows): a pending row *)
(* can always be fetched, a dead-lettered one has used its whole budget,   *)
(* and none is charged more, however many runners race on the row.         *)
AttemptsBudget ==
  \A r \in Rows : CASE row[r].status = "pending" -> row[r].attempts < MaxAttempts
                    [] row[r].status = "failed"  -> row[r].attempts = MaxAttempts
                    [] row[r].status = "done"    -> row[r].attempts \in 1 .. MaxAttempts

(* A settled row stays as it was settled (task-row.repository.ts:131-136): *)
(* `done` for ever, `failed` until the retry that re-opens the task.       *)
SettledRowsStay ==
  [][\A r \in Rows :
       /\ row[r].status = "done" => row'[r] = row[r]
       /\ row[r].status = "failed" /\ row'[r] # row[r] =>
            /\ task.status = "failed" /\ task'.status = "pending"
            /\ task'.epoch > task.epoch]_vars

(* A runner whose task was reclaimed or replayed under it never changes    *)
(* the task again, at whatever await it was when the epoch moved           *)
(* (runner.service.ts:65-72).                                              *)
FencedOutIsSilent ==
  [][\A w \in Runners :
       /\ pc[w] \notin {"off", "boot", "claim"} /\ ~Owns(w)
       /\ <<pc[w], halt[w], tally[w], stage[w]>>' # <<pc[w], halt[w], tally[w], stage[w]>>
       => task' = task]_vars

(* A reclaim never hits a claim younger than STALE_AFTER_MS: the last beat *)
(* of an earlier runner does not count against the one just claimed        *)
(* (task.repository.ts:303-307 and 416-418).                               *)
FreshClaimNotReclaimed ==
  [][Claimed(task) /\ task'.epoch # task.epoch => task.started = "stale"]_vars

(* A task only fails with a dead-lettered row at that very moment, or by   *)
(* the sweeper at the end of the restart budget: a verdict counted before  *)
(* a replay never fails the replayed task.                                 *)
FailureHasCause ==
  [][task.status # "failed" /\ task'.status = "failed" =>
       (\E r \in Rows : row[r].status = "failed") \/ CanDeadLetter(task)]_vars

(* With one runner at a time, the recount at each end of a run keeps       *)
(* processed_rows at or under the ledger's count through any crash, and    *)
(* exact once the task is completed (task.repository.ts:222-228).          *)
ProgressFollowsLedger ==
  /\ task.processed <= DoneCount
  /\ task.status = "completed" => task.processed = NRows

(* task-response.dto.ts:44 of the API: processedRows / totalRows is in     *)
(* [0..1].                                                                 *)
ProgressWithinTotal == task.processed <= task.total

(* runner.service.ts:115-118: a terminal task is refused, so `completed`   *)
(* is never left.                                                          *)
CompletedStays == [][task.status = "completed" => task'.status = "completed"]_vars

(* adr/0004:42-45: every runner write is fenced, so a fenced-out runner    *)
(* burns no attempt of a row.                                              *)
FencedOutBurnsNothing ==
  [][\A w \in Runners, r \in Rows :
       stage[w][r] = "failing" /\ stage'[w][r] # "failing" /\ row'[r] # row[r]
       => Owns(w)]_vars

(* README.md:89-90: killing a runner in a deploy is a non-event, so        *)
(* without any other trouble the task is not failed by it.                 *)
DeployIsNonEvent == task.status = "failed" => \E r \in Rows : row[r].status = "failed"

(* task-row.schema.ts:24-30: a row flips to `done` inside the same         *)
(* transaction that applies its effect.                                    *)
FlipWithEffect ==
  [][\A r \in Rows : ~applied[r] /\ applied'[r] => row'[r].status = "done"]_vars

(* A published task reaches a verdict: crashes, drains, lost rows and      *)
(* failed launches only delay it, within the restart and attempts budgets. *)
PublishedEnds == task.status = "pending" ~> Terminal(task)

-----------------------------------------------------------------------------
(* The strengthening of the invariants above: what a runner at each await  *)
(* may rely on.                                                            *)

NoPending == \A r \in Rows : row[r].status # "pending"
AllDone   == \A r \in Rows : row[r].status = "done"
SomeFailed == \E r \in Rows : row[r].status = "failed"

(* An epoch captured at acquire is never ahead of the task's.              *)
EpochsPast == \A w \in Runners : own[w] <= task.epoch

(* A row about to be flipped has had its effect.                           *)
EffectKnown ==
  \A w \in Runners, r \in Rows : stage[w][r] \in {"flip", "flipping"} => applied[r]

(* A runner that still owns the task and left the page loop by itself saw  *)
(* the last pending row settled, and its verdict still stands.             *)
VerdictKnown ==
  \A w \in Runners : Owns(w) =>
    /\ (pc[w] = "final" /\ halt[w] = "no") \/ pc[w] = "count" => NoPending
    /\ pc[w] = "complete" => AllDone
    /\ pc[w] = "fail" => SomeFailed

(* A task some runner still owns was failed by a runner's verdict, not by  *)
(* the sweeper.                                                            *)
FailedByVerdict ==
  \A w \in Runners :
    Owns(w) /\ pc[w] \notin {"off", "boot", "claim"} /\ task.status = "failed" => SomeFailed

IInv ==
  /\ TypeOK /\ EpochsPast
  /\ EffectKnown /\ EffectBeforeFlip
  /\ AttemptsBudget /\ VerdictKnown /\ CompletedMeansAllDone /\ FailedByVerdict

(* What a silent task shows: a claim waits with no old beat left on it, so *)
(* one that is silent was silent from its start; nobody has begun to run a *)
(* task that was never claimed.                                            *)
BeatOfClaim ==
  /\ task.started = "none" =>
       /\ task.status = "pending"
       /\ \A w \in Runners : pc[w] \in {"off", "boot", "claim"}
  /\ task.status = "pending" => task.beat # "stale"
  /\ Claimed(task) /\ task.beat = "stale" => task.started = "stale"

(* What a runner that works alone knows of the progress it keeps: the rows *)
(* it tallied are done and not counted yet, and none is in flight out of a *)
(* page; after the last recount the ledger stands still.                   *)
ProgressKnown(w) ==
  /\ pc[w] \notin {"page", "zombie"} => tally[w] = 0 /\ stage[w] = AllIdle
  /\ task.processed + tally[w] <= DoneCount
  /\ pc[w] \in {"count", "fail", "complete"} => task.processed = DoneCount
  /\ task.status = "completed" => pc[w] \in {"off", "boot"} /\ task.processed = NRows
=============================================================================
