------------------------------ MODULE TaskStore ------------------------------
(***************************************************************************)
(* The statements of TaskRepository and TaskRowRepository                  *)
(* (packages/tasks/src/repositories), as operators on one `task` record    *)
(* and one `task_row` record.  The modules that hold tasks and rows as     *)
(* state (Runner, Ingestion, Dispatch) build their actions from these, so  *)
(* that each SQL statement is written once.                                *)
(*                                                                         *)
(* Time is abstracted to what staleCutoff can tell apart: a timestamp is   *)
(* "none" (null), "fresh" (younger than STALE_AFTER_MS) or "stale".  Every *)
(* write of now() makes it "fresh"; Aged makes it "stale".  The columns    *)
(* no condition ever reads (runner_pid, error, finished_at, applied_at)    *)
(* are left out; updated_at is read by failStaleIngesting alone and is     *)
(* kept by the module that models it.                                      *)
(***************************************************************************)
EXTENDS Integers

CONSTANT MaxRestarts        \* TASK_MAX_RESTARTS: the sweeper's restart budget

ASSUME MaxRestartsAssumption == MaxRestarts \in Nat

TaskStatus == {"ingesting", "pending", "starting", "running", "completed", "failed"}
TaskWeight == {"light", "heavy"}
RowStatus  == {"pending", "done", "failed"}
Instant    == {"none", "fresh", "stale"}

Task == [status    : TaskStatus,
         weight    : TaskWeight,
         total     : Nat,      \* total_rows, set at publish
         processed : Nat,      \* processed_rows, the advisory progress
         epoch     : Nat,      \* the fencing token
         restarts  : Nat,
         beat      : Instant,  \* heartbeat_at
         started   : Instant]  \* started_at

Row == [status : RowStatus, attempts : Nat]

(* createTask: the column defaults.                                        *)
NewTask == [status |-> "ingesting", weight |-> "heavy", total |-> 0, processed |-> 0,
            epoch |-> 0, restarts |-> 0, beat |-> "none", started |-> "none"]

NewRow == [status |-> "pending", attempts |-> 0]

-----------------------------------------------------------------------------
(* Conditions of the statements.                                           *)

Claimed(t)  == t.status \in {"starting", "running"}
Terminal(t) == t.status \in {"completed", "failed"}

(* The epoch fence every runner write carries.                             *)
Holds(t, epoch) == t.epoch = epoch

(* coalesce(heartbeat_at, started_at) < now() - STALE_AFTER.  A null       *)
(* coalesce compares to null, hence never silent.                          *)
Silent(t) == IF t.beat = "none" THEN t.started = "stale" ELSE t.beat = "stale"

(* Mutant: a task at the end of its budget is neither reclaimed nor failed. *)
CanDeadLetterLate(t) == Claimed(t) /\ Silent(t) /\ t.restarts > MaxRestarts

CanReclaim(t)    == Claimed(t) /\ Silent(t) /\ t.restarts < MaxRestarts
CanDeadLetter(t) == Claimed(t) /\ Silent(t) /\ t.restarts >= MaxRestarts

(* Mutant: retryFailed without the never_published outcome.                *)
CanRetryAny(t) == t.status = "failed"

(* retryFailed replays a failed task that was published once.              *)
CanRetry(t) == t.status = "failed" /\ t.total > 0

(* fetchPendingRows' condition on a row.                                   *)
Fetchable(r, maxAttempts) == r.status = "pending" /\ r.attempts < maxAttempts

-----------------------------------------------------------------------------
(* Effects of the statements on the task.                                  *)

(* Mutant: the dead runner's last beat is left behind.                     *)
ReclaimKeepsBeat(t) == [t EXCEPT !.status = "pending",
                                 !.restarts = t.restarts + 1, !.epoch = t.epoch + 1]

SetTotalRows(t, n)     == [t EXCEPT !.total = n]
MarkPending(t, w)      == [t EXCEPT !.status = "pending", !.weight = w]   \* if ingesting
Claim(t)               == [t EXCEPT !.status = "starting", !.started = "fresh"]
MarkRunning(t)         == [t EXCEPT !.status = "running", !.beat = "fresh"]
Heartbeat(t)           == [t EXCEPT !.beat = "fresh"]
AdvanceProgress(t, n)  == [t EXCEPT !.processed = t.processed + n, !.beat = "fresh"]
RecomputeProgress(t,n) == [t EXCEPT !.processed = n, !.beat = "fresh"]
MarkCompleted(t)       == [t EXCEPT !.status = "completed"]
MarkFailed(t)          == [t EXCEPT !.status = "failed"]

ReclaimStale(t) == [t EXCEPT !.status = "pending", !.beat = "none",
                             !.restarts = t.restarts + 1, !.epoch = t.epoch + 1]

DeadLetterStale(t) == [t EXCEPT !.status = "failed", !.epoch = t.epoch + 1]

RetryTask(t) == [t EXCEPT !.status = "pending", !.beat = "none",
                          !.restarts = 0, !.epoch = t.epoch + 1]

(* STALE_AFTER_MS goes by.  started_at ages first; the last beat, which is *)
(* never older than the claim it belongs to, may age with it or be younger.*)
AgeStarted(t) == [t EXCEPT !.started = IF t.started = "fresh" THEN "stale" ELSE t.started]
AgeBeat(t)    == [AgeStarted(t) EXCEPT !.beat = IF t.beat = "fresh" THEN "stale" ELSE t.beat]

-----------------------------------------------------------------------------
(* Effects of the statements on a row.                                     *)

MarkRowDone(r) == [status |-> "done", attempts |-> r.attempts + 1]

(* Mutant: one failure too many before the dead letter.                    *)
RecordRowFailureLate(r, maxAttempts) ==
  [status   |-> IF r.attempts + 1 > maxAttempts THEN "failed" ELSE "pending",
   attempts |-> r.attempts + 1]

RecordRowFailure(r, maxAttempts) ==
  [status   |-> IF r.attempts + 1 >= maxAttempts THEN "failed" ELSE "pending",
   attempts |-> r.attempts + 1]

(* Mutant: the replay re-pends every row, not the dead-lettered ones only.  *)
RetryEveryRow(r) == NewRow

RetryRow(r) == IF r.status = "failed" THEN NewRow ELSE r
=============================================================================
