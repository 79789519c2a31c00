----------------------------- MODULE Endpoints ------------------------------
(***************************************************************************)
(* TasksController (apps/api/src/controllers/tasks.controller.ts) around   *)
(* one task: the POST that stores it is module Ingestion, whose actions    *)
(* are steps here; this module adds the rows of the task and the endpoints *)
(* that work on them later: POST /tasks/:id/retry, whose transaction is    *)
(* taken apart statement by statement, and GET /tasks/:id/dead-letters,    *)
(* called page after page, with runs settling rows beside both.            *)
(*                                                                         *)
(* A run is reduced to its settlements, each with a moment between the     *)
(* look at the row and its write (the fence is an unlocked read), and its  *)
(* verdict; module Runner has the rest.  An id that is no uuid or a query  *)
(* outside its schema is refused before any statement and left out.        *)
(***************************************************************************)
EXTENDS Ingestion, FiniteSets

CONSTANTS
  Clients,        \* callers of retry, each with at most one call under way
  Limit,          \* ?limit of the caller that pages through the dead letters
  MaxAttempts,    \* ROW_MAX_ATTEMPTS
  Scale           \* 10^4, the digits of toFixed(4) in the progress

ASSUME EndpointsAssumption ==
  /\ Limit \in 1 .. 1000 /\ MaxRows >= 1
  /\ MaxAttempts \in Nat \ {0} /\ Scale \in Nat \ {0}

VARIABLES
  rows,        \* rows[r]: the rows by row_index; those up to `stored` are there
  late,        \* rows that a settlement under way saw pending
  call,        \* call[c]: "idle", or the statement its transaction is at
  flipped,     \* flipped[c]: the rows it has re-pended, not yet committed
  walk,        \* the paging caller: "idle", "lookup", "fetch" or "over"
  offset,      \* ?offset of its next page
  owed,        \* history: failed since the walk began and not listed yet
  failures     \* history: how often the task became one that retry accepts

ledger   == <<rows, late>>
retries  == <<call, flipped>>
listing  == <<walk, offset, owed>>
evars    == <<vars, ledger, retries, listing, failures>>

Stored == 1 .. stored
Failed == {r \in Stored : rows[r].status = "failed"}

EndpointsInit ==
  /\ Init
  /\ rows = [r \in 1 .. MaxRows |-> NewRow] /\ late = {}
  /\ call = [c \in Clients |-> "idle"] /\ flipped = [c \in Clients |-> {}]
  /\ walk = "idle" /\ offset = 0 /\ owed = {}
  /\ failures = 0

-----------------------------------------------------------------------------
(* Runs.                                                                   *)

(* A settlement passes its guards: the epoch holds, the row is pending.    *)
SettleReads(r) ==
  /\ Claimed(task) /\ r \in Stored \ late /\ rows[r].status = "pending"
  /\ late' = late \cup {r}
  /\ UNCHANGED <<vars, rows, retries, listing>>

(* It writes, maybe long after: markRowDone or recordRowFailure, which     *)
(* miss a row that is not pending any more.                                *)
SettleWrites(r) ==
  /\ r \in late
  /\ late' = late \ {r}
  /\ IF rows[r].status = "pending"
     THEN \E x \in {MarkRowDone(rows[r]), RecordRowFailure(rows[r], MaxAttempts)} :
            rows' = [rows EXCEPT ![r] = x]
     ELSE UNCHANGED rows
  /\ UNCHANGED <<vars, retries, listing>>

(* The run whose last page came back empty gives its verdict, RunEnds.     *)
Verdict ==
  /\ Claimed(task) /\ \A r \in Stored : rows[r].status # "pending"
  /\ task' = IF Failed = {} THEN MarkCompleted(MarkRunning(task))
                            ELSE MarkFailed(MarkRunning(task))
  /\ touched' = "fresh"
  /\ UNCHANGED <<exists, stored, request, published, replays, ledger, retries, listing>>

-----------------------------------------------------------------------------
(* POST /tasks/:id/retry.                                                  *)

(* FOR UPDATE: one transaction at a time past its first statement.  The    *)
(* other statements on the task never wait for it: their conditions ask    *)
(* for a status other than `failed`, which is what they read meanwhile.    *)
TaskLocked == \E c \in Clients : call[c] # "idle"

(* Mutant: a job that was never sized is replayed.                         *)
OutcomeUnsized ==
  CASE ~exists -> "not_found" [] exists /\ task.status = "failed" -> "retried"
    [] OTHER   -> "not_failed"

(* What retryFailed makes of the task it read.                             *)
Outcome ==
  CASE ~exists                   -> "not_found"        \* 404
    [] exists /\ CanRetry(task)  -> "retried"          \* 201
    [] exists /\ task.status # "failed" -> "not_failed" \* 409
    [] OTHER                     -> "never_published"  \* 400

(* Mutant: the task is read without FOR UPDATE.                            *)
RetrySelectUnlocked(c) ==
  /\ call[c] = "idle" /\ replays < MaxReplays
  /\ call' = [call EXCEPT ![c] = IF Outcome = "retried" THEN "rows" ELSE @]
  /\ UNCHANGED <<vars, ledger, flipped, listing>>

(* The first statement; any outcome but one ends the call there.           *)
RetrySelect(c) ==
  /\ call[c] = "idle" /\ replays < MaxReplays
  /\ ~TaskLocked
  /\ call' = [call EXCEPT ![c] = IF Outcome = "retried" THEN "rows" ELSE @]
  /\ UNCHANGED <<vars, ledger, flipped, listing>>

(* Mutant: no transaction, the rows are committed on their own.            *)
RetryRowsAlone(c) ==
  /\ call[c] = "rows"
  /\ call' = [call EXCEPT ![c] = "task"]
  /\ flipped' = [flipped EXCEPT ![c] = Failed]
  /\ rows' = [r \in DOMAIN rows |-> RetryRow(rows[r])]
  /\ UNCHANGED <<vars, late, listing>>

(* The second: the rows it finds failed, for its own eyes until it commits.*)
RetryRows(c) ==
  /\ call[c] = "rows"
  /\ call' = [call EXCEPT ![c] = "task"]
  /\ flipped' = [flipped EXCEPT ![c] = Failed]
  /\ UNCHANGED <<vars, ledger, listing>>

CallEnds(c) ==
  /\ call' = [call EXCEPT ![c] = "idle"]
  /\ flipped' = [flipped EXCEPT ![c] = {}]

(* The third, and the commit: rows and task turn at once.  The paging      *)
(* caller is owed nothing of what left the list.                           *)
RetryCommits(c) ==
  /\ call[c] = "task"
  /\ task' = RetryTask(task) /\ touched' = "fresh"
  /\ published' = TRUE /\ replays' = replays + 1
  /\ rows' = [r \in DOMAIN rows |-> IF r \in flipped[c] THEN RetryRow(rows[r]) ELSE rows[r]]
  /\ CallEnds(c)
  /\ owed' = {}
  /\ UNCHANGED <<exists, stored, request, late, walk, offset>>

(* A statement throws or the connection is lost: rolled back.              *)
RetryRollsBack(c) ==
  /\ call[c] # "idle"
  /\ CallEnds(c)
  /\ UNCHANGED <<vars, ledger, listing>>

-----------------------------------------------------------------------------
(* GET /tasks/:id/dead-letters, with offsets 0, Limit, 2 * Limit, ... until *)
(* a page comes back short.                                                *)

ListFirst ==
  /\ walk \in {"idle", "over"}
  /\ walk' = "lookup" /\ offset' = 0 /\ owed' = Failed
  /\ UNCHANGED <<vars, ledger, retries>>

(* getTask, the first statement of each call; 404 ends the walk.           *)
ListLooksUp ==
  /\ walk = "lookup"
  /\ walk' = IF exists THEN "fetch" ELSE "idle"
  /\ UNCHANGED <<vars, ledger, retries, offset, owed>>

(* Of a set of rows ordered by row_index, those after the first `offset`,  *)
(* Limit of them at most.                                                  *)
PageOf(set) ==
  {r \in set : LET before == Cardinality({q \in set : q < r})
               IN  offset <= before /\ before < offset + Limit}

(* Mutant: every row that is not done is listed.                           *)
FetchFailedRowsOpen == PageOf({r \in Stored : rows[r].status # "done"})

FetchFailedRows == PageOf(Failed)

ListFetches ==
  /\ walk = "fetch"
  /\ IF Cardinality(FetchFailedRows) < Limit
     THEN walk' = "over" /\ offset' = 0
     ELSE walk' = "lookup" /\ offset' = offset + Limit
  /\ owed' = owed \ FetchFailedRows
  /\ UNCHANGED <<vars, ledger, retries>>

-----------------------------------------------------------------------------
(* GET /tasks/:id.                                                         *)

(* Mutant: rounded up.                                                     *)
ProgressUp(processed, total) ==
  {n \in 0 .. Scale : /\ n * total >= processed * Scale
                      /\ (n - 1) * total < processed * Scale}

(* Number((processed / total).toFixed(4)), in units of 1 / Scale: the      *)
(* nearest, either neighbour on a tie (the quotient is a double); 0 of     *)
(* nothing.                                                                *)
Progress(processed, total) ==
  IF total > 0
  THEN {n \in 0 .. Scale : /\ 2 * n * total <= 2 * processed * Scale + total
                           /\ 2 * n * total >= 2 * processed * Scale - total}
  ELSE {0}

-----------------------------------------------------------------------------
(* A task becomes one that retry accepts, or does not.                     *)
CountFailure == failures' = failures + IF CanRetry(task') /\ ~CanRetry(task) THEN 1 ELSE 0

Besides == UNCHANGED <<ledger, retries, listing>> /\ CountFailure

(* The steps of Ingestion that need no row.                                *)
PostStep   == (Request \/ Crash) /\ Besides
SweepStep  == FailStaleIngesting /\ Besides
ElapseStep == Elapse /\ Besides
ClaimStep  == (ClaimNextPending \/ RunLost) /\ Besides

RunStep ==
  /\ Verdict \/ \E r \in 1 .. MaxRows : SettleReads(r) \/ SettleWrites(r)
  /\ CountFailure

RetryStep(c) ==
  /\ RetrySelect(c) \/ RetryRows(c) \/ RetryCommits(c) \/ RetryRollsBack(c)
  /\ CountFailure

ListStep == (ListFirst \/ ListLooksUp \/ ListFetches) /\ CountFailure

EndpointsNext ==
  \/ PostStep \/ SweepStep \/ ElapseStep \/ ClaimStep
  \/ RunStep \/ (\E c \in Clients : RetryStep(c)) \/ ListStep

EndpointsSpec == EndpointsInit /\ [][EndpointsNext]_evars

(* As in Ingestion: the sweeper ticks and time passes.                     *)
EndpointsFairSpec == EndpointsSpec /\ WF_evars(SweepStep) /\ WF_evars(ElapseStep)

-----------------------------------------------------------------------------
(* Properties.                                                             *)

(* Every variable has its type.                                            *)
EndpointsTypeOK ==
  /\ TypeOK
  /\ rows \in [1 .. MaxRows -> Row] /\ late \subseteq 1 .. MaxRows
  /\ call \in [Clients -> {"idle", "rows", "task"}]
  /\ flipped \in [Clients -> SUBSET (1 .. MaxRows)]
  /\ walk \in {"idle", "lookup", "fetch", "over"} /\ offset \in Nat
  /\ owed \subseteq 1 .. MaxRows
  /\ failures \in Nat

(* The endpoints keep what the abstract task of Ingestion promises: a      *)
(* retry is one step there, a run its verdict.                             *)
ImplementsIngestion == Spec

(* A failure is replayed once, however many clients ask at the same time:  *)
(* the second finds the task pending, and never takes it back from the run *)
(* that has claimed it (task.repository.ts:387-393).                       *)
OneReplayPerFailure == replays <= failures

(* No dead letter is re-opened but in the step that publishes its task     *)
(* again: neither a client nor a run sees a half-replayed task             *)
(* (task.repository.ts:379-383).                                           *)
HalfReplayNeverSeen ==
  [][\A r \in 1 .. MaxRows :
       rows[r].status = "failed" /\ rows'[r].status # "failed" =>
         task.status = "failed" /\ task'.status = "pending"]_evars

(* A caller that pages to the end has seen every row that was dead-lettered*)
(* from its first page to its last, though rows fail under it and runs end;*)
(* only a replay in between takes what it was owed                         *)
(* (task-row.repository.ts:185-208).                                       *)
WalkSkipsNothing == walk = "over" => owed = {}

(* A progress of 1 is all the rows, in any job of less than 2 * Scale rows:*)
(* from there on the rounding shows 1 for a task with rows to go           *)
(* (tasks.controller.ts:209-212).                                          *)
FullMeansAll ==
  0 < task.total /\ task.total < 2 * Scale =>
    \A processed \in 0 .. task.total :
      Scale \in Progress(processed, task.total) => processed = task.total

-----------------------------------------------------------------------------
(* What the statements of retryFailed may rely on.                         *)

(* One transaction holds the task's row, and while it does nobody moves    *)
(* the task.                                                               *)
HeldByOne ==
  \A c \in Clients : call[c] # "idle" =>
    /\ \A d \in Clients : call[d] # "idle" => c = d
    /\ exists /\ CanRetry(task) /\ replays < MaxReplays

(* Each replay used up a failure, and a failure not replayed yet is one    *)
(* more.                                                                   *)
FailuresCounted == replays + (IF CanRetry(task) THEN 1 ELSE 0) <= failures

EInv ==
  /\ IInv
  /\ rows \in [1 .. MaxRows -> Row]
  /\ call \in [Clients -> {"idle", "rows", "task"}]
  /\ failures \in Nat
  /\ HeldByOne /\ FailuresCounted

(* The body has MaxRows payloads at most, and the ledger no more.          *)
Bounded == count <= MaxRows /\ stored <= MaxRows

(* What the paging caller is still owed is in the list, and at or after the *)
(* offset it asks for next: one that joins the list before it moves it on.  *)
Before(q) == Cardinality({x \in Failed : x < q})

OwedAhead ==
  /\ owed \subseteq Failed
  /\ walk \in {"lookup", "fetch"} => \A q \in owed : offset <= Before(q)
  /\ walk = "over" => owed = {}
=============================================================================
