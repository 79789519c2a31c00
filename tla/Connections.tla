----------------------------- MODULE Connections -----------------------------
(***************************************************************************)
(* The Postgres pool of one worker process (DatabaseModule: one pool per   *)
(* process, of DB_MAX_CONNECTIONS): a spawned runner, whose one run works  *)
(* on RUNNER_CONCURRENCY rows at a time, or the dispatcher, whose inline   *)
(* runs share its pool with the statements of its claim loop and its       *)
(* sweeper.  A statement holds a connection from its start to its answer;  *)
(* an effect is on MongoDB and holds none.                                 *)
(*                                                                         *)
(* Under it, mapPool (runner/utils/map-pool.ts): workers that share one    *)
(* cursor over the rows of a page, with a row that throws in the middle.   *)
(* What the statements do to the tasks is the subject of Runner and of     *)
(* Dispatch; here an answer is any that could come.                        *)
(***************************************************************************)
EXTENDS Integers, FiniteSets

CONSTANTS
  RunnerConcurrency,      \* RUNNER_CONCURRENCY
  InlineRowConcurrency,   \* INLINE_ROW_CONCURRENCY
  MaxInline,              \* DISPATCH_MAX_CONCURRENT_INLINE
  BatchSize,              \* RUNNER_BATCH_SIZE
  PageSizes,              \* bound: the numbers of rows a page may have
  Pools,                  \* the values of DB_MAX_CONNECTIONS looked at
  Tasks,                  \* ids of the tasks the process meets
  MaxBeats,               \* bound: beats of one run in flight
  MaxRuns                 \* bound: runs in memory, the ones that threw included

ASSUME ConnectionsAssumption ==
  /\ RunnerConcurrency \in Nat \ {0} /\ InlineRowConcurrency \in Nat \ {0}
  /\ MaxInline \in Nat \ {0} /\ BatchSize \in Nat \ {0} /\ PageSizes \subseteq 1 .. BatchSize
  /\ Pools \subseteq Nat /\ MaxBeats \in Nat /\ MaxRuns \in Nat \ {0}
  /\ Tasks # {} /\ IsFiniteSet(Tasks) /\ "none" \notin Tasks

Runs    == 1 .. MaxRuns
NoRun   == 0             \* no entry in the map
NoTask  == "none"
Workers == 1 .. (IF RunnerConcurrency > InlineRowConcurrency
                 THEN RunnerConcurrency ELSE InlineRowConcurrency)

(* Where a run is: between two statements it awaits nothing but its pool   *)
(* of workers, and a backoff.  "thrown": run() has rejected.               *)
Stage == {"free", "begin", "fetch", "page", "advance", "backoff", "finish", "thrown"}

(* Where a worker is: in a row's effect, or in one of the statements that  *)
(* settle the row; "out": it has returned, or was never started.           *)
Step == {"out", "effect", "flip", "record"}

VARIABLES
  kind, size,  \* which process this is, and its DB_MAX_CONNECTIONS
  alive,       \* "up", "draining" (after a signal), "closing" (the runner), "gone"
  task,        \* of each run: the task id it was started with
  lane,        \* InlineRunner.active: the run under a task id, or NoRun
  stage, halt, \* of each run; halt: "no", "drain" (draining), "lost" (lostOwnership)
  items, cursor,  \* mapPool: rows of the page, rows handed out
  step, row,   \* mapPool: what each worker does, to which row
  beats,       \* beats of the run in flight
  poll, sweep  \* the dispatcher: the statement of its claim loop, of its sweeper

config  == <<kind, size>>
known   == <<task, lane>>
process == <<alive, known>>
mapPool == <<items, cursor, step, row>>
run     == <<stage, halt, mapPool>>
service == <<poll, sweep>>
vars    == <<config, process, run, beats, service>>

-----------------------------------------------------------------------------
(* What the two processes allow themselves.                                *)

Places      == IF kind = "runner" THEN 1 ELSE MaxInline
Concurrency == IF kind = "runner" THEN RunnerConcurrency ELSE InlineRowConcurrency

(* Mutant: a pool for the rows, and nothing else.                          *)
FitsRows(k, n) ==
  /\ n >= RunnerConcurrency
  /\ k = "dispatcher" => n >= MaxInline * InlineRowConcurrency

(* The check of runnerConfig: the rows, a heartbeat and a progress write.   *)
RunnerFits(n) == n >= RunnerConcurrency + 2

(* The check of dispatchConfig: the inline lane, and four more.            *)
InlineFits(n) == n >= MaxInline * InlineRowConcurrency + 4

(* What a process passes at boot.  The dispatcher holds the runner's       *)
(* configuration too, so it makes both checks.                             *)
Fits(k, n) == RunnerFits(n) /\ (k = "dispatcher" => InlineFits(n))

(* The entries of InlineRunner's map, which activeCount counts; a spawned  *)
(* runner knows the one run main.ts awaits.                                *)
Active == {t \in Tasks : lane[t] # NoRun}

Tracked == {r \in Runs : \E t \in Tasks : lane[t] = r}

Busy(r) == {w \in Workers : step[r][w] # "out"}

GoesOn(r) == stage[r] \notin {"free", "thrown"}

(* What goes on with no entry in the map: the workers a run that threw has *)
(* left behind; a run whose entry another run of its task wrote over or    *)
(* deleted.                                                                *)
Loose == {r \in Runs : (GoesOn(r) \/ Busy(r) # {}) /\ r \notin Tracked}

Idle == [w \in Workers |-> "out"]
None == [w \in Workers |-> 0]

Init ==
  /\ kind \in {"runner", "dispatcher"} /\ size \in Pools /\ Fits(kind, size)
  /\ alive = "up"
  /\ \E t \in Tasks :
       /\ task = [r \in Runs |-> IF r = 1 /\ kind = "runner" THEN t ELSE NoTask]
       /\ lane = [u \in Tasks |-> IF kind = "runner" /\ u = t THEN 1 ELSE NoRun]
  /\ stage = [r \in Runs |-> IF r = 1 /\ kind = "runner" THEN "begin" ELSE "free"]
  /\ halt  = [r \in Runs |-> "no"]
  /\ items = [r \in Runs |-> 0] /\ cursor = [r \in Runs |-> 0]
  /\ step  = [r \in Runs |-> Idle] /\ row = [r \in Runs |-> None]
  /\ beats = [r \in Runs |-> 0]
  /\ poll = "idle" /\ sweep = FALSE

-----------------------------------------------------------------------------
(* mapPool.                                                                *)

(* The call: min(concurrency, rows) workers, each of which asks shouldStop *)
(* and takes a row before the first of them awaits.                        *)
StartPage(r, n) ==
  LET started == IF halt[r] # "no" THEN 0 ELSE IF Concurrency < n THEN Concurrency ELSE n
  IN  /\ items'  = [items EXCEPT ![r] = n]
      /\ cursor' = [cursor EXCEPT ![r] = started]
      /\ step'   = [step EXCEPT ![r] = [w \in Workers |-> IF w <= started THEN "effect" ELSE "out"]]
      /\ row'    = [row EXCEPT ![r] = [w \in Workers |-> IF w <= started THEN w ELSE 0]]

(* Mutant: the cursor moves on when the row is settled.                    *)
NextRowLate(r, w, h) ==
  IF h = "no" /\ cursor[r] < items[r]
  THEN /\ cursor' = [cursor EXCEPT ![r] = @ + 1]
       /\ step'   = [step EXCEPT ![r][w] = "effect"]
       /\ row'    = [row EXCEPT ![r][w] = cursor[r]]
       /\ UNCHANGED items
  ELSE /\ step' = [step EXCEPT ![r][w] = "out"]
       /\ row'  = [row EXCEPT ![r][w] = 0]
       /\ UNCHANGED <<items, cursor>>

(* The row is settled: the worker's loop goes round, with shouldStop as    *)
(* the settlement left it.                                                 *)
NextRow(r, w, h) ==
  IF h = "no" /\ cursor[r] < items[r]
  THEN /\ cursor' = [cursor EXCEPT ![r] = @ + 1]
       /\ step'   = [step EXCEPT ![r][w] = "effect"]
       /\ row'    = [row EXCEPT ![r][w] = cursor[r] + 1]
       /\ UNCHANGED items
  ELSE /\ step' = [step EXCEPT ![r][w] = "out"]
       /\ row'  = [row EXCEPT ![r][w] = 0]
       /\ UNCHANGED <<items, cursor>>

(* The row goes on to its next await.                                      *)
Proceed(r, w, s) ==
  /\ step' = [step EXCEPT ![r][w] = s]
  /\ UNCHANGED <<items, cursor, row>>

(* standDown: the claim is lost.                                           *)
StandDown(r) == halt' = [halt EXCEPT ![r] = "lost"]

Settle(r, w) ==
  \/ UNCHANGED halt /\ NextRow(r, w, halt[r])
  \/ StandDown(r) /\ NextRow(r, w, "lost")

-----------------------------------------------------------------------------
(* One row.                                                                *)

Lives == alive # "gone"

(* RowProcessor.apply: it succeeds, it throws, or the drain aborts it.     *)
Effect(r, w) ==
  /\ Lives /\ step[r][w] = "effect"
  /\ \/ \E s \in {"flip", "record"} : Proceed(r, w, s)
     \/ halt[r] # "no" /\ NextRow(r, w, halt[r])
  /\ UNCHANGED <<config, process, stage, halt, beats, service>>

(* markRowDone and, when it misses, ownershipHolds: done, superseded, or   *)
(* the claim is lost; or a statement throws, and the row is a failure.     *)
Flip(r, w) ==
  /\ Lives /\ step[r][w] = "flip"
  /\ \/ Settle(r, w)
     \/ Proceed(r, w, "record") /\ UNCHANGED halt
  /\ UNCHANGED <<config, process, stage, beats, service>>

(* Mutant: a failed row is tried again on the spot.                        *)
RecordAndRetry(r, w) ==
  /\ Lives /\ step[r][w] = "record"
  /\ \/ Settle(r, w)
     \/ Proceed(r, w, "effect") /\ UNCHANGED halt
  /\ UNCHANGED <<config, process, stage, beats, service>>

(* recordRowFailure and, when it misses, ownershipHolds.                   *)
Record(r, w) ==
  /\ Lives /\ step[r][w] = "record"
  /\ Settle(r, w)
  /\ UNCHANGED <<config, process, stage, beats, service>>

(* The promise of run() settles, once: main.ts closes the process, and     *)
(* InlineRunner deletes the entry of the task, whichever run it is of.     *)
Over(r) ==
  /\ alive' = IF kind = "runner" THEN "closing" ELSE alive
  /\ lane' = [t \in Tasks |-> IF t = task[r] THEN NoRun ELSE lane[t]]
  /\ task' = [task EXCEPT ![r] = NoTask]

(* One of these statements throws: the worker rejects and, first to do so, *)
(* rejects the page and with it the run.  The other workers are not told.  *)
RecordThrows(r, w) ==
  /\ Lives /\ step[r][w] = "record"
  /\ step' = [step EXCEPT ![r][w] = "out"] /\ row' = [row EXCEPT ![r][w] = 0]
  /\ stage' = [stage EXCEPT ![r] = "thrown"]
  /\ Over(r)
  /\ UNCHANGED <<config, halt, items, cursor, beats, service>>

-----------------------------------------------------------------------------
(* One run.                                                                *)

(* The promise of run() resolves, and its RunnerService is dropped.        *)
End(r) ==
  /\ stage' = [stage EXCEPT ![r] = "free"]
  /\ halt'  = [halt EXCEPT ![r] = "no"]
  /\ Over(r)

Goes(r, s) == stage' = [stage EXCEPT ![r] = s] /\ UNCHANGED <<process, halt>>

(* The page's counts are used, its array is dropped.                       *)
DropPage(r) ==
  /\ items'  = [items EXCEPT ![r] = 0] /\ cursor' = [cursor EXCEPT ![r] = 0]
  /\ UNCHANGED <<step, row>>

(* getTask, claimPending, markRunning, recomputeProgress: the claim is     *)
(* ours, or there is nothing to run.                                       *)
Begin(r) ==
  /\ Lives /\ stage[r] = "begin"
  /\ Goes(r, IF halt[r] = "no" THEN "fetch" ELSE "finish") \/ End(r)
  /\ UNCHANGED <<config, mapPool, beats, service>>

(* fetchPendingRows: the next page, or no row is left.                     *)
Fetch(r) ==
  /\ Lives /\ stage[r] = "fetch"
  /\ \/ Goes(r, "finish") /\ UNCHANGED mapPool
     \/ \E n \in PageSizes : Goes(r, "page") /\ StartPage(r, n)
  /\ UNCHANGED <<config, beats, service>>

(* Promise.all has every worker, and processPage returns; a run that has   *)
(* lost its claim goes no further.                                         *)
Page(r) ==
  /\ Lives /\ stage[r] = "page" /\ Busy(r) = {}
  /\ \/ halt[r] = "lost" /\ End(r) /\ DropPage(r)
     \/ halt[r] # "lost" /\ Goes(r, "advance") /\ UNCHANGED mapPool
  /\ UNCHANGED <<config, beats, service>>

(* The loop goes round, unless the run is halted: a drained one still      *)
(* finalizes, one that lost its claim does not.                            *)
LoopTop(r, next) ==
  \/ halt[r] = "no"    /\ Goes(r, next)
  \/ halt[r] = "drain" /\ Goes(r, "finish")
  \/ halt[r] = "lost"  /\ End(r)

(* advanceProgress: it misses, or the loop goes round, after a backoff     *)
(* when rows of the page failed.                                           *)
Advance(r) ==
  /\ Lives /\ stage[r] = "advance"
  /\ End(r) \/ LoopTop(r, "fetch") \/ LoopTop(r, "backoff")
  /\ DropPage(r)
  /\ UNCHANGED <<config, beats, service>>

Backoff(r) ==
  /\ Lives /\ stage[r] = "backoff"
  /\ LoopTop(r, "fetch")
  /\ UNCHANGED <<config, mapPool, beats, service>>

(* finalize: recomputeProgress, countRows, the verdict.                    *)
Finish(r) ==
  /\ Lives /\ stage[r] = "finish"
  /\ End(r)
  /\ UNCHANGED <<config, mapPool, beats, service>>

(* A statement of the run itself throws: no worker is left behind.         *)
RunThrows(r) ==
  /\ Lives /\ stage[r] \in {"begin", "fetch", "advance", "finish"}
  /\ End(r) /\ DropPage(r)
  /\ UNCHANGED <<config, beats, service>>

(* The last worker of a run that threw has returned: nothing refers to it. *)
Forgotten(r) ==
  /\ Lives /\ stage[r] = "thrown" /\ Busy(r) = {}
  /\ stage' = [stage EXCEPT ![r] = "free"] /\ halt' = [halt EXCEPT ![r] = "no"]
  /\ DropPage(r)
  /\ UNCHANGED <<config, process, beats, service>>

(* startHeartbeat .. stopHeartbeat.  The timer does not wait for the       *)
(* answer of the beat before.                                              *)
BeatsInFlight == {b \in Runs \X (1 .. MaxBeats) : b[2] <= beats[b[1]]}

Beat(r) ==
  /\ Lives /\ stage[r] \in {"fetch", "page", "advance", "backoff"}
  /\ beats[r] < MaxBeats
  /\ beats' = [beats EXCEPT ![r] = @ + 1]
  /\ UNCHANGED <<config, process, run, service>>

(* The beat is answered, fails, or finds the claim lost.                   *)
BeatAnswered(r) ==
  /\ Lives /\ beats[r] > 0
  /\ beats' = [beats EXCEPT ![r] = @ - 1]
  /\ UNCHANGED halt \/ (stage[r] # "free" /\ StandDown(r))
  /\ UNCHANGED <<config, process, stage, mapPool, service>>

-----------------------------------------------------------------------------
(* The process.                                                            *)

(* Dispatcher.tick: the claim, which asks for light tasks while the map    *)
(* has room, and for heavy ones if the other lane has.                     *)
Ask ==
  /\ kind = "dispatcher" /\ alive = "up" /\ poll = "idle"
  /\ poll' = IF Cardinality(Active) < MaxInline THEN "light" ELSE "heavy"
  /\ UNCHANGED <<config, process, run, beats, sweep>>

(* The runs not in memory.                                                 *)
Vacant == {r \in Runs : stage[r] = "free" /\ beats[r] = 0}

(* A light task was claimed: InlineRunner.run, through the factory.  It    *)
(* may be the task of a run that goes on, once the sweeper gave it back.   *)
RunInline ==
  /\ Lives /\ poll = "light" /\ poll' = "idle"
  /\ \E r \in Vacant, t \in Tasks :
       /\ \A q \in Vacant : r <= q
       /\ stage' = [stage EXCEPT ![r] = "begin"]
       /\ task' = [task EXCEPT ![r] = t] /\ lane' = [lane EXCEPT ![t] = r]
  /\ UNCHANGED <<config, alive, halt, mapPool, beats, sweep>>

(* Nothing to claim, a heavy task for a child process, or it throws.       *)
AskEnds ==
  /\ Lives /\ poll # "idle" /\ poll' = "idle"
  /\ UNCHANGED <<config, process, run, beats, sweep>>

(* StaleSweeper.tick: one statement after the other, never two ticks.      *)
Sweep ==
  /\ kind = "dispatcher"
  /\ IF sweep THEN Lives ELSE alive = "up"
  /\ sweep' = ~sweep
  /\ UNCHANGED <<config, process, run, beats, poll>>

(* SIGTERM: the timers are cleared, what main.ts or the map knows drains.  *)
Signal ==
  /\ alive = "up"
  /\ alive' = "draining"
  /\ halt' = [r \in Runs |-> IF r \in Tracked /\ halt[r] = "no" THEN "drain" ELSE halt[r]]
  /\ UNCHANGED <<config, known, stage, mapPool, beats, service>>

(* The process is gone: at its end, at the drain deadline, or killed.      *)
Exit ==
  /\ Lives
  /\ alive' = "gone"
  /\ task' = [r \in Runs |-> NoTask] /\ lane' = [t \in Tasks |-> NoRun]
  /\ stage' = [r \in Runs |-> "free"] /\ halt' = [r \in Runs |-> "no"]
  /\ items' = [r \in Runs |-> 0] /\ cursor' = [r \in Runs |-> 0]
  /\ step'  = [r \in Runs |-> Idle] /\ row' = [r \in Runs |-> None]
  /\ beats' = [r \in Runs |-> 0] /\ poll' = "idle" /\ sweep' = FALSE
  /\ UNCHANGED config

RowStep(r, w) == Effect(r, w) \/ Flip(r, w) \/ Record(r, w) \/ RecordThrows(r, w)

RunStep(r) == Begin(r) \/ Fetch(r) \/ Page(r) \/ Advance(r) \/ Backoff(r) \/ Finish(r)

Next ==
  \/ \E r \in Runs :
       \/ \E w \in Workers : RowStep(r, w)
       \/ RunStep(r) \/ RunThrows(r) \/ Forgotten(r) \/ Beat(r) \/ BeatAnswered(r)
  \/ Ask \/ RunInline \/ AskEnds \/ Sweep \/ Signal \/ Exit

Spec == Init /\ [][Next]_vars

(* Some await of the workers of a run ends: every operation on MongoDB has *)
(* a timeout, and a statement is answered or fails.                        *)
FairSpec == Spec /\ \A r \in Runs : WF_vars(\E w \in Workers : RowStep(r, w))

-----------------------------------------------------------------------------
(* What is checked.                                                        *)

TypeOK ==
  /\ kind \in {"runner", "dispatcher"} /\ size \in Pools
  /\ alive \in {"up", "draining", "closing", "gone"}
  /\ task \in [Runs -> Tasks \cup {NoTask}] /\ lane \in [Tasks -> Runs \cup {NoRun}]
  /\ stage \in [Runs -> Stage] /\ halt \in [Runs -> {"no", "drain", "lost"}]
  /\ items \in [Runs -> 0 .. BatchSize] /\ cursor \in [Runs -> 0 .. BatchSize]
  /\ step \in [Runs -> [Workers -> Step]]
  /\ row \in [Runs -> [Workers -> 0 .. BatchSize]]
  /\ beats \in [Runs -> 0 .. MaxBeats]
  /\ poll \in {"idle", "light", "heavy"} /\ sweep \in BOOLEAN

(* The statements in flight, each with the run it belongs to: of the       *)
(* workers, of the run itself, of its beats; of the process.               *)
RowStatements == {s \in Runs \X Workers : step[s[1]][s[2]] \in {"flip", "record"}}
RunStatements == {r \in Runs : stage[r] \in {"begin", "fetch", "advance", "finish"}}

InUse ==
  Cardinality(RowStatements) + Cardinality(RunStatements) + Cardinality(BeatsInFlight)
  + (IF poll = "idle" THEN 0 ELSE 1) + (IF sweep THEN 1 ELSE 0)

(* What the checks at boot do not count: a run the lane has lost, and the  *)
(* beats beyond two.                                                       *)
Uncounted ==
  LET beating == Cardinality(BeatsInFlight)
  IN  Concurrency * Cardinality(Loose) + (IF beating > 2 THEN beating - 2 ELSE 0)

(* "A pool smaller than the runner's own parallelism wedges it under       *)
(* sustained load": whatever the rows, claims and sweeps of a process that *)
(* passed the checks at boot do at once, its statements in flight          *)
(* outnumber its connections only by those of runs its map no longer       *)
(* knows, and by beats that overlap (runner.config.ts:41-46,               *)
(* dispatch.config.ts:65-76).                                              *)
PoolSuffices == InUse <= size + Uncounted

(* dispatch.config.ts:71-74: the pool "must cover the inline lane plus the *)
(* claim/sweep/heartbeat overhead (+4)", every run of which is in the map. *)
OverheadCovered == Loose = {} => InUse <= size

(* mapPool hands each row of a page to one worker, and the page is counted *)
(* (advanceProgress) only when no worker is in a row any more and, unless  *)
(* the run was halted, every row was handed out (map-pool.ts:16-28).  It   *)
(* holds beside a worker that rejected and runs that threw.                *)
PageIsWhole == \A r \in Runs :
  /\ \A v, w \in Busy(r) : v # w => row[r][v] # row[r][w]
  /\ stage[r] = "advance" => Busy(r) = {} /\ (halt[r] # "no" \/ cursor[r] = items[r])

(* A page under way ends, whatever its rows do; the workers a run that     *)
(* threw has left behind come to an end too, at the latest with the page.  *)
PagesEnd == \A r \in Runs : Busy(r) # {} ~> Busy(r) = {}
=============================================================================
