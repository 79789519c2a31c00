------------------------------ MODULE Heartbeat ------------------------------
(***************************************************************************)
(* The life of one claim against the clock: the run it started, whose beat *)
(* has a timer of its own (RunnerService.startHeartbeat), and the sweeper  *)
(* that looks for claims gone silent (StaleSweeper.tick).  Module Runner   *)
(* lets a beat go stale at any moment; here the configured times decide.   *)
(*                                                                         *)
(* Time is discrete and kept as ages and countdowns, so that it needs no   *)
(* bound: Tick moves all of them, and may not pass the moment something is *)
(* due.  heartbeat_at holds now() of the statement that wrote it, which is *)
(* any moment between its start and its commit; so does the cutoff the     *)
(* sweeper compares it with.                                               *)
(*                                                                         *)
(* The rows of a page are abstracted to one row after the other, and the   *)
(* effect of a row to a number of operations on MongoDB.                   *)
(***************************************************************************)
EXTENDS Integers

CONSTANTS
  HeartbeatInterval,   \* HEARTBEAT_INTERVAL_MS
  StaleAfter,          \* STALE_AFTER_MS
  SweepInterval,       \* SWEEP_INTERVAL_MS
  OpTimeout,           \* MONGO_OP_TIMEOUT_MS
  RetryBackoff,        \* ROW_RETRY_BACKOFF_MS
  DrainTimeout,        \* RUNNER_DRAIN_TIMEOUT_MS
  Latency,             \* environment: a statement on Postgres answers within it
  MaxOps               \* bound: operations on MongoDB left in the job

ASSUME TimesAssumption ==
  /\ HeartbeatInterval \in Nat \ {0} /\ StaleAfter \in Nat \ {0}
  /\ SweepInterval \in Nat \ {0} /\ OpTimeout \in Nat \ {0}
  /\ RetryBackoff \in Nat /\ DrainTimeout \in Nat \ {0} /\ Latency \in Nat \ {0}
  /\ MaxOps \in Nat

(* The check sweepConfig makes at boot, on the cadence both processes read. *)
ToleratesMissedBeats == StaleAfter >= 3 * HeartbeatInterval

ASSUME StaleAssumption == ToleratesMissedBeats

(* Postgres answers well within a beat, and within a sweep.                *)
ASSUME LatencyAssumption ==
  2 * Latency <= HeartbeatInterval /\ 3 * Latency < 2 * SweepInterval

Off   == -1                       \* a timer that is not armed, a beat not in flight
Never == StaleAfter + 4 * SweepInterval + 5 * Latency      \* longer than any wait below
Earlier(a, b) == IF a < b THEN a ELSE b

(* What a claim waits for: its restart, its failure with the restart       *)
(* budget spent, or, for an ingestion whose API died, its failure.         *)
Sort == {"restartable", "spent", "ingesting"}

(* Where run() is: each value names the await that is on.                  *)
Loop  == {"fetch", "op", "flip", "advance", "backoff"}       \* the timer is armed
Owned == Loop \cup {"recount", "final", "count", "verdict"}  \* markRunning has hit
PC    == Owned \cup {"boot", "mark", "close", "gone"}

VARIABLES
  sort,      \* what the claim is
  claim,     \* "held", "ended" (a verdict) or "reclaimed" (by the sweeper)
  age,       \* of coalesce(heartbeat_at, started_at), or updated_at of an ingestion
  pc, elapsed,   \* where the run is, and for how long
  due,       \* the beat timer
  beat,      \* for how long a beat is in flight
  missed,    \* the last beat was lost
  halt,      \* "no", "drain" (draining) or "lost" (lostOwnership)
  ops,       \* operations left in the job
  watch,     \* main.ts: the watchdog of the first signal
  frozen,    \* "no", "now" or "was": the process does not run
  sweepDue, stage, sweepElapsed,   \* the sweeper: its timer, its statement and for how long
  sweepMissed,   \* the last sweep failed
  overlap,   \* history: how long the run, awake, has not noticed that it lost the claim
  signalled  \* history: how long ago the first signal came

runner  == <<pc, elapsed, due, beat, missed, halt, ops>>
process == <<watch, frozen, signalled>>
sweeper == <<sweepDue, stage, sweepElapsed, sweepMissed>>
vars    == <<sort, claim, age, runner, process, sweeper, overlap>>

Init ==
  /\ sort \in Sort /\ claim = "held" /\ age = 0
  /\ pc = IF sort = "ingesting" THEN "gone" ELSE "boot"
  /\ elapsed = 0 /\ due = Off /\ beat = Off /\ missed = FALSE /\ halt = "no" /\ ops = MaxOps
  /\ watch = Off /\ frozen = "no" /\ signalled = Off
  /\ sweepDue \in 0..SweepInterval /\ stage = "idle" /\ sweepElapsed = 0 /\ sweepMissed = FALSE
  /\ overlap = 0

Awake == frozen # "now" /\ pc # "gone"

-----------------------------------------------------------------------------
(* Time.                                                                   *)

(* Mutant: an operation on MongoDB without timeoutMS.                      *)
WaitUnbounded(p) ==
  CASE p \in {"boot", "close", "gone", "op"} -> Never
    [] p = "backoff"                         -> RetryBackoff
    [] OTHER                                 -> Latency

(* How long the await may last.  Nothing bounds the boot of a process (its *)
(* spawn may even have failed) and the closing of its context.             *)
Wait(p) ==
  CASE p \in {"boot", "close", "gone"} -> Never
    [] p = "op"                        -> OpTimeout
    [] p = "backoff"                   -> RetryBackoff
    [] OTHER                           -> Latency

Age(x, most) == IF x = Off THEN Off ELSE Earlier(x + 1, most)
Count(x)     == IF x = Off THEN Off ELSE x - 1

RunMayWait ==
  \/ ~Awake
  \/ /\ Wait(pc) # Never => elapsed < Wait(pc)
     /\ pc = "backoff" => halt = "no"
     /\ due # 0 /\ watch # 0

Tick ==
  /\ RunMayWait
  /\ beat < Latency \/ frozen = "now"
  /\ sweepDue > 0 /\ (stage # "idle" => sweepElapsed < Latency)
  /\ age' = IF claim = "held" THEN Age(age, Never) ELSE age
  /\ elapsed' = IF Wait(pc) = Never THEN elapsed ELSE Earlier(elapsed + 1, Wait(pc))
  /\ due' = IF due = 0 THEN 0 ELSE Count(due)
  /\ beat' = Age(beat, Latency)
  /\ watch' = IF watch = 0 THEN 0 ELSE Count(watch)
  /\ signalled' = Age(signalled, DrainTimeout + 1)
  /\ sweepDue' = IF claim = "held" THEN sweepDue - 1 ELSE sweepDue
  /\ sweepElapsed' = IF stage = "idle" THEN 0 ELSE sweepElapsed + 1
  /\ overlap' = IF claim = "reclaimed" /\ Awake /\ due # Off /\ halt # "lost"
                THEN Earlier(overlap + 1, Never) ELSE overlap
  /\ UNCHANGED <<sort, claim, pc, missed, halt, ops, frozen, stage, sweepMissed>>

-----------------------------------------------------------------------------
(* The run.                                                                *)

Goto(p) == pc' = p /\ elapsed' = 0

(* A statement that writes now() to heartbeat_at, under the epoch fence.   *)
Stamp == IF claim = "held" THEN age' \in 0..elapsed ELSE UNCHANGED age

Fenced == claim = "reclaimed"

(* The end of the page loop: the timer stops, and a run that lost its      *)
(* claim finalizes nothing.                                                *)
LeaveLoop(h) == due' = Off /\ Goto(IF h = "lost" THEN "close" ELSE "final")

(* The condition of the page loop.                                         *)
LoopTop(h) == IF h = "no" THEN Goto("fetch") /\ UNCHANGED due ELSE LeaveLoop(h)

idle == <<sort, claim, process, sweeper, overlap>>

(* The context is up and getTask has answered.                             *)
Acquire ==
  /\ pc = "boot" /\ Awake
  /\ Goto(IF claim = "held" THEN "mark" ELSE "close")
  /\ UNCHANGED <<idle, age, due, beat, missed, halt, ops>>

MarkRunning ==
  /\ pc = "mark" /\ Awake
  /\ Stamp
  /\ Goto(IF Fenced THEN "close" ELSE "recount")
  /\ UNCHANGED <<idle, due, beat, missed, halt, ops>>

(* recomputeProgress of beginRun, then startHeartbeat.                     *)
Recount ==
  /\ pc = "recount" /\ Awake
  /\ Stamp
  /\ IF Fenced
     THEN Goto("close") /\ halt' = "lost" /\ UNCHANGED due
     ELSE /\ UNCHANGED halt
          /\ IF halt = "no" THEN Goto("fetch") /\ due' = HeartbeatInterval
                            ELSE LeaveLoop(halt)
  /\ UNCHANGED <<idle, beat, missed, ops>>

(* A page, or none: a halted run starts no row of it.                      *)
FetchRows ==
  /\ pc = "fetch" /\ Awake
  /\ IF ops = 0 \/ halt = "lost" THEN LeaveLoop(halt)
     ELSE Goto(IF halt = "no" THEN "op" ELSE "advance") /\ UNCHANGED due
  /\ UNCHANGED <<idle, age, beat, missed, halt, ops>>

(* An operation of the effect ends, well or not; the row goes on with      *)
(* another one or is settled.                                              *)
OpEnds ==
  /\ ops' = ops - 1
  /\ \/ ops > 1 /\ Goto("op")
     \/ Goto("flip")
  /\ UNCHANGED <<idle, age, due, beat, missed, halt>>

OpAnswers  == pc = "op" /\ Awake /\ OpEnds
OpTimesOut == pc = "op" /\ Awake /\ elapsed = Wait("op") /\ OpEnds

(* markRowDone or recordRowFailure: neither is a sign of life, a miss of   *)
(* the fence is a loss.  The pool then takes the next row, or is done.     *)
SettleRow ==
  /\ pc = "flip" /\ Awake
  /\ IF Fenced
     THEN halt' = "lost" /\ LeaveLoop("lost")
     ELSE /\ UNCHANGED <<halt, due>>
          /\ \/ ops > 0 /\ halt = "no" /\ Goto("op")
             \/ Goto("advance")
  /\ UNCHANGED <<idle, age, beat, missed, ops>>

AdvanceProgress ==
  /\ pc = "advance" /\ Awake
  /\ Stamp
  /\ IF Fenced
     THEN halt' = "lost" /\ LeaveLoop("lost")
     ELSE /\ UNCHANGED halt
          /\ \/ LoopTop(halt)
             \/ RetryBackoff > 0 /\ halt = "no" /\ Goto("backoff") /\ UNCHANGED due
  /\ UNCHANGED <<idle, beat, missed, ops>>

(* The sleep is over, or cut short by the abort.                           *)
BackOffBeforeRetry ==
  /\ pc = "backoff" /\ Awake
  /\ elapsed = RetryBackoff \/ halt # "no"
  /\ LoopTop(halt)
  /\ UNCHANGED <<idle, age, beat, missed, halt, ops>>

(* recomputeProgress of finalize: a drained run stops here.                *)
FinalRecount ==
  /\ pc = "final" /\ Awake
  /\ Stamp
  /\ halt' = IF Fenced THEN "lost" ELSE halt
  /\ Goto(IF halt' = "no" THEN "count" ELSE "close")
  /\ UNCHANGED <<idle, due, beat, missed, ops>>

CountRows ==
  /\ pc = "count" /\ Awake
  /\ Goto("verdict")
  /\ UNCHANGED <<idle, age, due, beat, missed, halt, ops>>

(* markCompleted or markFailed.                                            *)
Verdict ==
  /\ pc = "verdict" /\ Awake
  /\ claim' = IF Fenced THEN claim ELSE "ended"
  /\ age' = 0
  /\ Goto("close")
  /\ UNCHANGED <<sort, process, sweeper, overlap, due, beat, missed, halt, ops>>

RunSteps ==
  \/ Acquire \/ MarkRunning \/ Recount \/ FetchRows \/ OpTimesOut \/ SettleRow
  \/ AdvanceProgress \/ BackOffBeforeRetry \/ FinalRecount \/ CountRows \/ Verdict

-----------------------------------------------------------------------------
(* The beat.                                                               *)

(* Mutant: a timeout in place of the interval.                             *)
BeatOnce ==
  /\ due = 0 /\ beat = Off /\ Awake
  /\ beat' = 0 /\ due' = Off
  /\ UNCHANGED <<idle, age, pc, elapsed, missed, halt, ops>>

Beat ==
  /\ due = 0 /\ beat = Off /\ Awake
  /\ beat' = 0 /\ due' = HeartbeatInterval
  /\ UNCHANGED <<idle, age, pc, elapsed, missed, halt, ops>>

(* Mutant: the miss is not looked at.                                      *)
BeatLandsDeaf ==
  /\ beat # Off
  /\ IF claim = "held" THEN age' \in 0..beat ELSE UNCHANGED age
  /\ beat' = Off /\ missed' = FALSE
  /\ UNCHANGED <<idle, pc, elapsed, due, halt, ops>>

(* A miss makes the run stand down; a process that is gone or frozen has   *)
(* sent the statement all the same.                                        *)
BeatLands ==
  /\ beat # Off
  /\ IF claim = "held" THEN age' \in 0..beat ELSE UNCHANGED age
  /\ beat' = Off /\ missed' = FALSE
  /\ halt' = IF Fenced /\ pc # "gone" THEN "lost" ELSE halt
  /\ UNCHANGED <<idle, pc, elapsed, due, ops>>

(* A beat is lost, never two in a row: what STALE_AFTER_MS is sized for.   *)
BeatFails ==
  /\ beat # Off /\ ~missed
  /\ beat' = Off /\ missed' = TRUE
  /\ UNCHANGED <<idle, age, pc, elapsed, due, halt, ops>>

-----------------------------------------------------------------------------
(* The process.                                                            *)

Exit ==
  /\ Goto("gone") /\ due' = Off /\ watch' = Off /\ signalled' = Off /\ ops' = 0 /\ halt' = "no"
  /\ UNCHANGED <<sort, beat, missed, frozen, sweeper, overlap>>

(* run() has returned or thrown, the context is closed.                    *)
Close == pc = "close" /\ Awake /\ Exit /\ UNCHANGED <<age, claim>>

(* What the statement under way leaves in the store when nobody waits for  *)
(* its answer any more: it may have committed.                             *)
Abandon ==
  \/ UNCHANGED <<age, claim>>
  \/ pc \in {"mark", "recount", "advance", "final"} /\ Stamp /\ UNCHANGED claim
  \/ pc = "verdict" /\ claim' = (IF Fenced THEN claim ELSE "ended") /\ UNCHANGED age

(* A statement throws and with it run(), whose finally stops the timer.    *)
RunThrows ==
  /\ pc \in Owned \cup {"mark"} /\ pc \notin {"op", "backoff"} /\ Awake
  /\ Goto("close") /\ due' = Off
  /\ Abandon
  /\ UNCHANGED <<sort, beat, missed, halt, ops, process, sweeper, overlap>>

Crash == Awake /\ Exit /\ Abandon

Drain(deadline) ==
  /\ halt' = IF halt = "no" THEN "drain" ELSE halt
  /\ watch' = deadline
  /\ signalled' = IF signalled = Off THEN 0 ELSE signalled
  /\ UNCHANGED <<sort, claim, age, pc, elapsed, due, beat, missed, ops, frozen, sweeper, overlap>>

(* Mutant: every signal starts the deadline anew.                          *)
SignalRearms ==
  /\ Awake
  /\ \/ Drain(DrainTimeout)
     \/ pc = "boot" /\ watch = Off /\ Exit /\ UNCHANGED <<age, claim>>

(* drain(): requestDrain and a watchdog; of several, the first one fires   *)
(* first.  Before the handlers are installed a signal just ends it.        *)
Signal ==
  /\ Awake
  /\ \/ Drain(IF watch = Off THEN DrainTimeout ELSE watch)
     \/ pc = "boot" /\ watch = Off /\ Exit /\ UNCHANGED <<age, claim>>

(* The deadline: process.exit(1).                                          *)
Watchdog == watch = 0 /\ Awake /\ Exit /\ UNCHANGED <<age, claim>>

(* A GC pause, a stopped machine, a partition: once.                       *)
Freeze ==
  /\ frozen = "no" /\ pc # "gone"
  /\ frozen' = "now"
  /\ UNCHANGED <<sort, claim, age, runner, watch, signalled, sweeper, overlap>>

Thaw ==
  /\ frozen = "now"
  /\ frozen' = "was"
  /\ UNCHANGED <<sort, claim, age, runner, watch, signalled, sweeper, overlap>>

-----------------------------------------------------------------------------
(* The sweeper.                                                            *)

Stages == {"reclaim", "deadletter", "ingesting"}

sweepIdle == <<sort, claim, age, runner, process, overlap>>

(* The interval fires; a tick still under way makes this one return.       *)
SweepTick ==
  /\ sweepDue = 0 /\ sweepDue' = SweepInterval
  /\ stage' = IF stage = "idle" THEN "reclaim" ELSE stage
  /\ UNCHANGED <<sweepIdle, sweepElapsed, sweepMissed>>

(* Mutant: a task at the end of its budget is nobody's.                    *)
CatchesFew(st) ==
  \/ st = "reclaim"   /\ sort = "restartable"
  \/ st = "ingesting" /\ sort = "ingesting"

(* Which claims a statement looks at.                                      *)
Catches(st) ==
  \/ st = "reclaim"    /\ sort = "restartable"
  \/ st = "deadletter" /\ sort = "spent"
  \/ st = "ingesting"  /\ sort = "ingesting"

(* One statement of tick(): the age it sees is that of some moment of its  *)
(* own flight.                                                             *)
SweepStatement ==
  /\ stage # "idle"
  /\ \E e \in 0..sweepElapsed :
       IF claim = "held" /\ Catches(stage) /\ age - e > StaleAfter
       THEN claim' = "reclaimed" /\ age' = 0
       ELSE UNCHANGED <<claim, age>>
  /\ stage' = CASE stage = "reclaim" -> "deadletter" [] stage = "deadletter" -> "ingesting"
                [] OTHER -> "idle"
  /\ sweepElapsed' = 0
  /\ sweepMissed' = IF stage = "ingesting" THEN FALSE ELSE sweepMissed
  /\ UNCHANGED <<sort, runner, process, overlap, sweepDue>>

(* A statement fails and with it the tick; the next one is a new try.      *)
SweepFails ==
  /\ stage # "idle" /\ ~sweepMissed
  /\ stage' = "idle" /\ sweepElapsed' = 0 /\ sweepMissed' = TRUE
  /\ UNCHANGED <<sweepIdle, sweepDue>>

-----------------------------------------------------------------------------
Steps == RunSteps \/ Beat \/ BeatLands \/ Watchdog \/ SweepTick \/ SweepStatement

Next ==
  \/ Tick \/ Steps \/ OpAnswers \/ BeatFails
  \/ Close \/ RunThrows \/ Crash \/ Signal \/ Freeze \/ Thaw \/ SweepFails

Spec == Init /\ [][Next]_vars

(* Time passes, and what is due happens: an operation on MongoDB is known  *)
(* to end by its timeout only, a process need not close, nor thaw.         *)
FairSpec == Spec /\ WF_vars(Tick) /\ WF_vars(Steps)

-----------------------------------------------------------------------------
(* Properties.                                                             *)

(* Every variable has its type.                                            *)
TypeOK ==
  /\ sort \in Sort /\ claim \in {"held", "ended", "reclaimed"} /\ age \in Nat
  /\ pc \in PC /\ elapsed \in Nat
  /\ due \in {Off} \cup 0..HeartbeatInterval /\ beat \in {Off} \cup 0..Latency
  /\ missed \in BOOLEAN /\ halt \in {"no", "drain", "lost"} /\ ops \in Nat /\ (pc = "op" => ops > 0)
  /\ watch \in {Off} \cup 0..DrainTimeout
  /\ frozen \in {"no", "now", "was"}
  /\ sweepDue \in 0..SweepInterval /\ stage \in {"idle"} \cup Stages
  /\ sweepElapsed \in 0..Latency /\ sweepMissed \in BOOLEAN
  /\ overlap \in Nat /\ signalled \in {Off} \cup Nat

(* A run that has been marked running and is not frozen keeps its claim,   *)
(* whatever beat is lost, however long an effect takes, and through the    *)
(* three statements after the timer stopped (sweep.config.ts:22-26).       *)
LiveRunKept == frozen = "no" /\ pc \in Owned => claim # "reclaimed"

(* A claim, or an ingestion, goes unnoticed for no longer than its         *)
(* threshold, two ticks with one skipped each time and one of them failed, *)
(* and the statements of the tick that finds it (stale-sweeper.service.ts). *)
SilenceBounded == claim = "held" => age <= StaleAfter + 4 * SweepInterval + 3 * Latency

(* A run that wakes up after its claim was taken goes on for one beat and, *)
(* should that be lost, until the next: the first write that lands tells   *)
(* it (ADR 0004:40-47).                                                    *)
OverlapIsShort == overlap <= HeartbeatInterval + Latency

(* A process that was told to stop, once or many times, is gone by its     *)
(* drain deadline (runner/main.ts:37-39).                                  *)
DrainDeadline == frozen = "no" /\ signalled > DrainTimeout => pc = "gone"

(* No claim is held for ever: neither by a process that died, froze or     *)
(* never came up, nor by one that beats behind an operation that does not  *)
(* answer (ADR 0004:22-26).                                                *)
ClaimEnds == claim = "held" ~> claim # "held"
-----------------------------------------------------------------------------
(* The strengthening of LiveRunKept.                                       *)

(* A live process lets nothing pass: an answer comes within Latency, the   *)
(* timer is armed in the page loop, and a beat in flight left when the     *)
(* timer last fired.                                                       *)
Timely ==
  frozen = "no" =>
    /\ pc \in (Owned \cup {"mark"}) \ {"op", "backoff"} => elapsed <= Latency
    /\ pc \in Loop => due \in 0..HeartbeatInterval /\ (beat # Off => beat = HeartbeatInterval - due)
    /\ pc \notin Loop => due = Off
    /\ pc \in {"boot", "mark", "recount"} => beat = Off /\ ~missed

(* What the beats lost and in flight cost.                                 *)
Slip == (IF missed THEN HeartbeatInterval ELSE 0) + (IF beat = Off THEN 0 ELSE HeartbeatInterval)

(* How old the last sign of life is at each await of a live run.           *)
AgeBound ==
  frozen = "no" /\ claim = "held" =>
    /\ pc \in {"recount", "count"} => age <= Latency + elapsed
    /\ pc \in Loop => age <= Latency + (HeartbeatInterval - due) + Slip
    /\ pc = "final" => IF beat = Off THEN age <= Latency + 2 * HeartbeatInterval + elapsed
                                     ELSE age <= Latency + beat + Slip
    /\ pc = "verdict" => age <= 2 * Latency + elapsed

IInv == TypeOK /\ Timely /\ AgeBound /\ LiveRunKept

-----------------------------------------------------------------------------
(* The strengthening of the other bounds, which hold through a freeze too. *)

(* Of a statement in flight no more than Latency is counted, and nothing   *)
(* when the sweeper rests; the timer is only armed in the page loop.       *)
Answered ==
  /\ pc \notin Loop => due = Off
  /\ pc \in (Owned \cup {"mark"}) \ {"op", "backoff"} => elapsed <= Latency
  /\ stage = "idle" => sweepElapsed = 0

(* The watchdog runs out with the deadline of the first signal.            *)
WatchdogSet ==
  frozen = "no" /\ pc # "gone" /\ signalled # Off =>
    watch # Off /\ signalled + watch <= DrainTimeout

(* A beat that landed since the timer was armed speaks for the claim, so a *)
(* claim only goes stale with the timer due, a beat in flight or one lost. *)
BeatSpeaks ==
  claim = "held" /\ due > 0 /\ beat = Off /\ ~missed => age <= Latency + (HeartbeatInterval - due)

(* How long until a run that lost its claim is sure to notice.             *)
NoticedWithin ==
  CASE missed /\ beat # Off  -> Latency - beat
    [] missed /\ beat = Off  -> due + Latency
    [] ~missed /\ beat # Off -> due + Latency
    [] ~missed /\ beat = Off -> due + HeartbeatInterval + Latency

LossNoticed ==
  /\ claim # "reclaimed" => overlap = 0
  /\ claim = "reclaimed" /\ due # Off /\ halt # "lost" =>
       overlap + NoticedWithin <= HeartbeatInterval + Latency

(* What the statements of the sweep under way that are behind it may have  *)
(* taken, and whether the one that looks at this claim is among them.      *)
Behind ==
  CASE stage = "deadletter" -> Latency [] stage = "ingesting" -> 2 * Latency [] OTHER -> 0

LookedAt ==
  \/ stage = "deadletter" /\ sort = "restartable"
  \/ stage = "ingesting"  /\ sort # "ingesting"

(* How long ago the sweep under way began: at the last interval, or at the *)
(* one before (a sweep is over within two).                                *)
SweepBegan == {SweepInterval - sweepDue, 2 * SweepInterval - sweepDue}

(* By how much the claim may have been over the threshold when it began:   *)
(* two intervals for a sweep that came too early for the claim, two for    *)
(* one that failed.                                                        *)
Grace == IF sweepMissed THEN 4 * SweepInterval ELSE 2 * SweepInterval

SweepOnTime ==
  claim = "held" =>
    /\ stage = "idle" => age <= StaleAfter + Grace - sweepDue
    /\ stage # "idle" =>
         \E t \in SweepBegan :
           /\ sweepElapsed <= t /\ t <= Behind + sweepElapsed
           /\ age <= StaleAfter + t + (IF LookedAt THEN 0 ELSE Grace)

ClockInv ==
  /\ IInv /\ Answered /\ WatchdogSet
  /\ BeatSpeaks /\ LossNoticed /\ OverlapIsShort
  /\ SweepOnTime
=============================================================================
