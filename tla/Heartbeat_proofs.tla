--------------------------- MODULE Heartbeat_proofs ---------------------------
(***************************************************************************)
(* The claim against the clock, for every configuration sweepConfig        *)
(* accepts: a live run keeps its claim if the database answers within half *)
(* a beat, a run that lost it soon learns of it, one that was told to stop *)
(* is gone by its deadline, and no silent claim goes unnoticed for long.   *)
(***************************************************************************)
EXTENDS Heartbeat, TLAPS

(* The constants are times.                                                *)
LEMMA TimesAreNat ==
  /\ HeartbeatInterval \in Nat \ {0} /\ StaleAfter \in Nat \ {0} /\ SweepInterval \in Nat \ {0}
  /\ OpTimeout \in Nat \ {0} /\ RetryBackoff \in Nat /\ DrainTimeout \in Nat \ {0}
  /\ Latency \in Nat \ {0} /\ MaxOps \in Nat /\ Never \in Nat
BY TimesAssumption DEF Never

(* What the three parts of the bound add up to stays within STALE_AFTER_MS.*)
LEMMA BoundFits ==
  ASSUME IInv, frozen = "no", claim = "held", pc \in Owned
  PROVE  age <= StaleAfter
<1>1. 2 * Latency <= HeartbeatInterval /\ StaleAfter >= 3 * HeartbeatInterval
  BY StaleAssumption, LatencyAssumption DEF ToleratesMissedBeats
<1>2. age \in Nat /\ elapsed \in Nat /\ due \in {Off} \cup 0..HeartbeatInterval
      /\ beat \in {Off} \cup 0..Latency /\ missed \in BOOLEAN
  BY DEF IInv, TypeOK
<1>3. CASE pc \in {"recount", "final", "count", "verdict"}
  BY <1>1, <1>2, <1>3, TimesAreNat DEF IInv, AgeBound, Timely, Slip, Owned, Loop, Off
<1>4. CASE pc \in Loop
  BY <1>1, <1>2, <1>4, TimesAreNat DEF IInv, AgeBound, Timely, Slip, Owned, Loop, Off
<1>5. QED
  BY <1>3, <1>4 DEF Owned

(* The actions of Next, one by one.                                        *)
LEMMA NextCases ==
  ASSUME [Next]_vars
  PROVE  \/ UNCHANGED vars
         \/ Acquire
         \/ MarkRunning
         \/ Recount
         \/ FetchRows
         \/ OpTimesOut
         \/ OpAnswers
         \/ SettleRow
         \/ AdvanceProgress
         \/ BackOffBeforeRetry
         \/ FinalRecount
         \/ CountRows
         \/ Verdict
         \/ Tick
         \/ Beat
         \/ BeatLands
         \/ BeatFails
         \/ Watchdog
         \/ Close
         \/ RunThrows
         \/ Crash
         \/ Signal
         \/ Freeze
         \/ Thaw
         \/ SweepTick
         \/ SweepStatement
         \/ SweepFails
BY DEF Next, Steps, RunSteps

(* Every step keeps the types.                                             *)
LEMMA TypeStep ==
  ASSUME TypeOK, [Next]_vars
  PROVE  TypeOK'
<1> USE TimesAreNat
<1>1. CASE Acquire
  BY <1>1 DEF TypeOK, Acquire, Awake, Goto, idle, process, sweeper, Off, Sort, PC,
    Owned, Loop, Stages
<1>2. CASE MarkRunning
  BY <1>2 DEF TypeOK, MarkRunning, Awake, Stamp, Goto, Fenced, idle, process, sweeper,
    Off, Sort, PC, Owned, Loop, Stages
<1>3. CASE Recount
  BY <1>3 DEF TypeOK, Recount, Awake, Stamp, Fenced, Goto, LeaveLoop, idle, Off,
    process, sweeper, Sort, PC, Owned, Loop, Stages
<1>4. CASE FetchRows
  BY <1>4 DEF TypeOK, FetchRows, Awake, LeaveLoop, Goto, idle, Off, process, sweeper,
    Sort, PC, Owned, Loop, Stages
<1>5. CASE OpTimesOut
  BY <1>5 DEF TypeOK, OpTimesOut, Awake, Wait, OpEnds, Goto, idle, process, sweeper,
    Off, Sort, PC, Owned, Loop, Stages
<1>6. CASE OpAnswers
  BY <1>6 DEF TypeOK, OpAnswers, Awake, OpEnds, Goto, idle, process, sweeper, Off, Sort,
    PC, Owned, Loop, Stages
<1>7. CASE SettleRow
  BY <1>7 DEF TypeOK, SettleRow, Awake, Fenced, LeaveLoop, Goto, idle, Off, process,
    sweeper, Sort, PC, Owned, Loop, Stages
<1>8. CASE AdvanceProgress
  BY <1>8 DEF TypeOK, AdvanceProgress, Awake, Stamp, Fenced, LeaveLoop, LoopTop, Goto,
    idle, Off, process, sweeper, Sort, PC, Owned, Loop, Stages
<1>9. CASE BackOffBeforeRetry
  BY <1>9 DEF TypeOK, BackOffBeforeRetry, Awake, LoopTop, idle, Goto, LeaveLoop,
    process, sweeper, Off, Sort, PC, Owned, Loop, Stages
<1>10. CASE FinalRecount
  BY <1>10 DEF TypeOK, FinalRecount, Awake, Stamp, Fenced, Goto, idle, process, sweeper,
    Off, Sort, PC, Owned, Loop, Stages
<1>11. CASE CountRows
  BY <1>11 DEF TypeOK, CountRows, Awake, Goto, idle, process, sweeper, Off, Sort, PC,
    Owned, Loop, Stages
<1>12. CASE Verdict
  BY <1>12 DEF TypeOK, Verdict, Awake, Fenced, Goto, process, sweeper, Off, Sort, PC,
    Owned, Loop, Stages
<1>13. CASE Tick
  BY <1>13 DEF TypeOK, Tick, RunMayWait, Age, Wait, Earlier, Count, Awake, Off, Sort,
    PC, Owned, Loop, Stages
<1>14. CASE Beat
  BY <1>14 DEF TypeOK, Beat, Off, Awake, idle, process, sweeper, Sort, PC, Owned, Loop,
    Stages
<1>15. CASE BeatLands
  <2>1. age' \in Nat
    BY <1>15 DEF TypeOK, BeatLands, Off
  <2>2. halt' \in {"no", "drain", "lost"}
    BY <1>15 DEF TypeOK, BeatLands
  <2>3. QED
    BY <1>15, <2>1, <2>2 DEF TypeOK, BeatLands, idle, process, sweeper
<1>16. CASE BeatFails
  BY <1>16 DEF TypeOK, BeatFails, Off, idle, process, sweeper, Sort, PC, Owned, Loop,
    Stages
<1>17. CASE Watchdog
  BY <1>17 DEF TypeOK, Watchdog, Awake, Exit, Goto, Off, sweeper, Sort, PC, Owned, Loop,
    Stages
<1>18. CASE Close
  BY <1>18 DEF TypeOK, Close, Awake, Exit, Goto, Off, sweeper, Sort, PC, Owned, Loop,
    Stages
<1>19. CASE RunThrows
  BY <1>19 DEF TypeOK, RunThrows, Owned, Awake, Goto, Off, Abandon, process, sweeper,
    Loop, Stamp, Fenced, Sort, PC, Stages
<1>20. CASE Crash
  BY <1>20 DEF TypeOK, Crash, Awake, Exit, Abandon, Goto, Off, sweeper, Stamp, Fenced,
    Sort, PC, Owned, Loop, Stages
<1>21. CASE Signal
  BY <1>21 DEF TypeOK, Signal, Awake, Drain, Off, Exit, sweeper, Goto, Sort, PC, Owned,
    Loop, Stages
<1>22. CASE Freeze
  BY <1>22 DEF TypeOK, Freeze, runner, sweeper, Off, Sort, PC, Owned, Loop, Stages
<1>23. CASE Thaw
  BY <1>23 DEF TypeOK, Thaw, runner, sweeper, Off, Sort, PC, Owned, Loop, Stages
<1>24. CASE SweepTick
  BY <1>24 DEF TypeOK, SweepTick, sweepIdle, runner, process, Off, Sort, PC, Owned,
    Loop, Stages
<1>25. CASE SweepStatement
  <2>1. claim' \in {"held", "ended", "reclaimed"} /\ age' \in Nat
    <3>1. PICK e \in 0..sweepElapsed :
            IF claim = "held" /\ Catches(stage) /\ age - e > StaleAfter
            THEN claim' = "reclaimed" /\ age' = 0
            ELSE UNCHANGED <<claim, age>>
      BY <1>25 DEF SweepStatement
    <3>2. QED
      BY <3>1 DEF TypeOK
  <2>2. stage' \in {"idle"} \cup Stages
    BY <1>25 DEF TypeOK, SweepStatement, Stages
  <2>3. sweepElapsed' \in 0..Latency
    BY <1>25 DEF SweepStatement
  <2>4. sweepMissed' \in BOOLEAN
    BY <1>25 DEF TypeOK, SweepStatement
  <2>5. QED
    BY <1>25, <2>1, <2>2, <2>3, <2>4 DEF TypeOK, SweepStatement, runner, process
<1>26. CASE SweepFails
  BY <1>26 DEF TypeOK, SweepFails, sweepIdle, runner, process, Off, Sort, PC, Owned,
    Loop, Stages
<1>27. CASE UNCHANGED vars
  BY <1>27 DEF vars, TypeOK, runner, process, sweeper
<1> QED
  BY <1>1, <1>2, <1>3, <1>4, <1>5, <1>6, <1>7, <1>8, <1>9, <1>10, <1>11, <1>12, <1>13,
    <1>14, <1>15, <1>16, <1>17, <1>18, <1>19, <1>20, <1>21, <1>22, <1>23, <1>24, <1>25,
    <1>26, <1>27, NextCases

(* Every step keeps what a live run owes the clock.                        *)
LEMMA TimelyStep ==
  ASSUME IInv, [Next]_vars
  PROVE  Timely'
<1> USE TimesAreNat, LatencyAssumption DEF IInv
<1>1. CASE Acquire
  BY <1>1 DEF TypeOK, Timely, LiveRunKept, Acquire, Awake, Goto, idle, process, sweeper,
    Off, Owned, Loop
<1>2. CASE MarkRunning
  BY <1>2 DEF TypeOK, Timely, LiveRunKept, MarkRunning, Awake, Stamp, Goto, Fenced,
    idle, process, sweeper, Off, Owned, Loop
<1>3. CASE Recount
  BY <1>3 DEF TypeOK, Timely, LiveRunKept, Recount, Awake, Stamp, Fenced, Goto,
    LeaveLoop, idle, Off, process, sweeper, Owned, Loop
<1>4. CASE FetchRows
  BY <1>4 DEF TypeOK, Timely, LiveRunKept, FetchRows, Awake, LeaveLoop, Goto, idle, Off,
    process, sweeper, Owned, Loop
<1>5. CASE OpTimesOut
  BY <1>5 DEF TypeOK, Timely, LiveRunKept, OpTimesOut, Awake, Wait, OpEnds, Goto, idle,
    process, sweeper, Off, Owned, Loop
<1>6. CASE OpAnswers
  BY <1>6 DEF TypeOK, Timely, LiveRunKept, OpAnswers, Awake, OpEnds, Goto, idle,
    process, sweeper, Off, Owned, Loop
<1>7. CASE SettleRow
  BY <1>7 DEF TypeOK, Timely, LiveRunKept, SettleRow, Awake, Fenced, LeaveLoop, Goto,
    idle, Off, process, sweeper, Owned, Loop
<1>8. CASE AdvanceProgress
  BY <1>8 DEF TypeOK, Timely, LiveRunKept, AdvanceProgress, Awake, Stamp, Fenced,
    LeaveLoop, LoopTop, Goto, idle, Off, process, sweeper, Owned, Loop
<1>9. CASE BackOffBeforeRetry
  BY <1>9 DEF TypeOK, Timely, LiveRunKept, BackOffBeforeRetry, Awake, LoopTop, idle,
    Goto, LeaveLoop, process, sweeper, Off, Owned, Loop
<1>10. CASE FinalRecount
  BY <1>10 DEF TypeOK, Timely, LiveRunKept, FinalRecount, Awake, Stamp, Fenced, Goto,
    idle, process, sweeper, Off, Owned, Loop
<1>11. CASE CountRows
  BY <1>11 DEF TypeOK, Timely, LiveRunKept, CountRows, Awake, Goto, idle, process,
    sweeper, Off, Owned, Loop
<1>12. CASE Verdict
  BY <1>12 DEF TypeOK, Timely, LiveRunKept, Verdict, Awake, Fenced, Goto, process,
    sweeper, Off, Owned, Loop
<1>13. CASE Tick
  BY <1>13 DEF TypeOK, Timely, LiveRunKept, Tick, RunMayWait, Age, Wait, Earlier, Count,
    Awake, Off, Owned, Loop
<1>14. CASE Beat
  BY <1>14 DEF TypeOK, Timely, LiveRunKept, Beat, Off, Awake, idle, process, sweeper,
    Owned, Loop
<1>15. CASE BeatLands
  BY <1>15 DEF TypeOK, Timely, LiveRunKept, BeatLands, Off, Fenced, idle, process,
    sweeper, Owned, Loop
<1>16. CASE BeatFails
  BY <1>16 DEF TypeOK, Timely, LiveRunKept, BeatFails, Off, idle, process, sweeper,
    Owned, Loop
<1>17. CASE Watchdog
  BY <1>17 DEF TypeOK, Timely, LiveRunKept, Watchdog, Awake, Exit, Goto, Off, sweeper,
    Owned, Loop
<1>18. CASE Close
  BY <1>18 DEF TypeOK, Timely, LiveRunKept, Close, Awake, Exit, Goto, Off, sweeper,
    Owned, Loop
<1>19. CASE RunThrows
  BY <1>19 DEF TypeOK, Timely, LiveRunKept, RunThrows, Owned, Awake, Goto, Off, Abandon,
    process, sweeper, Loop, Stamp, Fenced
<1>20. CASE Crash
  BY <1>20 DEF TypeOK, Timely, LiveRunKept, Crash, Awake, Exit, Abandon, Goto, Off,
    sweeper, Stamp, Fenced, Owned, Loop
<1>21. CASE Signal
  BY <1>21 DEF TypeOK, Timely, LiveRunKept, Signal, Awake, Drain, Off, Exit, sweeper,
    Goto, Owned, Loop
<1>22. CASE Freeze
  BY <1>22 DEF TypeOK, Timely, LiveRunKept, Freeze, runner, sweeper, Off, Owned, Loop
<1>23. CASE Thaw
  BY <1>23 DEF TypeOK, Timely, LiveRunKept, Thaw, runner, sweeper, Off, Owned, Loop
<1>24. CASE SweepTick
  BY <1>24 DEF TypeOK, Timely, LiveRunKept, SweepTick, sweepIdle, runner, process, Off,
    Owned, Loop
<1>25. CASE SweepStatement
  BY <1>25 DEF TypeOK, Timely, LiveRunKept, SweepStatement, Catches, runner, process,
    Off, Owned, Loop
<1>26. CASE SweepFails
  BY <1>26 DEF TypeOK, Timely, LiveRunKept, SweepFails, sweepIdle, runner, process, Off,
    Owned, Loop
<1>27. CASE UNCHANGED vars
  BY <1>27 DEF vars, Timely, runner, process
<1> QED
  BY <1>1, <1>2, <1>3, <1>4, <1>5, <1>6, <1>7, <1>8, <1>9, <1>10, <1>11, <1>12, <1>13,
    <1>14, <1>15, <1>16, <1>17, <1>18, <1>19, <1>20, <1>21, <1>22, <1>23, <1>24, <1>25,
    <1>26, <1>27, NextCases

(* Every step keeps the bound on the age.                                  *)
LEMMA AgeStep ==
  ASSUME IInv, [Next]_vars
  PROVE  AgeBound'
<1> USE TimesAreNat, LatencyAssumption DEF IInv
<1>1. CASE Acquire
  BY <1>1 DEF TypeOK, Timely, AgeBound, LiveRunKept, Slip, Acquire, Awake, Goto, idle,
    process, sweeper, Off, Owned, Loop
<1>2. CASE MarkRunning
  BY <1>2 DEF TypeOK, Timely, AgeBound, LiveRunKept, Slip, MarkRunning, Awake, Stamp,
    Goto, Fenced, idle, process, sweeper, Off, Owned, Loop
<1>3. CASE Recount
  BY <1>3 DEF TypeOK, Timely, AgeBound, LiveRunKept, Slip, Recount, Awake, Stamp,
    Fenced, Goto, LeaveLoop, idle, Off, process, sweeper, Owned, Loop
<1>4. CASE FetchRows
  BY <1>4 DEF TypeOK, Timely, AgeBound, LiveRunKept, Slip, FetchRows, Awake, LeaveLoop,
    Goto, idle, Off, process, sweeper, Owned, Loop
<1>5. CASE OpTimesOut
  BY <1>5 DEF TypeOK, Timely, AgeBound, LiveRunKept, Slip, OpTimesOut, Awake, Wait,
    OpEnds, Goto, idle, process, sweeper, Off, Owned, Loop
<1>6. CASE OpAnswers
  BY <1>6 DEF TypeOK, Timely, AgeBound, LiveRunKept, Slip, OpAnswers, Awake, OpEnds,
    Goto, idle, process, sweeper, Off, Owned, Loop
<1>7. CASE SettleRow
  BY <1>7 DEF TypeOK, Timely, AgeBound, LiveRunKept, Slip, SettleRow, Awake, Fenced,
    LeaveLoop, Goto, idle, Off, process, sweeper, Owned, Loop
<1>8. CASE AdvanceProgress
  BY <1>8 DEF TypeOK, Timely, AgeBound, LiveRunKept, Slip, AdvanceProgress, Awake,
    Stamp, Fenced, LeaveLoop, LoopTop, Goto, idle, Off, process, sweeper, Owned, Loop
<1>9. CASE BackOffBeforeRetry
  BY <1>9 DEF TypeOK, Timely, AgeBound, LiveRunKept, Slip, BackOffBeforeRetry, Awake,
    LoopTop, idle, Goto, LeaveLoop, process, sweeper, Off, Owned, Loop
<1>10. CASE FinalRecount
  BY <1>10 DEF TypeOK, Timely, AgeBound, LiveRunKept, Slip, FinalRecount, Awake, Stamp,
    Fenced, Goto, idle, process, sweeper, Off, Owned, Loop
<1>11. CASE CountRows
  BY <1>11 DEF TypeOK, Timely, AgeBound, LiveRunKept, Slip, CountRows, Awake, Goto,
    idle, process, sweeper, Off, Owned, Loop
<1>12. CASE Verdict
  BY <1>12 DEF TypeOK, Timely, AgeBound, LiveRunKept, Slip, Verdict, Awake, Fenced,
    Goto, process, sweeper, Off, Owned, Loop
<1>13. CASE Tick
  BY <1>13 DEF TypeOK, Timely, AgeBound, LiveRunKept, Slip, Tick, RunMayWait, Age, Wait,
    Earlier, Count, Awake, Off, Owned, Loop
<1>14. CASE Beat
  BY <1>14 DEF TypeOK, Timely, AgeBound, LiveRunKept, Slip, Beat, Off, Awake, idle,
    process, sweeper, Owned, Loop
<1>15. CASE BeatLands
  BY <1>15 DEF TypeOK, Timely, AgeBound, LiveRunKept, Slip, BeatLands, Off, Fenced,
    idle, process, sweeper, Owned, Loop
<1>16. CASE BeatFails
  BY <1>16 DEF TypeOK, Timely, AgeBound, LiveRunKept, Slip, BeatFails, Off, idle,
    process, sweeper, Owned, Loop
<1>17. CASE Watchdog
  BY <1>17 DEF TypeOK, Timely, AgeBound, LiveRunKept, Slip, Watchdog, Awake, Exit, Goto,
    Off, sweeper, Owned, Loop
<1>18. CASE Close
  BY <1>18 DEF TypeOK, Timely, AgeBound, LiveRunKept, Slip, Close, Awake, Exit, Goto,
    Off, sweeper, Owned, Loop
<1>19. CASE RunThrows
  BY <1>19 DEF TypeOK, Timely, AgeBound, LiveRunKept, Slip, RunThrows, Owned, Awake,
    Goto, Off, Abandon, process, sweeper, Loop, Stamp, Fenced
<1>20. CASE Crash
  BY <1>20 DEF TypeOK, Timely, AgeBound, LiveRunKept, Slip, Crash, Awake, Exit, Abandon,
    Goto, Off, sweeper, Stamp, Fenced, Owned, Loop
<1>21. CASE Signal
  BY <1>21 DEF TypeOK, Timely, AgeBound, LiveRunKept, Slip, Signal, Awake, Drain, Off,
    Exit, sweeper, Goto, Owned, Loop
<1>22. CASE Freeze
  BY <1>22 DEF TypeOK, Timely, AgeBound, LiveRunKept, Slip, Freeze, runner, sweeper,
    Off, Owned, Loop
<1>23. CASE Thaw
  BY <1>23 DEF TypeOK, Timely, AgeBound, LiveRunKept, Slip, Thaw, runner, sweeper, Off,
    Owned, Loop
<1>24. CASE SweepTick
  BY <1>24 DEF TypeOK, Timely, AgeBound, LiveRunKept, Slip, SweepTick, sweepIdle,
    runner, process, Off, Owned, Loop
<1>25. CASE SweepStatement
  BY <1>25 DEF TypeOK, Timely, AgeBound, LiveRunKept, Slip, SweepStatement, Catches,
    runner, process, Off, Owned, Loop
<1>26. CASE SweepFails
  BY <1>26 DEF TypeOK, Timely, AgeBound, LiveRunKept, Slip, SweepFails, sweepIdle,
    runner, process, Off, Owned, Loop
<1>27. CASE UNCHANGED vars
  BY <1>27 DEF vars, AgeBound, Slip, runner, process
<1> QED
  BY <1>1, <1>2, <1>3, <1>4, <1>5, <1>6, <1>7, <1>8, <1>9, <1>10, <1>11, <1>12, <1>13,
    <1>14, <1>15, <1>16, <1>17, <1>18, <1>19, <1>20, <1>21, <1>22, <1>23, <1>24, <1>25,
    <1>26, <1>27, NextCases

(* No other step takes a claim, and none but markRunning's hit makes an    *)
(* owner of a run.                                                         *)
LEMMA ClaimMoves ==
  ASSUME IInv, [Next]_vars, ~SweepStatement
  PROVE  LiveRunKept'
<1> USE DEF IInv
<1>1. CASE Acquire
  BY <1>1 DEF TypeOK, LiveRunKept, Acquire, Awake, Goto, idle, process, sweeper, Owned,
    Loop
<1>2. CASE MarkRunning
  BY <1>2 DEF TypeOK, LiveRunKept, MarkRunning, Awake, Stamp, Goto, Fenced, idle,
    process, sweeper, Owned, Loop
<1>3. CASE Recount
  BY <1>3 DEF TypeOK, LiveRunKept, Recount, Awake, Stamp, Fenced, Goto, LeaveLoop, idle,
    Off, process, sweeper, Owned, Loop
<1>4. CASE FetchRows
  BY <1>4 DEF TypeOK, LiveRunKept, FetchRows, Awake, LeaveLoop, Goto, idle, Off,
    process, sweeper, Owned, Loop
<1>5. CASE OpTimesOut
  BY <1>5 DEF TypeOK, LiveRunKept, OpTimesOut, Awake, Wait, OpEnds, Goto, idle, process,
    sweeper, Owned, Loop
<1>6. CASE OpAnswers
  BY <1>6 DEF TypeOK, LiveRunKept, OpAnswers, Awake, OpEnds, Goto, idle, process,
    sweeper, Owned, Loop
<1>7. CASE SettleRow
  BY <1>7 DEF TypeOK, LiveRunKept, SettleRow, Awake, Fenced, LeaveLoop, Goto, idle, Off,
    process, sweeper, Owned, Loop
<1>8. CASE AdvanceProgress
  BY <1>8 DEF TypeOK, LiveRunKept, AdvanceProgress, Awake, Stamp, Fenced, LeaveLoop,
    LoopTop, Goto, idle, Off, process, sweeper, Owned, Loop
<1>9. CASE BackOffBeforeRetry
  BY <1>9 DEF TypeOK, LiveRunKept, BackOffBeforeRetry, Awake, LoopTop, idle, Goto,
    LeaveLoop, process, sweeper, Off, Owned, Loop
<1>10. CASE FinalRecount
  BY <1>10 DEF TypeOK, LiveRunKept, FinalRecount, Awake, Stamp, Fenced, Goto, idle,
    process, sweeper, Owned, Loop
<1>11. CASE CountRows
  BY <1>11 DEF TypeOK, LiveRunKept, CountRows, Awake, Goto, idle, process, sweeper,
    Owned, Loop
<1>12. CASE Verdict
  BY <1>12 DEF TypeOK, LiveRunKept, Verdict, Awake, Fenced, Goto, process, sweeper,
    Owned, Loop
<1>13. CASE Tick
  BY <1>13 DEF TypeOK, LiveRunKept, Tick, RunMayWait, Age, Wait, Earlier, Count, Awake,
    Off, Owned, Loop
<1>14. CASE Beat
  BY <1>14 DEF TypeOK, LiveRunKept, Beat, Off, Awake, idle, process, sweeper, Owned,
    Loop
<1>15. CASE BeatLands
  BY <1>15 DEF TypeOK, LiveRunKept, BeatLands, Off, Fenced, idle, process, sweeper,
    Owned, Loop
<1>16. CASE BeatFails
  BY <1>16 DEF TypeOK, LiveRunKept, BeatFails, Off, idle, process, sweeper, Owned, Loop
<1>17. CASE Watchdog
  BY <1>17 DEF TypeOK, LiveRunKept, Watchdog, Awake, Exit, Goto, Off, sweeper, Owned,
    Loop
<1>18. CASE Close
  BY <1>18 DEF TypeOK, LiveRunKept, Close, Awake, Exit, Goto, Off, sweeper, Owned, Loop
<1>19. CASE RunThrows
  BY <1>19 DEF TypeOK, LiveRunKept, RunThrows, Owned, Awake, Goto, Off, Abandon,
    process, sweeper, Loop, Stamp, Fenced
<1>20. CASE Crash
  BY <1>20 DEF TypeOK, LiveRunKept, Crash, Awake, Exit, Abandon, Goto, Off, sweeper,
    Stamp, Fenced, Owned, Loop
<1>21. CASE Signal
  BY <1>21 DEF TypeOK, LiveRunKept, Signal, Awake, Drain, Off, Exit, sweeper, Goto,
    Owned, Loop
<1>22. CASE Freeze
  BY <1>22 DEF TypeOK, LiveRunKept, Freeze, runner, sweeper, Owned, Loop
<1>23. CASE Thaw
  BY <1>23 DEF TypeOK, LiveRunKept, Thaw, runner, sweeper, Owned, Loop
<1>24. CASE SweepTick
  BY <1>24 DEF TypeOK, LiveRunKept, SweepTick, sweepIdle, runner, process, Owned, Loop
<1>25. CASE SweepFails
  BY <1>25 DEF TypeOK, LiveRunKept, SweepFails, sweepIdle, runner, process, Owned, Loop
<1>26. CASE UNCHANGED vars
  BY <1>26 DEF vars, LiveRunKept, runner, process
<1> QED
  BY <1>1, <1>2, <1>3, <1>4, <1>5, <1>6, <1>7, <1>8, <1>9, <1>10, <1>11, <1>12, <1>13,
    <1>14, <1>15, <1>16, <1>17, <1>18, <1>19, <1>20, <1>21, <1>22, <1>23, <1>24, <1>25,
    <1>26, NextCases

(* Only the sweeper takes a claim, and it sees no age above the one there  *)
(* is; a run enters the states of an owner with its claim.                 *)
LEMMA KeptStep ==
  ASSUME IInv, [Next]_vars
  PROVE  LiveRunKept'
<1>1. CASE SweepStatement
  <2>1. PICK e \in 0..sweepElapsed :
          IF claim = "held" /\ Catches(stage) /\ age - e > StaleAfter
          THEN claim' = "reclaimed" /\ age' = 0
          ELSE UNCHANGED <<claim, age>>
    BY <1>1 DEF SweepStatement
  <2>2. frozen' = frozen /\ pc' = pc
    BY <1>1 DEF SweepStatement, process, runner
  <2>3. CASE frozen = "no" /\ pc \in Owned /\ claim = "held"
    <3>1. age <= StaleAfter
      BY <2>3, BoundFits
    <3>2. age \in Nat /\ StaleAfter \in Nat /\ e \in Nat
      BY TimesAreNat DEF IInv, TypeOK
    <3>3. ~(age - e > StaleAfter)
      BY <3>1, <3>2
    <3>4. QED
      BY <2>1, <2>3, <3>3 DEF LiveRunKept
  <2>4. QED
    BY <2>1, <2>2, <2>3 DEF IInv, LiveRunKept
<1>2. CASE ~SweepStatement
  BY <1>2, ClaimMoves
<1>3. QED
  BY <1>1, <1>2

(* The invariant holds at the start and is kept.                           *)
LEMMA InvInit == Init => IInv
<1> SUFFICES ASSUME Init
             PROVE  IInv
  OBVIOUS
<1>1. pc \in {"boot", "gone"} /\ claim = "held" /\ due = Off /\ beat = Off /\ missed = FALSE
  BY DEF Init
<1>2. TypeOK
  <2>1. elapsed \in Nat /\ age \in Nat /\ ops \in Nat /\ sweepElapsed \in 0..Latency
        /\ sweepDue \in 0..SweepInterval /\ overlap \in Nat
    BY TimesAreNat DEF Init
  <2>2. sort \in Sort /\ pc \in PC /\ stage \in {"idle"} \cup Stages /\ halt = "no"
        /\ frozen = "no" /\ sweepMissed \in BOOLEAN /\ watch = Off /\ signalled = Off
    BY <1>1 DEF Init, PC
  <2>3. QED
    BY <1>1, <2>1, <2>2 DEF TypeOK
<1>3. Timely /\ LiveRunKept
  BY <1>1 DEF Timely, LiveRunKept, Owned, Loop
<1>4. AgeBound
  BY <1>1 DEF AgeBound, Loop
<1>5. QED
  BY <1>2, <1>3, <1>4 DEF IInv

LEMMA InvNext == IInv /\ [Next]_vars => IInv'
BY TypeStep, TimelyStep, AgeStep, KeptStep DEF IInv

(* Every state of every execution satisfies the strengthened invariant.    *)
THEOREM HeartbeatInvariant == Spec => []IInv
BY InvInit, InvNext, PTL DEF Spec

(* The variables have their types for every configuration.                 *)
THEOREM HeartbeatTypes == Spec => []TypeOK
BY HeartbeatInvariant, PTL DEF IInv

(* A live run is never reclaimed, for every configuration that passes the  *)
(* check of sweepConfig (sweep.config.ts:22-26).                           *)
THEOREM LiveRunsKeepTheirClaim == Spec => []LiveRunKept
BY HeartbeatInvariant, PTL DEF IInv

-----------------------------------------------------------------------------
(* The bounds on the sweeper, on a lost claim and on a drain.              *)

Sweeps == SweepTick \/ SweepStatement \/ SweepFails

(* A step of the run or of its process leaves the sweeper alone; it stays  *)
(* at its await or begins another one.                                     *)
LEMMA RunMoves ==
  ASSUME [Next]_vars, ~Tick, ~Sweeps
  PROVE  /\ UNCHANGED sweeper /\ sort' = sort /\ overlap' = overlap
         /\ elapsed' = 0 \/ UNCHANGED <<pc, elapsed>>
<1>1. CASE Acquire \/ MarkRunning \/ Recount \/ FetchRows \/ OpTimesOut \/ OpAnswers
           \/ SettleRow \/ AdvanceProgress \/ BackOffBeforeRetry \/ FinalRecount
           \/ CountRows \/ Verdict
  BY <1>1 DEF Acquire, MarkRunning, Recount, FetchRows, OpTimesOut, OpAnswers, OpEnds,
     SettleRow, AdvanceProgress, BackOffBeforeRetry, FinalRecount, CountRows, Verdict,
     LeaveLoop, LoopTop, Goto, idle, process, sweeper
<1>2. CASE Beat \/ BeatLands \/ BeatFails \/ Signal \/ Freeze \/ Thaw
  BY <1>2 DEF Beat, BeatLands, BeatFails, Signal, Drain, Exit, Goto, Freeze, Thaw, idle,
     runner, process, sweeper
<1>3. CASE Watchdog \/ Close \/ RunThrows \/ Crash
  BY <1>3 DEF Watchdog, Close, RunThrows, Crash, Exit, Goto, process, sweeper
<1>4. CASE UNCHANGED vars
  BY <1>4 DEF vars, runner, sweeper
<1> QED
  BY <1>1, <1>2, <1>3, <1>4, NextCases DEF Sweeps

(* What the steps of the sweeper leave alone.                              *)
LEMMA SweepMoves ==
  ASSUME Sweeps
  PROVE  UNCHANGED <<sort, pc, elapsed, due, beat, missed, halt, watch, frozen, signalled, overlap>>
  BY DEF Sweeps, SweepTick, SweepStatement, SweepFails, sweepIdle, runner, process

LEMMA AnsweredStep ==
  ASSUME TypeOK, Answered, [Next]_vars
  PROVE  Answered'
<1> USE TimesAreNat
<1> DEFINE Armed == pc' \notin Loop => due' = Off
           Asked == pc' \in (Owned \cup {"mark"}) \ {"op", "backoff"} => elapsed' <= Latency
           Rests == stage' = "idle" => sweepElapsed' = 0
<1>1. CASE Tick
  BY <1>1 DEF TypeOK, Answered, Tick, Wait, Earlier, Count, Owned, Loop, Stages, Off
<1>2. CASE Sweeps
  <2>1. Rests
    BY <1>2 DEF Answered, Sweeps, SweepTick, SweepStatement, SweepFails
  <2> QED BY <1>2, <2>1, SweepMoves DEF Answered
<1>3. CASE ~Tick /\ ~Sweeps
  <2>1. Asked /\ Rests
    BY <1>3, RunMoves DEF Answered, sweeper
  <2>2. Armed
    <3>1. CASE Acquire \/ MarkRunning \/ Recount \/ FetchRows \/ OpTimesOut \/ OpAnswers
      BY <3>1 DEF Answered, Acquire, MarkRunning, Recount, FetchRows, OpTimesOut, OpAnswers,
         OpEnds, LeaveLoop, Goto, Loop
    <3>2. CASE SettleRow \/ AdvanceProgress \/ BackOffBeforeRetry \/ FinalRecount \/ CountRows
               \/ Verdict
      BY <3>2 DEF Answered, SettleRow, AdvanceProgress, BackOffBeforeRetry, FinalRecount,
         CountRows, Verdict, LeaveLoop, LoopTop, Goto, Loop
    <3>3. CASE Beat \/ BeatLands \/ BeatFails \/ Freeze \/ Thaw \/ UNCHANGED vars
      BY <3>3 DEF Answered, Beat, BeatLands, BeatFails, Freeze, Thaw, vars, runner, Off
    <3>4. CASE Watchdog \/ Close \/ RunThrows \/ Crash \/ Signal
      BY <3>4 DEF Answered, Watchdog, Close, RunThrows, Crash, Signal, Drain, Exit, Goto, Loop
    <3> QED BY <1>3, <3>1, <3>2, <3>3, <3>4, NextCases DEF Sweeps
  <2> QED BY <2>1, <2>2 DEF Answered
<1> QED BY <1>1, <1>2, <1>3

LEMMA WatchdogStep ==
  ASSUME TypeOK, WatchdogSet, [Next]_vars
  PROVE  WatchdogSet'
<1> USE TimesAreNat
<1>1. CASE Tick
  BY <1>1 DEF TypeOK, WatchdogSet, Tick, RunMayWait, Awake, Age, Earlier, Count, Off
<1>2. CASE Signal
  BY <1>2 DEF TypeOK, WatchdogSet, Signal, Drain, Exit, Goto, Awake, Off
<1>3. CASE Watchdog \/ Close \/ Crash
  BY <1>3 DEF WatchdogSet, Watchdog, Close, Crash, Exit, Goto
<1>4. CASE Freeze \/ Thaw
  BY <1>4 DEF WatchdogSet, Freeze, Thaw
<1>5. CASE Sweeps
  BY <1>5, SweepMoves DEF WatchdogSet
<1>6. ASSUME UNCHANGED process, pc = "gone" => pc' = "gone" PROVE WatchdogSet'
  BY <1>6 DEF WatchdogSet, process
<1>7. CASE Acquire \/ MarkRunning \/ Recount \/ FetchRows \/ OpTimesOut \/ OpAnswers
           \/ SettleRow \/ AdvanceProgress \/ BackOffBeforeRetry \/ FinalRecount
           \/ CountRows \/ Verdict
  BY <1>6, <1>7 DEF Acquire, MarkRunning, Recount, FetchRows, OpTimesOut, OpAnswers, OpEnds,
     SettleRow, AdvanceProgress, BackOffBeforeRetry, FinalRecount, CountRows, Verdict, idle,
     Awake
<1>8. CASE Beat \/ BeatLands \/ BeatFails \/ RunThrows \/ UNCHANGED vars
  BY <1>6, <1>8 DEF Beat, BeatLands, BeatFails, RunThrows, idle, vars, runner, Awake
<1> QED
  BY <1>1, <1>2, <1>3, <1>4, <1>5, <1>7, <1>8, NextCases DEF Sweeps

(* Whatever a step of the run writes is younger than a statement may take. *)
LEMMA AgeMoves ==
  ASSUME TypeOK, Answered, [Next]_vars, ~Tick, ~Sweeps, claim' = "held"
  PROVE  claim = "held" /\ (age' = age \/ age' <= Latency)
<1> USE TimesAreNat
<1>s. ASSUME Stamp, pc \in {"mark", "recount", "advance", "final"}
      PROVE  age' = age \/ age' <= Latency
  BY <1>s DEF TypeOK, Answered, Stamp, Owned, Loop
<1>1. CASE MarkRunning \/ Recount \/ AdvanceProgress \/ FinalRecount
  BY <1>1, <1>s DEF MarkRunning, Recount, AdvanceProgress, FinalRecount, idle
<1>2. CASE Acquire \/ FetchRows \/ OpTimesOut \/ OpAnswers \/ SettleRow
           \/ BackOffBeforeRetry \/ CountRows
  BY <1>2 DEF Acquire, FetchRows, OpTimesOut, OpAnswers, OpEnds, SettleRow,
     BackOffBeforeRetry, CountRows, idle
<1>3. CASE Verdict
  BY <1>3 DEF Verdict, Fenced
<1>4. CASE BeatLands
  <2>1. beat \in 0..Latency
    BY <1>4 DEF TypeOK, BeatLands
  <2> QED BY <1>4, <2>1 DEF BeatLands, idle
<1>5. CASE Beat \/ BeatFails \/ Signal \/ Freeze \/ Thaw
  BY <1>5 DEF Beat, BeatFails, Signal, Drain, Freeze, Thaw, idle
<1>6. CASE RunThrows \/ Crash
  <2>1. Abandon
    BY <1>6 DEF RunThrows, Crash
  <2> QED BY <2>1, <1>s DEF Abandon, Fenced
<1>7. CASE Watchdog \/ Close \/ UNCHANGED vars
  BY <1>7 DEF Watchdog, Close, vars
<1> QED
  BY <1>1, <1>2, <1>3, <1>4, <1>5, <1>6, <1>7, NextCases DEF Sweeps

(* The beat timer is stopped or left alone but by beginRun and the beats,  *)
(* and a lost claim is not forgotten while it runs.                        *)
LEMMA TimerMoves ==
  ASSUME TypeOK, Timely, [Next]_vars, ~Tick, ~Recount, ~Beat, ~BeatLands, ~BeatFails
  PROVE  /\ due' = due \/ due' = Off
         /\ UNCHANGED <<beat, missed>>
         /\ due' # Off /\ halt' # "lost" => halt # "lost"
<1>1. CASE Acquire \/ MarkRunning \/ FetchRows \/ OpTimesOut \/ OpAnswers \/ FinalRecount
           \/ CountRows \/ Verdict
  BY <1>1 DEF Acquire, MarkRunning, FetchRows, OpTimesOut, OpAnswers, OpEnds, FinalRecount,
     CountRows, Verdict, LeaveLoop
<1>2. CASE SettleRow \/ AdvanceProgress \/ BackOffBeforeRetry
  BY <1>2 DEF SettleRow, AdvanceProgress, BackOffBeforeRetry, LeaveLoop, LoopTop
<1>3. CASE Watchdog \/ Close \/ RunThrows \/ Crash \/ Signal
  BY <1>3 DEF Watchdog, Close, RunThrows, Crash, Signal, Drain, Exit
<1>4. CASE Freeze \/ Thaw \/ SweepTick \/ SweepStatement \/ SweepFails \/ UNCHANGED vars
  BY <1>4, SweepMoves DEF Freeze, Thaw, Sweeps, vars, runner
<1> QED
  BY <1>1, <1>2, <1>3, <1>4, NextCases

LEMMA Slack ==
  ASSUME NEW a \in Nat, NEW l \in Nat, NEW h \in Nat, NEW d \in 0..h, a <= l
  PROVE  a <= l + (h - d)
OBVIOUS

LEMMA BeatSpeaksStep ==
  ASSUME TypeOK, Timely, Answered, BeatSpeaks, [Next]_vars
  PROVE  BeatSpeaks'
<1> USE TimesAreNat
<1>1. CASE Tick
  BY <1>1 DEF TypeOK, BeatSpeaks, Tick, Age, Earlier, Count, Off
<1>2. CASE SweepStatement
  <2>1. claim' = "held" => claim = "held" /\ age' = age
    BY <1>2 DEF SweepStatement
  <2> QED BY <1>2, <2>1, SweepMoves DEF BeatSpeaks, Sweeps
<1>3. CASE SweepTick \/ SweepFails
  BY <1>3, SweepMoves DEF BeatSpeaks, Sweeps, SweepTick, SweepFails, sweepIdle
<1>4. CASE ~Tick /\ ~Sweeps
  <2> SUFFICES ASSUME claim' = "held", due' > 0, beat' = Off, ~missed'
               PROVE  age' <= Latency + (HeartbeatInterval - due')
    BY DEF BeatSpeaks
  <2>1. claim = "held" /\ (age' = age \/ age' <= Latency)
    BY <1>4, AgeMoves
  <2>2. due' \in 0..HeartbeatInterval /\ age' \in Nat
    BY TypeStep DEF TypeOK, Off
  <2>3. CASE age' <= Latency
    BY <2>2, <2>3, Slack
  <2>4. CASE age' = age
    <3>1. CASE Recount
      <4>1. elapsed \in Nat /\ elapsed <= Latency /\ age' \in 0..elapsed
        BY <2>1, <3>1 DEF Recount, Stamp, Answered, TypeOK, Owned
      <4>2. age' <= Latency
        BY <4>1
      <4> QED BY <2>3, <4>2
    <3>2. CASE Beat \/ BeatFails
      BY <3>2 DEF Beat, BeatFails, TypeOK, Off
    <3>3. CASE BeatLands
      <4>1. beat \in 0..Latency /\ age' \in 0..beat
        BY <2>1, <3>3 DEF TypeOK, BeatLands
      <4>2. age' <= Latency
        BY <4>1
      <4> QED BY <2>3, <4>2
    <3>4. CASE ~(Recount \/ Beat \/ BeatLands \/ BeatFails)
      <4>1. (due' = due \/ due' = Off) /\ UNCHANGED <<beat, missed>>
        BY <1>4, <3>4, TimerMoves
      <4>2. due' = due
        BY <4>1 DEF Off
      <4>3. beat = Off /\ ~missed
        BY <4>1
      <4>4. age <= Latency + (HeartbeatInterval - due)
        BY <2>1, <4>2, <4>3 DEF BeatSpeaks
      <4> QED BY <2>4, <4>2, <4>4
    <3> QED BY <3>1, <3>2, <3>3, <3>4
  <2> QED BY <2>1, <2>3, <2>4
<1> QED BY <1>1, <1>2, <1>3, <1>4 DEF Sweeps

(* The wait for the notice is never negative.                              *)
LEMMA NoticedNat ==
  ASSUME TypeOK, due # Off
  PROVE  /\ NoticedWithin \in Nat
         /\ beat # Off \/ missed \/ due = 0 => NoticedWithin <= HeartbeatInterval + Latency
  BY TimesAreNat DEF TypeOK, NoticedWithin, Off

LEMMA Countdown ==
  ASSUME NEW o \in Nat, NEW p \in Nat, NEW m \in Nat, NEW n \in Nat, NEW k,
         p <= o + 1, n + 1 = k, o + k <= m
  PROVE  p + n <= m /\ p <= m
OBVIOUS

(* A lost claim stays lost, and only the sweeper takes one.                *)
LEMMA ClaimLost ==
  ASSUME [Next]_vars
  PROVE  /\ claim = "reclaimed" => claim' = "reclaimed"
         /\ claim' = "reclaimed" => claim = "reclaimed" \/ SweepStatement
<1>1. CASE Verdict \/ RunThrows \/ Crash
  BY <1>1 DEF Verdict, RunThrows, Crash, Abandon, Fenced
<1>2. CASE SweepStatement
  BY <1>2 DEF SweepStatement
<1>3. CASE Acquire \/ MarkRunning \/ Recount \/ FetchRows \/ OpTimesOut \/ OpAnswers
           \/ SettleRow \/ AdvanceProgress \/ BackOffBeforeRetry \/ FinalRecount \/ CountRows
  BY <1>3 DEF Acquire, MarkRunning, Recount, FetchRows, OpTimesOut, OpAnswers, OpEnds,
     SettleRow, AdvanceProgress, BackOffBeforeRetry, FinalRecount, CountRows, idle
<1>4. CASE Beat \/ BeatLands \/ BeatFails \/ Tick \/ Watchdog \/ Close \/ Signal
  BY <1>4 DEF Beat, BeatLands, BeatFails, Tick, Watchdog, Close, Signal, Drain, idle
<1>5. CASE Freeze \/ Thaw \/ SweepTick \/ SweepFails \/ UNCHANGED vars
  BY <1>5 DEF Freeze, Thaw, SweepTick, SweepFails, sweepIdle, vars
<1> QED
  BY <1>1, <1>2, <1>3, <1>4, <1>5, NextCases

(* When a claim is taken, its run is at most a beat and a lost one away    *)
(* from the notice.                                                        *)
LEMMA TakenLate ==
  ASSUME TypeOK, BeatSpeaks, SweepStatement, claim = "held", claim' = "reclaimed", due # Off
  PROVE  NoticedWithin <= HeartbeatInterval + Latency
<1> SUFFICES ASSUME beat = Off, ~missed, due # 0 PROVE FALSE
  BY NoticedNat
<1>1. due \in 1..HeartbeatInterval
  BY DEF TypeOK, Off
<1>2. age \in Nat /\ age <= Latency + (HeartbeatInterval - due)
  BY <1>1, TimesAreNat DEF TypeOK, BeatSpeaks
<1>3. PICK e \in 0..sweepElapsed : age - e > StaleAfter
  BY DEF SweepStatement
<1>4. e \in Nat
  BY DEF TypeOK
<1>5. age > StaleAfter
  BY <1>2, <1>3, <1>4, TimesAreNat
<1>6. age <= Latency + HeartbeatInterval
  BY <1>1, <1>2, TimesAreNat
<1>7. 2 * Latency <= HeartbeatInterval /\ StaleAfter >= 3 * HeartbeatInterval
  BY StaleAssumption, LatencyAssumption DEF ToleratesMissedBeats
<1> QED BY <1>2, <1>5, <1>6, <1>7, TimesAreNat

LEMMA LossStep ==
  ASSUME TypeOK, Timely, Answered, BeatSpeaks, LossNoticed, OverlapIsShort, [Next]_vars
  PROVE  LossNoticed' /\ OverlapIsShort'
<1> USE TimesAreNat
<1> DEFINE Most == HeartbeatInterval + Latency
<1>o. overlap \in Nat /\ overlap <= Most
  BY DEF TypeOK, OverlapIsShort
<1>1. CASE Tick
  <2>1. claim' = claim /\ halt' = halt /\ missed' = missed
    BY <1>1 DEF Tick
  <2>2. CASE overlap' = overlap
    <3>1. due' # Off => due # Off /\ due' <= due
      BY <1>1 DEF TypeOK, Tick, Count, Off
    <3>2. beat' # Off => beat # Off /\ beat <= beat'
      BY <1>1 DEF TypeOK, Tick, Age, Earlier, Off
    <3>3. beat # Off <=> beat' # Off
      BY <1>1 DEF TypeOK, Tick, Age, Earlier, Off
    <3>4. due' # Off => NoticedWithin' <= NoticedWithin
      BY <2>1, <3>1, <3>2, <3>3, TypeStep DEF TypeOK, NoticedWithin, Off
    <3>5. due' # Off => NoticedWithin \in Nat /\ NoticedWithin' \in Nat
      BY <3>1, NoticedNat, TypeStep DEF TypeOK, NoticedWithin, Off
    <3> QED
      BY <1>o, <2>1, <2>2, <3>1, <3>4, <3>5 DEF LossNoticed, OverlapIsShort
  <2>3. CASE overlap' # overlap
    <3>1. /\ claim = "reclaimed" /\ Awake /\ due # Off /\ halt # "lost"
          /\ overlap' <= overlap + 1
      BY <1>o, <1>1, <2>3 DEF Tick, Earlier
    <3>2. /\ due \in 1..HeartbeatInterval /\ due' = due - 1
          /\ beat = Off => beat' = Off
          /\ beat # Off => beat \in 0..Latency - 1 /\ beat' = beat + 1
      BY <1>1, <3>1 DEF TypeOK, Tick, RunMayWait, Awake, Age, Earlier, Count, Off
    <3>3. NoticedWithin' + 1 = NoticedWithin
      BY <2>1, <3>2 DEF TypeOK, NoticedWithin, Off
    <3>4. NoticedWithin' \in Nat /\ overlap' \in Nat
      BY <3>2, TypeStep, NoticedNat DEF TypeOK, NoticedWithin, Off
    <3>5. overlap + NoticedWithin <= Most
      BY <3>1 DEF LossNoticed
    <3>6. overlap' + NoticedWithin' <= Most /\ overlap' <= Most
      <4>1. Most \in Nat /\ overlap \in Nat
        BY <1>o
      <4> HIDE DEF Most
      <4> QED BY <3>1, <3>3, <3>4, <3>5, <4>1, Countdown
    <3>7. OverlapIsShort'
      BY <3>6 DEF OverlapIsShort
    <3>8. LossNoticed'
      <4>1. claim' = "reclaimed"
        BY <2>1, <3>1
      <4> QED BY <3>6, <4>1 DEF LossNoticed
    <3> QED BY <3>7, <3>8
  <2> QED BY <2>2, <2>3
<1>2. CASE ~Tick
  <2>1. overlap' = overlap
    BY <1>2, RunMoves, SweepMoves
  <2>2. OverlapIsShort'
    BY <1>o, <2>1 DEF OverlapIsShort
  <2>3. claim' # "reclaimed" => overlap' = 0
    BY <2>1, ClaimLost DEF LossNoticed
  <2> SUFFICES ASSUME claim' = "reclaimed", due' # Off, halt' # "lost"
               PROVE  overlap' + NoticedWithin' <= Most
    BY <2>2, <2>3 DEF LossNoticed
  <2>4. CASE claim # "reclaimed"
    <3>1. SweepStatement /\ overlap = 0
      BY <2>4, ClaimLost DEF LossNoticed
    <3>2. claim = "held" /\ due # Off /\ NoticedWithin' = NoticedWithin
      BY <2>4, <3>1, SweepMoves DEF SweepStatement, Sweeps, NoticedWithin
    <3>3. NoticedWithin <= Most /\ NoticedWithin \in Nat
      BY <3>1, <3>2, TakenLate, NoticedNat
    <3> QED BY <2>1, <3>1, <3>2, <3>3
  <2>5. CASE claim = "reclaimed"
    <3>1. ASSUME due # Off, halt # "lost", NoticedWithin' = NoticedWithin
          PROVE  overlap' + NoticedWithin' <= Most
      BY <2>1, <2>5, <3>1 DEF LossNoticed
    <3>2. CASE Recount
      BY <2>5, <3>2 DEF Recount, Fenced
    <3>3. CASE Beat
      <4>1. /\ due = 0 /\ due' = HeartbeatInterval /\ beat = Off /\ beat' = 0
            /\ halt' = halt /\ missed' = missed
        BY <3>3 DEF Beat
      <4>2. NoticedWithin' = NoticedWithin
        BY <4>1 DEF NoticedWithin, Off
      <4> QED BY <3>1, <4>1, <4>2 DEF Off
    <3>4. CASE BeatLands
      <4>1. pc # "gone"
        BY <3>4 DEF BeatLands, Answered, Loop
      <4> QED BY <2>5, <3>4, <4>1 DEF BeatLands, Fenced
    <3>5. CASE BeatFails
      <4>1. /\ due' = due /\ beat # Off /\ beat' = Off /\ halt' = halt
            /\ ~missed /\ missed'
        BY <3>5 DEF BeatFails
      <4>2. NoticedWithin' = NoticedWithin
        BY <4>1 DEF NoticedWithin, Off
      <4> QED BY <3>1, <4>1, <4>2
    <3>6. CASE ~(Recount \/ Beat \/ BeatLands \/ BeatFails)
      <4>1. due' = due /\ UNCHANGED <<beat, missed>> /\ halt # "lost"
        BY <1>2, <3>6, TimerMoves
      <4>2. NoticedWithin' = NoticedWithin
        BY <4>1 DEF NoticedWithin
      <4> QED BY <3>1, <4>1, <4>2
    <3> QED BY <3>2, <3>3, <3>4, <3>5, <3>6
  <2> QED BY <2>4, <2>5
<1> QED BY <1>1, <1>2

(* What is left of the threshold, two intervals and a sweep: the numbers.  *)
LEMMA SweepNumbers ==
  /\ SweepInterval \in Nat /\ Latency \in Nat /\ StaleAfter \in Nat
  /\ 0 < SweepInterval /\ 3 * Latency < 2 * SweepInterval /\ Latency <= StaleAfter
<1>1. 2 * Latency <= HeartbeatInterval /\ StaleAfter >= 3 * HeartbeatInterval
  BY StaleAssumption, LatencyAssumption DEF ToleratesMissedBeats
<1> QED BY <1>1, TimesAreNat, LatencyAssumption

LEMMA SweepStep ==
  ASSUME TypeOK, Answered, SweepOnTime, [Next]_vars
  PROVE  SweepOnTime'
<1> SUFFICES ASSUME claim' = "held" PROVE SweepOnTime'
  BY DEF SweepOnTime
<1> USE SweepNumbers
<1>t. /\ age \in Nat /\ sweepDue \in 0..SweepInterval /\ sweepElapsed \in 0..Latency
      /\ stage \in {"idle"} \cup Stages /\ sweepMissed \in BOOLEAN /\ sort \in Sort
  BY DEF TypeOK
<1>h. claim = "held"
  <2>1. CASE Tick
    BY <2>1 DEF Tick
  <2>2. CASE Sweeps
    BY <2>2 DEF Sweeps, SweepTick, SweepStatement, SweepFails, sweepIdle
  <2> QED BY <2>1, <2>2, AgeMoves
<1>g. Grace \in {2 * SweepInterval, 4 * SweepInterval}
  BY DEF Grace
<1>b. Behind \in {0, Latency, 2 * Latency}
  BY DEF Behind
<1>i. stage = "idle" => age <= StaleAfter + Grace - sweepDue
  BY <1>h DEF SweepOnTime
<1>w. ASSUME stage # "idle"
      PROVE  \E t \in SweepBegan :
               /\ sweepElapsed <= t /\ t <= Behind + sweepElapsed
               /\ age <= StaleAfter + t + (IF LookedAt THEN 0 ELSE Grace)
  BY <1>h, <1>w DEF SweepOnTime
<1>1. CASE Tick
  <2>1. /\ stage' = stage /\ sort' = sort /\ sweepMissed' = sweepMissed
        /\ sweepDue > 0 /\ sweepDue' = sweepDue - 1
        /\ sweepElapsed' = IF stage = "idle" THEN 0 ELSE sweepElapsed + 1
        /\ age' <= age + 1 /\ age' \in Nat
    BY <1>1, <1>h, <1>t, TimesAreNat DEF Tick, Age, Earlier, Off
  <2>2. Grace' = Grace /\ Behind' = Behind /\ LookedAt' = LookedAt
    BY <2>1 DEF Grace, Behind, LookedAt
  <2>3. CASE stage = "idle"
    BY <1>t, <1>g, <1>i, <2>1, <2>2, <2>3 DEF SweepOnTime
  <2>4. CASE stage # "idle"
    <3>1. PICK t \in SweepBegan :
            /\ sweepElapsed <= t /\ t <= Behind + sweepElapsed
            /\ age <= StaleAfter + t + (IF LookedAt THEN 0 ELSE Grace)
      BY <1>w, <2>4
    <3>2. t + 1 \in SweepBegan' /\ t \in Int
      BY <1>t, <2>1 DEF SweepBegan
    <3>3. /\ sweepElapsed' <= t + 1 /\ t + 1 <= Behind' + sweepElapsed'
          /\ age' <= StaleAfter + (t + 1) + (IF LookedAt' THEN 0 ELSE Grace')
      BY <1>t, <1>g, <1>b, <2>1, <2>2, <2>4, <3>1, <3>2
    <3> QED BY <2>1, <2>4, <3>2, <3>3 DEF SweepOnTime
  <2> QED BY <2>3, <2>4
<1>2. CASE SweepTick
  <2>1. /\ sort' = sort /\ sweepMissed' = sweepMissed /\ age' = age
        /\ sweepElapsed' = sweepElapsed /\ sweepDue = 0 /\ sweepDue' = SweepInterval
        /\ stage' = IF stage = "idle" THEN "reclaim" ELSE stage
    BY <1>2 DEF SweepTick, sweepIdle
  <2>2. Grace' = Grace
    BY <2>1 DEF Grace
  <2>3. CASE stage = "idle"
    <3>1. sweepElapsed' = 0 /\ ~LookedAt' /\ Behind' = 0 /\ stage' # "idle"
      BY <2>1, <2>3 DEF Answered, LookedAt, Behind
    <3>2. 0 \in SweepBegan'
      BY <2>1 DEF SweepBegan
    <3>3. age' <= StaleAfter + 0 + Grace'
      BY <1>t, <1>g, <1>i, <2>1, <2>2, <2>3
    <3> QED BY <3>1, <3>2, <3>3 DEF SweepOnTime
  <2>4. CASE stage # "idle"
    <3>1. PICK t \in SweepBegan :
            /\ sweepElapsed <= t /\ t <= Behind + sweepElapsed
            /\ age <= StaleAfter + t + (IF LookedAt THEN 0 ELSE Grace)
      BY <1>w, <2>4
    <3>2. t = SweepInterval
      BY <1>t, <1>b, <2>1, <3>1 DEF SweepBegan
    <3>3. t \in SweepBegan'
      BY <2>1, <3>2 DEF SweepBegan
    <3>4. Behind' = Behind /\ LookedAt' = LookedAt /\ stage' # "idle"
      BY <2>1, <2>4 DEF Behind, LookedAt
    <3> QED BY <2>1, <2>2, <3>1, <3>3, <3>4 DEF SweepOnTime
  <2> QED BY <2>3, <2>4
<1>3. CASE SweepStatement
  <2>0. stage # "idle" /\ sweepDue' = sweepDue /\ sort' = sort
    BY <1>3, SweepMoves DEF SweepStatement, Sweeps
  <2>1. PICK e \in 0..sweepElapsed :
          IF claim = "held" /\ Catches(stage) /\ age - e > StaleAfter
          THEN claim' = "reclaimed" /\ age' = 0
          ELSE UNCHANGED <<claim, age>>
    BY <1>3 DEF SweepStatement
  <2>2. age' = age /\ (Catches(stage) => age <= StaleAfter + sweepElapsed)
    BY <1>h, <1>t, <2>1
  <2>3. PICK t \in SweepBegan :
          /\ sweepElapsed <= t /\ t <= Behind + sweepElapsed
          /\ age <= StaleAfter + t + (IF LookedAt THEN 0 ELSE Grace)
    BY <1>w, <2>0
  <2>4. t \in Int /\ t >= 0 /\ SweepBegan' = SweepBegan /\ t <= 2 * SweepInterval - sweepDue
    BY <1>t, <2>0, <2>3 DEF SweepBegan
  <2>5. LookedAt \/ Catches(stage) => age <= StaleAfter + t
    <3>1. CASE LookedAt
      <4>1. age <= StaleAfter + t + 0
        BY <2>3, <3>1
      <4> QED BY <1>t, <2>4, <4>1
    <3>2. CASE Catches(stage)
      <4>1. age <= StaleAfter + sweepElapsed /\ sweepElapsed <= t
        BY <2>2, <2>3, <3>2
      <4> QED BY <1>t, <2>4, <4>1
    <3> QED BY <3>1, <3>2
  <2>6. CASE stage = "ingesting"
    <3>1. LookedAt \/ Catches(stage)
      BY <2>6 DEF LookedAt, Catches
    <3>2. stage' = "idle" /\ Grace' = 2 * SweepInterval
      BY <1>3, <2>6 DEF SweepStatement, Grace
    <3>3. age' <= StaleAfter + Grace' - sweepDue'
      BY <1>t, <2>0, <2>2, <2>4, <2>5, <3>1, <3>2
    <3> QED BY <3>2, <3>3 DEF SweepOnTime
  <2>7. CASE stage # "ingesting"
    <3>1. stage' # "idle" /\ sweepElapsed' = 0 /\ Grace' = Grace
      <4>1. sweepMissed' = sweepMissed /\ sweepElapsed' = 0
        BY <1>3, <2>7 DEF SweepStatement
      <4>2. stage = "reclaim" \/ stage = "deadletter"
        BY <1>t, <2>0, <2>7 DEF Stages
      <4>3. stage' # "idle"
        BY <1>3, <4>2 DEF SweepStatement
      <4> QED BY <4>1, <4>3 DEF Grace
    <3>2. Behind' = Behind + Latency
      <4>1. CASE stage = "reclaim"
        <5>1. stage' = "deadletter"
          BY <1>3, <4>1 DEF SweepStatement
        <5> QED BY <4>1, <5>1 DEF Behind
      <4>2. CASE stage = "deadletter"
        <5>1. stage' = "ingesting"
          BY <1>3, <4>2 DEF SweepStatement
        <5> QED BY <4>2, <5>1 DEF Behind
      <4> QED BY <1>t, <2>0, <2>7, <4>1, <4>2 DEF Stages
    <3>3. LookedAt' => LookedAt \/ Catches(stage)
      BY <1>3, <1>t, <2>0, <2>7 DEF SweepStatement, LookedAt, Catches, Stages, Sort
    <3>4. LookedAt => LookedAt'
      BY <1>3, <1>t, <2>0, <2>7 DEF SweepStatement, LookedAt, Stages, Sort
    <3>5. sweepElapsed' <= t /\ t <= Behind' + sweepElapsed'
      BY <1>t, <1>b, <2>3, <2>4, <3>1, <3>2
    <3>6. age' <= StaleAfter + t + (IF LookedAt' THEN 0 ELSE Grace')
      <4>1. CASE LookedAt'
        BY <2>2, <2>4, <2>5, <3>3, <4>1
      <4>2. CASE ~LookedAt'
        BY <2>2, <2>3, <3>1, <3>4, <4>2
      <4> QED BY <4>1, <4>2
    <3> QED BY <2>3, <2>4, <3>1, <3>5, <3>6 DEF SweepOnTime
  <2> QED BY <2>6, <2>7
<1>4. CASE SweepFails
  <2>1. /\ stage # "idle" /\ ~sweepMissed /\ sweepMissed'
        /\ stage' = "idle" /\ age' = age /\ sweepDue' = sweepDue
    BY <1>4 DEF SweepFails, sweepIdle
  <2>2. PICK t \in SweepBegan :
          /\ sweepElapsed <= t /\ t <= Behind + sweepElapsed
          /\ age <= StaleAfter + t + (IF LookedAt THEN 0 ELSE Grace)
    BY <1>w, <2>1
  <2>3. Grace = 2 * SweepInterval /\ Grace' = 4 * SweepInterval
    BY <2>1 DEF Grace
  <2>4. t \in Int /\ t <= 2 * SweepInterval - sweepDue
    BY <1>t, <2>2 DEF SweepBegan
  <2>5. age' <= StaleAfter + Grace' - sweepDue'
    BY <1>t, <2>1, <2>2, <2>3, <2>4
  <2> QED BY <2>1, <2>5 DEF SweepOnTime
<1>5. CASE ~Tick /\ ~Sweeps
  <2>1. UNCHANGED sweeper /\ sort' = sort
    BY <1>5, RunMoves
  <2>2. age' = age \/ age' <= Latency
    BY <1>5, AgeMoves
  <2>3. age' \in Nat
    BY TypeStep DEF TypeOK
  <2>4. age' <= age \/ age' <= StaleAfter
    BY <1>t, <2>2, <2>3
  <2>5. /\ stage' = stage /\ sweepDue' = sweepDue /\ sweepElapsed' = sweepElapsed
        /\ Grace' = Grace /\ Behind' = Behind /\ LookedAt' = LookedAt
        /\ SweepBegan' = SweepBegan
    BY <2>1 DEF sweeper, Grace, Behind, LookedAt, SweepBegan
  <2>6. CASE stage = "idle"
    <3>1. age' <= StaleAfter + Grace - sweepDue
      BY <1>t, <1>g, <1>i, <2>3, <2>4, <2>6
    <3> QED BY <2>5, <2>6, <3>1 DEF SweepOnTime
  <2>7. CASE stage # "idle"
    <3>1. PICK t \in SweepBegan :
            /\ sweepElapsed <= t /\ t <= Behind + sweepElapsed
            /\ age <= StaleAfter + t + (IF LookedAt THEN 0 ELSE Grace)
      BY <1>w, <2>7
    <3>2. t \in Int /\ t >= 0
      BY <1>t, <3>1 DEF SweepBegan
    <3>3. age' <= StaleAfter + t + (IF LookedAt THEN 0 ELSE Grace)
      BY <1>t, <1>g, <2>3, <2>4, <3>1, <3>2
    <3> QED BY <2>5, <2>7, <3>1, <3>3 DEF SweepOnTime
  <2> QED BY <2>6, <2>7
<1> QED BY <1>1, <1>2, <1>3, <1>4, <1>5 DEF Sweeps

-----------------------------------------------------------------------------
(* The strengthening of the three bounds is inductive.                     *)
LEMMA ClockInit ==
  ASSUME Init PROVE ClockInv
<1> USE TimesAreNat, SweepNumbers
<1>1. IInv
  BY InvInit
<1>2. /\ claim = "held" /\ age = 0 /\ pc \in {"gone", "boot"} /\ due = Off /\ overlap = 0
      /\ signalled = Off /\ sweepDue \in 0..SweepInterval /\ stage = "idle"
      /\ sweepElapsed = 0 /\ sweepMissed = FALSE
  BY DEF Init
<1>3. Answered /\ WatchdogSet /\ BeatSpeaks
  BY <1>2 DEF Answered, WatchdogSet, BeatSpeaks, Loop, Owned, Off
<1>4. LossNoticed /\ OverlapIsShort
  BY <1>2 DEF LossNoticed, OverlapIsShort
<1>5. SweepOnTime
  <2>1. Grace = 2 * SweepInterval
    BY <1>2 DEF Grace
  <2> QED BY <1>2, <2>1 DEF SweepOnTime
<1> QED BY <1>1, <1>3, <1>4, <1>5 DEF ClockInv

LEMMA ClockNext ==
  ASSUME ClockInv, [Next]_vars PROVE ClockInv'
<1>1. /\ IInv /\ Answered /\ WatchdogSet /\ BeatSpeaks /\ LossNoticed /\ OverlapIsShort
      /\ SweepOnTime
  BY DEF ClockInv
<1>2. TypeOK /\ Timely
  BY <1>1 DEF IInv
<1>3. IInv' /\ Answered' /\ WatchdogSet' /\ BeatSpeaks'
  BY <1>1, <1>2, InvNext, AnsweredStep, WatchdogStep, BeatSpeaksStep
<1>4. LossNoticed' /\ OverlapIsShort' /\ SweepOnTime'
  BY <1>1, <1>2, LossStep, SweepStep
<1> QED BY <1>3, <1>4 DEF ClockInv

(* With no other process than the one the claim started, and through a     *)
(* freeze of it, the clocks stay within their bounds.                      *)
THEOREM ClockInvariant == Spec => []ClockInv
<1>1. Init => ClockInv
  BY ClockInit
<1>2. ClockInv /\ [Next]_vars => ClockInv'
  BY ClockNext
<1> QED BY <1>1, <1>2, PTL DEF Spec

(* The process of a run told to stop is gone by the drain deadline of the  *)
(* first signal, however many follow (runner/main.ts:37-39).               *)
THEOREM DrainsInTime == Spec => []DrainDeadline
<1>1. ClockInv => DrainDeadline
  <2> SUFFICES ASSUME ClockInv, frozen = "no", signalled > DrainTimeout, pc # "gone"
               PROVE  FALSE
    BY DEF DrainDeadline
  <2>1. /\ signalled \in {Off} \cup Nat /\ watch \in {Off} \cup 0..DrainTimeout
        /\ DrainTimeout \in Nat
    BY TimesAreNat DEF ClockInv, IInv, TypeOK
  <2>2. signalled # Off
    BY <2>1 DEF Off
  <2>3. watch # Off /\ signalled + watch <= DrainTimeout
    BY <2>2 DEF ClockInv, WatchdogSet
  <2> QED BY <2>1, <2>2, <2>3
<1> QED BY <1>1, ClockInvariant, PTL

(* A run that slept through its own reclaim and woke up learns of it from  *)
(* its beats, within an interval and the time of an answer, also when one  *)
(* of them is lost (RunnerService.startHeartbeat).                         *)
THEOREM OverlapBounded == Spec => []OverlapIsShort
<1>1. ClockInv => OverlapIsShort
  BY DEF ClockInv
<1> QED BY <1>1, ClockInvariant, PTL

(* No claim and no ingestion stays silent for longer than the threshold,   *)
(* four intervals of the sweeper and the three statements of a tick        *)
(* (StaleSweeper.tick).                                                    *)
THEOREM SilenceIsBounded == Spec => []SilenceBounded
<1>1. ClockInv => SilenceBounded
  <2> SUFFICES ASSUME ClockInv, claim = "held"
               PROVE  age <= StaleAfter + 4 * SweepInterval + 3 * Latency
    BY DEF SilenceBounded
  <2> USE SweepNumbers
  <2>1. /\ age \in Nat /\ sweepDue \in 0..SweepInterval /\ sweepElapsed \in 0..Latency
        /\ stage \in {"idle"} \cup Stages
    BY DEF ClockInv, IInv, TypeOK
  <2>2. Grace \in {2 * SweepInterval, 4 * SweepInterval}
    BY DEF Grace
  <2>3. SweepOnTime
    BY DEF ClockInv
  <2>4. CASE stage = "idle"
    <3>1. age <= StaleAfter + Grace - sweepDue
      BY <2>3, <2>4 DEF SweepOnTime
    <3> QED BY <2>1, <2>2, <3>1
  <2>5. CASE stage # "idle"
    <3>1. PICK t \in SweepBegan :
            /\ sweepElapsed <= t /\ t <= Behind + sweepElapsed
            /\ age <= StaleAfter + t + (IF LookedAt THEN 0 ELSE Grace)
      BY <2>3, <2>5 DEF SweepOnTime
    <3>2. t \in Int
      BY <2>1 DEF SweepBegan
    <3>3. Behind \in {0, Latency, 2 * Latency}
      BY DEF Behind
    <3>4. t <= 3 * Latency
      BY <2>1, <3>1, <3>2, <3>3
    <3>5. age <= StaleAfter + t + 4 * SweepInterval
      BY <2>1, <2>2, <3>1, <3>2
    <3> QED BY <2>1, <3>2, <3>4, <3>5
  <2> QED BY <2>4, <2>5
<1> QED BY <1>1, ClockInvariant, PTL

==============================================================================
