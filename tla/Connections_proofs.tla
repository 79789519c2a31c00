-------------------------- MODULE Connections_proofs --------------------------
(***************************************************************************)
(* What TLAPS proves of Connections, for any concurrency, any cap of the   *)
(* inline lane, any batch, any tasks and any number of overlapping beats:  *)
(* a process that passed the checks at boot has a connection for each of   *)
(* its statements but those of runs its map has lost and of beats beyond   *)
(* two, and mapPool hands each row of a page to one worker.                *)
(***************************************************************************)
EXTENDS Connections, FiniteSetTheorems, TLAPS

(* What PoolSuffices rests on: the entries of the map, and room for the    *)
(* one whose claim is in flight.                                           *)
LaneBounded ==
  /\ Cardinality(Active) <= Places
  /\ poll = "light" => Cardinality(Active) < Places
  /\ kind = "runner" => poll = "idle" /\ ~sweep

(* Of one run: a worker is one of Concurrency many, and works only while   *)
(* its page is under way or the run has thrown; the shared cursor is ahead *)
(* of every row in work, no two of which are one, and stops short of the   *)
(* end only while a worker is left or the run is halted.                   *)
RunOK(r) ==
  /\ \A w \in Workers : step[r][w] # "out" =>
       /\ w <= Concurrency /\ stage[r] \in {"page", "thrown"}
       /\ row[r][w] >= 1 /\ row[r][w] <= cursor[r]
  /\ \A v, w \in Workers :
       step[r][v] # "out" /\ step[r][w] # "out" /\ v # w => row[r][v] # row[r][w]
  /\ cursor[r] <= items[r]
  /\ stage[r] = "page" /\ halt[r] = "no" =>
       cursor[r] = items[r] \/ \E w \in Workers : step[r][w] # "out"
  /\ stage[r] = "advance" /\ halt[r] = "no" => cursor[r] = items[r]

IInv ==
  /\ TypeOK /\ Fits(kind, size)
  /\ LaneBounded
  /\ \A r \in Runs : RunOK(r)

-----------------------------------------------------------------------------
LEMMA Numbers ==
  /\ Workers \subseteq Nat \ {0} /\ 1 \in Workers
  /\ Runs \subseteq Nat /\ 1 \in Runs
  /\ Concurrency \in Nat \ {0} /\ Places \in Nat \ {0}
  BY ConnectionsAssumption DEF Workers, Runs, Concurrency, Places

(* Which process this is, and its pool, are settled at boot.               *)
LEMMA ConfigKept == [Next]_vars => UNCHANGED config
<1> SUFFICES ASSUME [Next]_vars PROVE UNCHANGED config
  OBVIOUS
<1>1. CASE \E r \in Runs, w \in Workers : Effect(r, w)
  BY <1>1 DEF Effect
<1>2. CASE \E r \in Runs, w \in Workers : Flip(r, w)
  BY <1>2 DEF Flip
<1>3. CASE \E r \in Runs, w \in Workers : Record(r, w)
  BY <1>3 DEF Record
<1>4. CASE \E r \in Runs, w \in Workers : RecordThrows(r, w)
  BY <1>4 DEF RecordThrows
<1>5. CASE \E r \in Runs : Begin(r)
  BY <1>5 DEF Begin
<1>6. CASE \E r \in Runs : Fetch(r)
  BY <1>6 DEF Fetch
<1>7. CASE \E r \in Runs : Page(r)
  BY <1>7 DEF Page
<1>8. CASE \E r \in Runs : Advance(r)
  BY <1>8 DEF Advance
<1>9. CASE \E r \in Runs : Backoff(r)
  BY <1>9 DEF Backoff
<1>10. CASE \E r \in Runs : Finish(r)
  BY <1>10 DEF Finish
<1>11. CASE \E r \in Runs : RunThrows(r)
  BY <1>11 DEF RunThrows
<1>12. CASE \E r \in Runs : Forgotten(r)
  BY <1>12 DEF Forgotten
<1>13. CASE \E r \in Runs : Beat(r)
  BY <1>13 DEF Beat
<1>14. CASE \E r \in Runs : BeatAnswered(r)
  BY <1>14 DEF BeatAnswered
<1>15. CASE Ask
  BY <1>15 DEF Ask
<1>16. CASE RunInline
  BY <1>16 DEF RunInline
<1>17. CASE AskEnds
  BY <1>17 DEF AskEnds
<1>18. CASE Sweep
  BY <1>18 DEF Sweep
<1>19. CASE Signal
  BY <1>19 DEF Signal
<1>20. CASE Exit
  BY <1>20 DEF Exit
<1>21. CASE UNCHANGED vars
  BY <1>21 DEF vars
<1>22. CASE \E r \in Runs, w \in Workers : RowStep(r, w)
  BY <1>1, <1>2, <1>3, <1>4, <1>22 DEF RowStep
<1>23. CASE \E r \in Runs : RunStep(r)
  BY <1>5, <1>6, <1>7, <1>8, <1>9, <1>10, <1>23 DEF RunStep
<1> QED
  BY <1>11, <1>12, <1>13, <1>14, <1>15, <1>16, <1>17, <1>18, <1>19, <1>20, <1>21, <1>22,
    <1>23 DEF Next

LEMMA TypeInit == Init => TypeOK
<1> SUFFICES ASSUME Init PROVE TypeOK
  OBVIOUS
<1> USE Numbers, ConnectionsAssumption DEF Init
<1>1. stage \in [Runs -> Stage] /\ halt \in [Runs -> {"no", "drain", "lost"}]
  BY DEF Stage
<1>2. step \in [Runs -> [Workers -> Step]] /\ row \in [Runs -> [Workers -> 0 .. BatchSize]]
  BY DEF Step, Idle, None
<1>3. items \in [Runs -> 0 .. BatchSize] /\ cursor \in [Runs -> 0 .. BatchSize]
  OBVIOUS
<1>4. beats \in [Runs -> 0 .. MaxBeats]
  OBVIOUS
<1>5. task \in [Runs -> Tasks \cup {NoTask}] /\ lane \in [Tasks -> Runs \cup {NoRun}]
  OBVIOUS
<1> QED BY <1>1, <1>2, <1>3, <1>4, <1>5 DEF TypeOK

LEMMA TypeNext == TypeOK /\ [Next]_vars => TypeOK'
<1> SUFFICES ASSUME TypeOK, [Next]_vars PROVE TypeOK'
  OBVIOUS
<1> USE Numbers, ConnectionsAssumption
<1>1. CASE \E r \in Runs, w \in Workers : Effect(r, w)
  BY <1>1 DEF process, known, TypeOK, Stage, Step, Effect, Proceed, NextRow, config,
    service, vars, run, mapPool
<1>2. CASE \E r \in Runs, w \in Workers : Flip(r, w)
  BY <1>2 DEF process, known, TypeOK, Stage, Step, Flip, Settle, Proceed, config, service,
    NextRow, StandDown, vars, run, mapPool
<1>3. CASE \E r \in Runs, w \in Workers : Record(r, w)
  BY <1>3 DEF process, known, TypeOK, Stage, Step, Record, Settle, config, service,
    NextRow, StandDown, vars, run, mapPool
<1>4. CASE \E r \in Runs, w \in Workers : RecordThrows(r, w)
  BY <1>4 DEF TypeOK, Stage, Step, RecordThrows, Over, config, service, vars, run, mapPool
<1>5. CASE \E r \in Runs : Begin(r)
  BY <1>5 DEF process, known, TypeOK, Stage, Step, Begin, Goes, End, config, mapPool,
    service, Over, vars, run
<1>6. CASE \E r \in Runs : Fetch(r)
  BY <1>6 DEF process, known, TypeOK, Stage, Step, Fetch, Goes, mapPool, StartPage,
    config, service, vars, run
<1>7. CASE \E r \in Runs : Page(r)
  BY <1>7 DEF process, known, TypeOK, Stage, Step, Page, End, DropPage, Goes, mapPool,
    config, service, Over, vars, run
<1>8. CASE \E r \in Runs : Advance(r)
  BY <1>8 DEF process, known, TypeOK, Stage, Step, Advance, End, LoopTop, DropPage,
    config, service, Over, Goes, vars, run, mapPool
<1>9. CASE \E r \in Runs : Backoff(r)
  BY <1>9 DEF process, known, TypeOK, Stage, Step, Backoff, LoopTop, config, mapPool,
    service, Goes, End, Over, vars, run
<1>10. CASE \E r \in Runs : Finish(r)
  BY <1>10 DEF TypeOK, Stage, Step, Finish, End, config, mapPool, service, Over, vars, run
<1>11. CASE \E r \in Runs : RunThrows(r)
  BY <1>11 DEF TypeOK, Stage, Step, RunThrows, End, DropPage, config, service, Over, vars,
    run, mapPool
<1>12. CASE \E r \in Runs : Forgotten(r)
  BY <1>12 DEF process, known, TypeOK, Stage, Step, Forgotten, DropPage, config, service,
    vars, run, mapPool
<1>13. CASE \E r \in Runs : Beat(r)
  BY <1>13 DEF process, known, TypeOK, Stage, Step, Beat, config, run, service, mapPool,
    vars
<1>14. CASE \E r \in Runs : BeatAnswered(r)
  BY <1>14 DEF process, known, TypeOK, Stage, Step, BeatAnswered, StandDown, config,
    mapPool, service, vars, run
<1>15. CASE Ask
  BY <1>15 DEF process, known, TypeOK, Stage, Step, Ask, config, run, mapPool, vars, service
<1>16. CASE RunInline
  <2>1. PICK r \in Vacant, t \in Tasks :
          /\ stage' = [stage EXCEPT ![r] = "begin"]
          /\ task' = [task EXCEPT ![r] = t] /\ lane' = [lane EXCEPT ![t] = r]
    BY <1>16 DEF RunInline
  <2>2. r \in Runs
    BY DEF Vacant
  <2>3. /\ task' \in [Runs -> Tasks \cup {NoTask}] /\ lane' \in [Tasks -> Runs \cup {NoRun}]
        /\ stage' \in [Runs -> Stage]
    BY <2>1, <2>2 DEF TypeOK, Stage
  <2> QED BY <1>16, <2>3 DEF RunInline, config, mapPool, TypeOK
<1>17. CASE AskEnds
  BY <1>17 DEF process, known, TypeOK, Stage, Step, AskEnds, config, run, mapPool, vars,
    service
<1>18. CASE Sweep
  BY <1>18 DEF process, known, TypeOK, Stage, Step, Sweep, config, run, mapPool, vars,
    service
<1>19. CASE Signal
  BY <1>19 DEF known, TypeOK, Stage, Step, Signal, config, mapPool, service, vars, run
<1>20. CASE Exit
  <2>1. stage' \in [Runs -> Stage] /\ halt' \in [Runs -> {"no", "drain", "lost"}]
    BY <1>20 DEF Exit, Stage
  <2>2. step' \in [Runs -> [Workers -> Step]] /\ row' \in [Runs -> [Workers -> 0 .. BatchSize]]
    BY <1>20 DEF Exit, Step, Idle, None
  <2>3. items' \in [Runs -> 0 .. BatchSize] /\ cursor' \in [Runs -> 0 .. BatchSize]
    BY <1>20 DEF Exit
  <2>4. beats' \in [Runs -> 0 .. MaxBeats]
    BY <1>20 DEF Exit
  <2> QED BY <1>20, <2>1, <2>2, <2>3, <2>4 DEF TypeOK, Exit, config
<1>21. CASE UNCHANGED vars
  BY <1>21 DEF process, known, TypeOK, Stage, Step, vars, config, run, mapPool, service
<1>22. CASE \E r \in Runs, w \in Workers : RowStep(r, w)
  BY <1>1, <1>2, <1>3, <1>4, <1>22 DEF RowStep
<1>23. CASE \E r \in Runs : RunStep(r)
  BY <1>5, <1>6, <1>7, <1>8, <1>9, <1>10, <1>23 DEF RunStep
<1> QED
  BY <1>11, <1>12, <1>13, <1>14, <1>15, <1>16, <1>17, <1>18, <1>19, <1>20, <1>21, <1>22,
    <1>23 DEF Next

(* Only a claim of a light task adds a run to the map.                     *)
LEMMA ActiveShrinks == TypeOK /\ [Next]_vars /\ ~RunInline => Active' \subseteq Active
<1> SUFFICES ASSUME TypeOK, [Next]_vars, ~RunInline PROVE Active' \subseteq Active
  OBVIOUS
<1> USE DEF TypeOK, Active
<1>1. CASE \E r \in Runs, w \in Workers : Effect(r, w)
  BY <1>1 DEF process, known, Effect, config, service, vars, run, mapPool
<1>2. CASE \E r \in Runs, w \in Workers : Flip(r, w)
  BY <1>2 DEF process, known, Flip, config, service, vars, run, mapPool
<1>3. CASE \E r \in Runs, w \in Workers : Record(r, w)
  BY <1>3 DEF process, known, Record, config, service, vars, run, mapPool
<1>4. CASE \E r \in Runs, w \in Workers : RecordThrows(r, w)
  BY <1>4 DEF RecordThrows, Over, config, service, vars, run, mapPool
<1>5. CASE \E r \in Runs : Begin(r)
  BY <1>5 DEF process, known, Begin, Goes, End, config, mapPool, service, Over, vars, run
<1>6. CASE \E r \in Runs : Fetch(r)
  BY <1>6 DEF process, known, Fetch, Goes, mapPool, config, service, vars, run
<1>7. CASE \E r \in Runs : Page(r)
  BY <1>7 DEF process, known, Page, End, Goes, mapPool, config, service, Over, vars, run
<1>8. CASE \E r \in Runs : Advance(r)
  BY <1>8 DEF process, known, Advance, End, LoopTop, config, service, Over, Goes, vars,
    run, mapPool
<1>9. CASE \E r \in Runs : Backoff(r)
  BY <1>9 DEF process, known, Backoff, LoopTop, config, mapPool, service, Goes, End, Over,
    vars, run
<1>10. CASE \E r \in Runs : Finish(r)
  BY <1>10 DEF Finish, End, config, mapPool, service, Over, vars, run
<1>11. CASE \E r \in Runs : RunThrows(r)
  BY <1>11 DEF RunThrows, End, config, service, Over, vars, run, mapPool
<1>12. CASE \E r \in Runs : Forgotten(r)
  BY <1>12 DEF process, known, Forgotten, config, service, vars, run, mapPool
<1>13. CASE \E r \in Runs : Beat(r)
  BY <1>13 DEF process, known, Beat, config, run, service, mapPool, vars
<1>14. CASE \E r \in Runs : BeatAnswered(r)
  BY <1>14 DEF process, known, BeatAnswered, config, mapPool, service, vars, run
<1>15. CASE Ask
  BY <1>15 DEF process, known, Ask, config, run, mapPool, vars, service
<1>16. CASE RunInline
  BY <1>16 DEF RunInline, config, mapPool, vars, run, service
<1>17. CASE AskEnds
  BY <1>17 DEF process, known, AskEnds, config, run, mapPool, vars, service
<1>18. CASE Sweep
  BY <1>18 DEF process, known, Sweep, config, run, mapPool, vars, service
<1>19. CASE Signal
  BY <1>19 DEF known, Signal, config, mapPool, service, vars, run
<1>20. CASE Exit
  BY <1>20 DEF Exit, config, vars, run, mapPool, service
<1>21. CASE UNCHANGED vars
  BY <1>21 DEF process, known, vars, config, run, mapPool, service
<1>22. CASE \E r \in Runs, w \in Workers : RowStep(r, w)
  BY <1>1, <1>2, <1>3, <1>4, <1>22 DEF RowStep
<1>23. CASE \E r \in Runs : RunStep(r)
  BY <1>5, <1>6, <1>7, <1>8, <1>9, <1>10, <1>23 DEF RunStep
<1> QED
  BY <1>11, <1>12, <1>13, <1>14, <1>15, <1>16, <1>17, <1>18, <1>19, <1>20, <1>21, <1>22,
    <1>23 DEF Next

(* The claim loop and the sweeper belong to the dispatcher.                *)
LEMMA ServiceStep ==
  TypeOK /\ [Next]_vars /\ ~Ask =>
    /\ poll' = poll \/ poll' = "idle"
    /\ kind = "runner" /\ ~sweep => ~sweep'
<1> SUFFICES ASSUME TypeOK, [Next]_vars, ~Ask
             PROVE  (poll' = poll \/ poll' = "idle") /\ (kind = "runner" /\ ~sweep => ~sweep')
  OBVIOUS
<1> USE DEF TypeOK
<1>1. CASE \E r \in Runs, w \in Workers : Effect(r, w)
  BY <1>1 DEF process, known, Effect, service, run, mapPool, config
<1>2. CASE \E r \in Runs, w \in Workers : Flip(r, w)
  BY <1>2 DEF process, known, Flip, service, run, mapPool, config
<1>3. CASE \E r \in Runs, w \in Workers : Record(r, w)
  BY <1>3 DEF process, known, Record, service, run, mapPool, config
<1>4. CASE \E r \in Runs, w \in Workers : RecordThrows(r, w)
  BY <1>4 DEF RecordThrows, service, run, mapPool, config
<1>5. CASE \E r \in Runs : Begin(r)
  BY <1>5 DEF process, known, Begin, service, run, mapPool, config
<1>6. CASE \E r \in Runs : Fetch(r)
  BY <1>6 DEF process, known, Fetch, service, run, mapPool, config
<1>7. CASE \E r \in Runs : Page(r)
  BY <1>7 DEF process, known, Page, service, run, mapPool, config
<1>8. CASE \E r \in Runs : Advance(r)
  BY <1>8 DEF process, known, Advance, service, run, mapPool, config
<1>9. CASE \E r \in Runs : Backoff(r)
  BY <1>9 DEF process, known, Backoff, service, run, mapPool, config
<1>10. CASE \E r \in Runs : Finish(r)
  BY <1>10 DEF Finish, service, run, mapPool, config
<1>11. CASE \E r \in Runs : RunThrows(r)
  BY <1>11 DEF RunThrows, service, run, mapPool, config
<1>12. CASE \E r \in Runs : Forgotten(r)
  BY <1>12 DEF process, known, Forgotten, service, run, mapPool, config
<1>13. CASE \E r \in Runs : Beat(r)
  BY <1>13 DEF process, known, Beat, service, run, mapPool, config
<1>14. CASE \E r \in Runs : BeatAnswered(r)
  BY <1>14 DEF process, known, BeatAnswered, service, run, mapPool, config
<1>15. CASE Ask
  BY <1>15 DEF process, known, Ask, service, run, mapPool, config
<1>16. CASE RunInline
  BY <1>16 DEF RunInline, service, run, mapPool, config
<1>17. CASE AskEnds
  BY <1>17 DEF process, known, AskEnds, service, run, mapPool, config
<1>18. CASE Sweep
  BY <1>18 DEF process, known, Sweep, service, run, mapPool, config
<1>19. CASE Signal
  BY <1>19 DEF known, Signal, service, run, mapPool, config
<1>20. CASE Exit
  BY <1>20 DEF Exit, service, run, mapPool, config
<1>21. CASE UNCHANGED vars
  BY <1>21 DEF process, known, vars, config, run, mapPool, service
<1>22. CASE \E r \in Runs, w \in Workers : RowStep(r, w)
  BY <1>1, <1>2, <1>3, <1>4, <1>22 DEF RowStep
<1>23. CASE \E r \in Runs : RunStep(r)
  BY <1>5, <1>6, <1>7, <1>8, <1>9, <1>10, <1>23 DEF RunStep
<1> QED
  BY <1>11, <1>12, <1>13, <1>14, <1>15, <1>16, <1>17, <1>18, <1>19, <1>20, <1>21, <1>22,
    <1>23 DEF Next

LEMMA FiniteCounts ==
  /\ IsFiniteSet(Runs) /\ IsFiniteSet(Active) /\ IsFiniteSet(BeatsInFlight)
  /\ Cardinality(Active) \in Nat /\ Cardinality(BeatsInFlight) \in Nat
<1>1. IsFiniteSet(Runs) /\ IsFiniteSet(1 .. MaxBeats)
  BY FS_Interval, ConnectionsAssumption DEF Runs
<1>2. IsFiniteSet(Runs \X (1 .. MaxBeats))
  BY <1>1, FS_Product
<1>3. IsFiniteSet(Active)
  BY FS_Subset, ConnectionsAssumption DEF Active
<1>4. IsFiniteSet(BeatsInFlight)
  BY <1>2, FS_Subset DEF BeatsInFlight
<1> QED BY <1>1, <1>3, <1>4, FS_CardinalityType

LEMMA LaneNext == TypeOK /\ LaneBounded /\ [Next]_vars => LaneBounded'
<1> SUFFICES ASSUME TypeOK, LaneBounded, [Next]_vars PROVE LaneBounded'
  OBVIOUS
<1>1. kind' = kind /\ Places' = Places /\ Places \in Nat
  BY ConfigKept, Numbers DEF config, Places
<1>2. CASE RunInline
  <2>1. PICK r \in Vacant, t \in Tasks : lane' = [lane EXCEPT ![t] = r]
    BY <1>2 DEF RunInline
  <2>2. Active' \subseteq Active \cup {t}
    BY <2>1 DEF Active, TypeOK
  <2>3. IsFiniteSet(Active \cup {t}) /\ Cardinality(Active \cup {t}) <= Cardinality(Active) + 1
    BY FiniteCounts, FS_AddElement
  <2>4. Cardinality(Active') <= Cardinality(Active \cup {t})
    BY <2>2, <2>3, FS_Subset
  <2>5. Cardinality(Active') \in Nat /\ Cardinality(Active \cup {t}) \in Nat
    BY <2>2, <2>3, FS_Subset, FS_CardinalityType
  <2>6. Cardinality(Active') <= Places
    BY <1>1, <1>2, <2>3, <2>4, <2>5, FiniteCounts DEF LaneBounded, RunInline
  <2> QED BY <1>1, <1>2, <2>6 DEF LaneBounded, RunInline
<1>3. CASE Ask
  BY <1>1, <1>3 DEF Ask, LaneBounded, Active, process, known, Places
<1>4. CASE ~RunInline /\ ~Ask
  <2>1. Active' \subseteq Active
    BY <1>4, ActiveShrinks
  <2>2. Cardinality(Active') <= Cardinality(Active) /\ Cardinality(Active') \in Nat
    BY <2>1, FiniteCounts, FS_Subset, FS_CardinalityType
  <2>3. Cardinality(Active') <= Places /\ (poll = "light" => Cardinality(Active') < Places)
    BY <1>1, <2>2, FiniteCounts DEF LaneBounded
  <2> QED BY <1>1, <1>4, <2>3, ServiceStep DEF LaneBounded
<1> QED BY <1>2, <1>3, <1>4

(* What a step leaves alone of run r.                                      *)
Same(r) ==
  /\ stage'[r] = stage[r] /\ halt'[r] = halt[r]
  /\ items'[r] = items[r] /\ cursor'[r] = cursor[r]
  /\ step'[r] = step[r] /\ row'[r] = row[r]

LEMMA SameKept ==
  ASSUME NEW r \in Runs, RunOK(r), Same(r), Concurrency' = Concurrency
  PROVE  RunOK(r)'
  BY DEF RunOK, Same, Workers

LEMMA OthersKept ==
  ASSUME NEW r \in Runs, \A q \in Runs : RunOK(q), \A q \in Runs \ {r} : Same(q), RunOK(r)',
         Concurrency' = Concurrency
  PROVE  \A q \in Runs : RunOK(q)'
<1> SUFFICES ASSUME NEW q \in Runs, q # r PROVE RunOK(q)'
  OBVIOUS
<1> QED BY SameKept

(* One turn of a worker's loop.                                            *)
LEMMA NextRowKeeps ==
  ASSUME TypeOK, NEW r \in Runs, NEW w \in Workers, NEW h, RunOK(r), step[r][w] # "out",
         NextRow(r, w, h), halt'[r] = h, h = "no" => halt[r] = "no", stage'[r] = stage[r],
         Concurrency' = Concurrency
  PROVE  RunOK(r)' /\ \A q \in Runs \ {r} : step'[q] = step[q] /\ row'[q] = row[q]
                                         /\ items'[q] = items[q] /\ cursor'[q] = cursor[q]
<1> USE Numbers, ConnectionsAssumption
<1>1. stage[r] \in {"page", "thrown"} /\ w <= Concurrency
  BY DEF RunOK
<1>2. CASE h = "no" /\ cursor[r] < items[r]
  <2>1. /\ cursor'[r] = cursor[r] + 1 /\ items' = items
        /\ step'[r][w] = "effect" /\ row'[r][w] = cursor[r] + 1
        /\ \A v \in Workers \ {w} : step'[r][v] = step[r][v] /\ row'[r][v] = row[r][v]
        /\ cursor[r] \in Nat /\ items[r] \in Nat
        /\ \A v \in Workers : row[r][v] \in Nat
    BY <1>2 DEF NextRow, TypeOK
  <2>2. \A v \in Workers : step'[r][v] # "out" =>
          /\ v <= Concurrency /\ row'[r][v] >= 1 /\ row'[r][v] <= cursor'[r]
    BY <1>1, <2>1 DEF RunOK
  <2>3. \A u, v \in Workers :
          step'[r][u] # "out" /\ step'[r][v] # "out" /\ u # v => row'[r][u] # row'[r][v]
    BY <2>1 DEF RunOK
  <2>4. cursor'[r] <= items'[r]
    BY <1>2, <2>1
  <2>5. RunOK(r)'
    BY <1>1, <2>1, <2>2, <2>3, <2>4 DEF RunOK, Workers
  <2> QED BY <1>2, <2>5 DEF NextRow, TypeOK
<1>3. CASE ~(h = "no" /\ cursor[r] < items[r])
  <2>1. /\ cursor' = cursor /\ items' = items /\ step'[r][w] = "out"
        /\ \A v \in Workers \ {w} : step'[r][v] = step[r][v] /\ row'[r][v] = row[r][v]
        /\ cursor[r] \in Nat /\ items[r] \in Nat
    BY <1>3 DEF NextRow, TypeOK
  <2>2. h = "no" => cursor'[r] = items'[r]
    BY <1>3, <2>1 DEF RunOK
  <2>3. RunOK(r)'
    BY <1>1, <2>1, <2>2 DEF RunOK, Workers
  <2> QED BY <1>3, <2>3 DEF NextRow, TypeOK
<1> QED BY <1>2, <1>3

LEMMA ProceedKeeps ==
  ASSUME TypeOK, NEW r \in Runs, NEW w \in Workers, NEW s \in Step \ {"out"}, RunOK(r),
         step[r][w] # "out", Proceed(r, w, s), halt'[r] = halt[r], stage'[r] = stage[r],
         Concurrency' = Concurrency
  PROVE  RunOK(r)' /\ \A q \in Runs \ {r} : step'[q] = step[q] /\ row'[q] = row[q]
                                         /\ items'[q] = items[q] /\ cursor'[q] = cursor[q]
<1>1. /\ step'[r][w] # "out" /\ \A v \in Workers \ {w} : step'[r][v] = step[r][v]
      /\ row' = row /\ items' = items /\ cursor' = cursor
  BY DEF Proceed, TypeOK
<1>2. RunOK(r)'
  BY <1>1 DEF RunOK, Workers
<1> QED BY <1>1, <1>2 DEF Proceed, TypeOK

LEMMA SettleKeeps ==
  ASSUME TypeOK, NEW r \in Runs, NEW w \in Workers, RunOK(r), step[r][w] # "out",
         Settle(r, w), UNCHANGED stage, Concurrency' = Concurrency
  PROVE  RunOK(r)' /\ \A q \in Runs \ {r} : Same(q)
<1>1. CASE UNCHANGED halt /\ NextRow(r, w, halt[r])
  BY <1>1, NextRowKeeps DEF Same
<1>2. CASE StandDown(r) /\ NextRow(r, w, "lost")
  <2>1. halt'[r] = "lost" /\ \A q \in Runs \ {r} : halt'[q] = halt[q]
    BY <1>2 DEF StandDown, TypeOK
  <2> QED BY <1>2, <2>1, NextRowKeeps DEF Same
<1> QED BY <1>1, <1>2 DEF Settle

(* A run between two statements of its own: none of its workers is in a    *)
(* row, its page is as it was or dropped.                                  *)
LEMMA RestKeeps ==
  ASSUME NEW r \in Runs, TypeOK, RunOK(r),
         \A w \in Workers : step[r][w] = "out", UNCHANGED step,
         stage'[r] \notin {"page", "advance"},
         \/ UNCHANGED <<items, cursor>>
         \/ items'[r] = 0 /\ cursor'[r] = 0
  PROVE  RunOK(r)'
<1>1. cursor'[r] <= items'[r]
  <2>1. CASE UNCHANGED <<items, cursor>>
    BY <2>1 DEF RunOK
  <2>2. CASE items'[r] = 0 /\ cursor'[r] = 0
    BY <2>2
  <2> QED BY <2>1, <2>2
<1>2. \A w \in Workers : step'[r][w] = "out"
  OBVIOUS
<1> QED BY <1>1, <1>2, Numbers DEF RunOK

LEMMA OutOfPage ==
  ASSUME NEW r \in Runs, RunOK(r), stage[r] \notin {"page", "thrown"}
  PROVE  \A w \in Workers : step[r][w] = "out"
  BY Numbers DEF RunOK

LEMMA RunsNext == TypeOK /\ (\A r \in Runs : RunOK(r)) /\ [Next]_vars => \A r \in Runs : RunOK(r)'
<1> SUFFICES ASSUME TypeOK, \A r \in Runs : RunOK(r), [Next]_vars
             PROVE  \A r \in Runs : RunOK(r)'
  OBVIOUS
<1>0. Concurrency' = Concurrency /\ Concurrency \in Nat
  BY ConfigKept, Numbers DEF config, Concurrency
<1>1. CASE \E r \in Runs, w \in Workers : Effect(r, w)
  <2>1. PICK r \in Runs, w \in Workers : Effect(r, w)
    BY <1>1
  <2>2. step[r][w] # "out" /\ RunOK(r) /\ UNCHANGED stage
    BY <2>1 DEF Effect
  <2>3. CASE \E s \in {"flip", "record"} : Proceed(r, w, s)
    <3>1. UNCHANGED halt
      BY <2>1 DEF Effect
    <3>2. RunOK(r)' /\ \A q \in Runs \ {r} : Same(q)
      BY <1>0, <2>2, <2>3, <3>1, ProceedKeeps DEF Same, Step
    <3> QED BY <1>0, <3>2, OthersKept
  <2>4. CASE NextRow(r, w, halt[r])
    <3>1. UNCHANGED halt
      BY <2>1 DEF Effect
    <3>2. RunOK(r)' /\ \A q \in Runs \ {r} : Same(q)
      BY <1>0, <2>2, <2>4, <3>1, NextRowKeeps DEF Same
    <3> QED BY <1>0, <3>2, OthersKept
  <2> QED BY <2>1, <2>3, <2>4 DEF Effect
<1>2. CASE \E r \in Runs, w \in Workers : Flip(r, w)
  <2>1. PICK r \in Runs, w \in Workers : Flip(r, w)
    BY <1>2
  <2>2. step[r][w] # "out" /\ RunOK(r) /\ UNCHANGED stage
    BY <2>1 DEF Flip
  <2>3. CASE Settle(r, w)
    BY <1>0, <2>2, <2>3, SettleKeeps, OthersKept
  <2>4. CASE Proceed(r, w, "record") /\ UNCHANGED halt
    <3>1. RunOK(r)' /\ \A q \in Runs \ {r} : Same(q)
      BY <1>0, <2>2, <2>4, ProceedKeeps DEF Same, Step
    <3> QED BY <1>0, <3>1, OthersKept
  <2> QED BY <2>1, <2>3, <2>4 DEF Flip
<1>3. CASE \E r \in Runs, w \in Workers : Record(r, w)
  <2>1. PICK r \in Runs, w \in Workers : Record(r, w)
    BY <1>3
  <2>2. step[r][w] # "out" /\ RunOK(r) /\ UNCHANGED stage
    BY <2>1 DEF Record
  <2> QED BY <1>0, <2>1, <2>2, SettleKeeps, OthersKept DEF Record
<1>4. CASE \E r \in Runs, w \in Workers : RecordThrows(r, w)
  <2>1. PICK r \in Runs, w \in Workers : RecordThrows(r, w)
    BY <1>4
  <2>2. step[r][w] # "out" /\ RunOK(r)
    BY <2>1 DEF RecordThrows
  <2>3. /\ stage'[r] = "thrown" /\ cursor' = cursor /\ items' = items
        /\ \A v \in Workers : step'[r][v] # "out" =>
             v # w /\ step[r][v] # "out" /\ row'[r][v] = row[r][v]
    BY <2>1 DEF RecordThrows, TypeOK
  <2>4. RunOK(r)'
    BY <1>0, <2>2, <2>3 DEF RunOK, Workers
  <2>5. \A q \in Runs \ {r} : Same(q)
    BY <2>1 DEF RecordThrows, TypeOK, Same
  <2> QED BY <1>0, <2>4, <2>5, OthersKept
<1>5. CASE \E r \in Runs : Begin(r)
  <2>1. PICK r \in Runs : Begin(r)
    BY <1>5
  <2>2. \A q \in Runs \ {r} : Same(q)
    BY <2>1 DEF Begin, Goes, End, config, mapPool, service, Over, run, TypeOK, Same
  <2>3. RunOK(r)'
    <3>1. \A w \in Workers : step[r][w] = "out"
      BY <2>1, OutOfPage DEF Begin
    <3>2. UNCHANGED step /\ stage'[r] \notin {"page", "advance"}
      BY <2>1 DEF Begin, Goes, End, mapPool, TypeOK
    <3>3. UNCHANGED <<items, cursor>>
      BY <2>1 DEF Begin, mapPool
    <3> QED BY <3>1, <3>2, <3>3, RestKeeps
  <2> QED BY <1>0, <2>2, <2>3, OthersKept
<1>6. CASE \E r \in Runs : Fetch(r)
  <2>1. PICK r \in Runs : Fetch(r)
    BY <1>6
  <2>2. \A q \in Runs \ {r} : Same(q)
    BY <2>1 DEF Fetch, Goes, mapPool, StartPage, config, service, run, TypeOK, Same
  <2>3. RunOK(r)'
    BY <1>0, <2>1, Numbers, ConnectionsAssumption DEF Fetch, Goes, mapPool, StartPage,
      config, service, run, TypeOK, RunOK
  <2> QED BY <1>0, <2>2, <2>3, OthersKept
<1>7. CASE \E r \in Runs : Page(r)
  <2>1. PICK r \in Runs : Page(r)
    BY <1>7
  <2>2. \A q \in Runs \ {r} : Same(q)
    BY <2>1 DEF Page, End, DropPage, Goes, mapPool, config, service, Over, run, TypeOK,
      Same
  <2>3. \A w \in Workers : step[r][w] = "out"
    BY <2>1 DEF Page, Busy
  <2>4. CASE End(r) /\ DropPage(r)
    <3>1. UNCHANGED step /\ stage'[r] \notin {"page", "advance"}
      BY <2>4 DEF End, DropPage, TypeOK
    <3>2. items'[r] = 0 /\ cursor'[r] = 0
      BY <2>4 DEF DropPage, TypeOK
    <3>3. RunOK(r)'
      BY <2>3, <3>1, <3>2, RestKeeps
    <3> QED BY <1>0, <2>2, <3>3, OthersKept
  <2>5. CASE Goes(r, "advance") /\ UNCHANGED mapPool
    <3>1. UNCHANGED <<items, cursor, step, row, halt>> /\ stage'[r] = "advance"
      BY <2>5 DEF Goes, mapPool, TypeOK
    <3>2. halt[r] = "no" => cursor[r] = items[r]
      BY <2>1, <2>3 DEF Page, RunOK
    <3>3. RunOK(r)'
      BY <2>3, <3>1, <3>2 DEF RunOK
    <3> QED BY <1>0, <2>2, <3>3, OthersKept
  <2> QED BY <2>1, <2>4, <2>5 DEF Page
<1>8. CASE \E r \in Runs : Advance(r)
  <2>1. PICK r \in Runs : Advance(r)
    BY <1>8
  <2>2. \A q \in Runs \ {r} : Same(q)
    BY <2>1 DEF Advance, End, LoopTop, DropPage, config, service, Over, Goes, run,
      mapPool, TypeOK, Same
  <2>3. RunOK(r)'
    <3>1. \A w \in Workers : step[r][w] = "out"
      BY <2>1, OutOfPage DEF Advance
    <3>2. UNCHANGED step /\ stage'[r] \notin {"page", "advance"}
      BY <2>1 DEF Advance, Goes, End, LoopTop, DropPage, TypeOK
    <3>3. items'[r] = 0 /\ cursor'[r] = 0
      BY <2>1 DEF Advance, DropPage, TypeOK
    <3> QED BY <3>1, <3>2, <3>3, RestKeeps
  <2> QED BY <1>0, <2>2, <2>3, OthersKept
<1>9. CASE \E r \in Runs : Backoff(r)
  <2>1. PICK r \in Runs : Backoff(r)
    BY <1>9
  <2>2. \A q \in Runs \ {r} : Same(q)
    BY <2>1 DEF Backoff, LoopTop, config, mapPool, service, Goes, End, Over, run,
      TypeOK, Same
  <2>3. RunOK(r)'
    <3>1. \A w \in Workers : step[r][w] = "out"
      BY <2>1, OutOfPage DEF Backoff
    <3>2. UNCHANGED step /\ stage'[r] \notin {"page", "advance"}
      BY <2>1 DEF Backoff, Goes, End, LoopTop, mapPool, TypeOK
    <3>3. UNCHANGED <<items, cursor>>
      BY <2>1 DEF Backoff, mapPool
    <3> QED BY <3>1, <3>2, <3>3, RestKeeps
  <2> QED BY <1>0, <2>2, <2>3, OthersKept
<1>10. CASE \E r \in Runs : Finish(r)
  <2>1. PICK r \in Runs : Finish(r)
    BY <1>10
  <2>2. \A q \in Runs \ {r} : Same(q)
    BY <2>1 DEF Finish, End, config, mapPool, service, Over, run, TypeOK, Same
  <2>3. RunOK(r)'
    <3>1. \A w \in Workers : step[r][w] = "out"
      BY <2>1, OutOfPage DEF Finish
    <3>2. UNCHANGED step /\ stage'[r] \notin {"page", "advance"}
      BY <2>1 DEF Finish, End, mapPool, TypeOK
    <3>3. UNCHANGED <<items, cursor>>
      BY <2>1 DEF Finish, mapPool
    <3> QED BY <3>1, <3>2, <3>3, RestKeeps
  <2> QED BY <1>0, <2>2, <2>3, OthersKept
<1>11. CASE \E r \in Runs : RunThrows(r)
  <2>1. PICK r \in Runs : RunThrows(r)
    BY <1>11
  <2>2. \A q \in Runs \ {r} : Same(q)
    BY <2>1 DEF RunThrows, End, DropPage, config, service, Over, run, mapPool, TypeOK,
      Same
  <2>3. RunOK(r)'
    <3>1. \A w \in Workers : step[r][w] = "out"
      BY <2>1, OutOfPage DEF RunThrows
    <3>2. UNCHANGED step /\ stage'[r] \notin {"page", "advance"}
      BY <2>1 DEF RunThrows, End, DropPage, TypeOK
    <3>3. items'[r] = 0 /\ cursor'[r] = 0
      BY <2>1 DEF RunThrows, DropPage, TypeOK
    <3> QED BY <3>1, <3>2, <3>3, RestKeeps
  <2> QED BY <1>0, <2>2, <2>3, OthersKept
<1>12. CASE \E r \in Runs : Forgotten(r)
  <2>1. PICK r \in Runs : Forgotten(r)
    BY <1>12
  <2>2. \A q \in Runs \ {r} : Same(q)
    BY <2>1 DEF Forgotten, DropPage, config, service, run, mapPool, TypeOK, Same
  <2>3. RunOK(r)'
    <3>1. \A w \in Workers : step[r][w] = "out"
      BY <2>1 DEF Forgotten, Busy
    <3>2. UNCHANGED step /\ stage'[r] \notin {"page", "advance"}
      BY <2>1 DEF Forgotten, DropPage, TypeOK
    <3>3. items'[r] = 0 /\ cursor'[r] = 0
      BY <2>1 DEF Forgotten, DropPage, TypeOK
    <3> QED BY <3>1, <3>2, <3>3, RestKeeps
  <2> QED BY <1>0, <2>2, <2>3, OthersKept
<1>13. CASE \E r \in Runs : Beat(r)
  <2>1. PICK r \in Runs : Beat(r)
    BY <1>13
  <2>2. \A q \in Runs \ {r} : Same(q)
    BY <2>1 DEF Beat, config, run, service, mapPool, TypeOK, Same
  <2>3. RunOK(r)'
    BY <1>0, <2>1, Numbers, ConnectionsAssumption DEF Beat, config, run, service,
      mapPool, TypeOK, RunOK
  <2> QED BY <1>0, <2>2, <2>3, OthersKept
<1>14. CASE \E r \in Runs : BeatAnswered(r)
  <2>1. PICK r \in Runs : BeatAnswered(r)
    BY <1>14
  <2>2. \A q \in Runs \ {r} : Same(q)
    BY <2>1 DEF BeatAnswered, StandDown, config, mapPool, service, run, TypeOK, Same
  <2>3. RunOK(r)'
    BY <1>0, <2>1, Numbers, ConnectionsAssumption DEF BeatAnswered, StandDown, config,
      mapPool, service, run, TypeOK, RunOK
  <2> QED BY <1>0, <2>2, <2>3, OthersKept
<1>15. CASE Ask
  <2>1. \A r \in Runs : Same(r)
    BY <1>15 DEF Ask, run, mapPool, Same
  <2> QED BY <1>0, <2>1, SameKept
<1>16. CASE RunInline
  <2>1. PICK r \in Vacant : stage' = [stage EXCEPT ![r] = "begin"]
    BY <1>16 DEF RunInline
  <2>0. r \in Runs /\ stage[r] = "free" /\ RunInline
    BY <2>1, <1>16 DEF Vacant
  <2>2. \A q \in Runs \ {r} : Same(q)
    BY <2>1, <2>0 DEF RunInline, config, mapPool, run, service, TypeOK, Same
  <2>3. RunOK(r)'
    BY <1>0, <2>1, <2>0, Numbers, ConnectionsAssumption DEF RunInline, config, mapPool,
      run, service, TypeOK, RunOK
  <2> QED BY <1>0, <2>0, <2>2, <2>3, OthersKept
<1>17. CASE AskEnds
  <2>1. \A r \in Runs : Same(r)
    BY <1>17 DEF AskEnds, run, mapPool, Same
  <2> QED BY <1>0, <2>1, SameKept
<1>18. CASE Sweep
  <2>1. \A r \in Runs : Same(r)
    BY <1>18 DEF Sweep, run, mapPool, Same
  <2> QED BY <1>0, <2>1, SameKept
<1>19. CASE Signal
  <2> SUFFICES ASSUME NEW r \in Runs PROVE RunOK(r)'
    OBVIOUS
  <2>1. RunOK(r) /\ stage' = stage /\ items' = items /\ cursor' = cursor /\ step' = step /\ row' = row
    BY <1>19 DEF Signal, mapPool
  <2>2. halt'[r] = "no" => halt[r] = "no"
    BY <1>19 DEF Signal, TypeOK
  <2> QED BY <1>0, <2>1, <2>2 DEF RunOK, Workers
<1>20. CASE Exit
  <2> SUFFICES ASSUME NEW r \in Runs PROVE RunOK(r)'
    OBVIOUS
  <2>1. /\ stage'[r] = "free" /\ items'[r] = 0 /\ cursor'[r] = 0
        /\ \A w \in Workers : step'[r][w] = "out"
    BY <1>20 DEF Exit, Idle
  <2> QED BY <2>1 DEF RunOK, Workers
<1>21. CASE UNCHANGED vars
  BY <1>21, <1>0, SameKept DEF Same, vars, config, run, mapPool, service
<1>22. CASE \E r \in Runs, w \in Workers : RowStep(r, w)
  BY <1>1, <1>2, <1>3, <1>4, <1>22 DEF RowStep
<1>23. CASE \E r \in Runs : RunStep(r)
  BY <1>5, <1>6, <1>7, <1>8, <1>9, <1>10, <1>23 DEF RunStep
<1> QED
  BY <1>11, <1>12, <1>13, <1>14, <1>15, <1>16, <1>17, <1>18, <1>19, <1>20, <1>21, <1>22,
    <1>23 DEF Next

LEMMA IInvInit == Init => IInv
<1> SUFFICES ASSUME Init PROVE IInv
  OBVIOUS
<1> USE Numbers, ConnectionsAssumption
<1>1. Fits(kind, size)
  BY DEF Init
<1>2. Cardinality(Active) <= Places /\ poll = "idle" /\ ~sweep
  <2>1. PICK t \in Tasks : Active \subseteq {t}
    BY DEF Init, Active, NoRun
  <2>2. IsFiniteSet({t}) /\ Cardinality({t}) = 1
    BY FS_Singleton
  <2>3. Cardinality(Active) <= 1
    BY <2>1, <2>2, FS_Subset
  <2> QED BY <2>3, FiniteCounts DEF Init
<1>3. ASSUME NEW r \in Runs PROVE RunOK(r)
  BY DEF Init, Idle, None, RunOK
<1> QED BY <1>1, <1>2, <1>3, TypeInit DEF IInv, LaneBounded

LEMMA IInvNext == IInv /\ [Next]_vars => IInv'
<1> SUFFICES ASSUME IInv, [Next]_vars PROVE IInv'
  OBVIOUS
<1>1. Fits(kind, size)'
  BY ConfigKept DEF IInv, config, Fits, RunnerFits, InlineFits
<1> QED BY <1>1, TypeNext, LaneNext, RunsNext DEF IInv

(* The map holds a run under one task at most: it has no more runs than    *)
(* entries.                                                                *)
LEMMA TrackedFit ==
  ASSUME IInv
  PROVE  /\ IsFiniteSet(Tracked) /\ Cardinality(Tracked) \in Nat
         /\ Cardinality(Tracked) <= Places
<1> DEFINE held  == [t \in Active |-> lane[t]]
           image == {held[t] : t \in Active}
<1>1. Tracked \subseteq image
  BY Numbers DEF Tracked, Active, Runs, NoRun
<1>2. held \in [Active -> image]
  OBVIOUS
<1>3. held \in Surjection(Active, image)
  BY <1>2 DEF Surjection
<1> HIDE DEF held, image
<1>4. IsFiniteSet(image) /\ Cardinality(image) <= Cardinality(Active)
  BY <1>3, FiniteCounts, FS_Surjection
<1>5. IsFiniteSet(Tracked) /\ Cardinality(Tracked) <= Cardinality(image)
  BY <1>1, <1>4, FS_Subset
<1>6. Cardinality(Tracked) \in Nat /\ Cardinality(image) \in Nat
  BY <1>4, <1>5, FS_CardinalityType
<1>7. Cardinality(Active) <= Places
  BY DEF IInv, LaneBounded
<1> QED BY <1>4, <1>5, <1>6, <1>7, FiniteCounts, Numbers

(* The runs that may have a statement in flight.                           *)
Awake == Tracked \cup Loose

LEMMA AwakeFit ==
  ASSUME IInv
  PROVE  /\ IsFiniteSet(Awake) /\ Cardinality(Awake) \in Nat /\ Cardinality(Loose) \in Nat
         /\ Cardinality(Awake) <= Places + Cardinality(Loose)
<1>1. IsFiniteSet(Loose) /\ Cardinality(Loose) \in Nat
  BY FiniteCounts, FS_Subset, FS_CardinalityType DEF Loose
<1>2. Tracked \cap Loose = {}
  BY DEF Loose
<1>3. Cardinality(Tracked \cap Loose) = 0
  BY <1>2, FS_EmptySet
<1>4. /\ IsFiniteSet(Awake)
      /\ Cardinality(Awake) = Cardinality(Tracked) + Cardinality(Loose) - Cardinality(Tracked \cap Loose)
  BY <1>1, TrackedFit, FS_Union DEF Awake
<1>5. Cardinality(Awake) \in Nat
  BY <1>4, FS_CardinalityType
<1> QED BY <1>1, <1>3, <1>4, <1>5, TrackedFit, Numbers

(* The statements of the rows and of the runs take at most Concurrency     *)
(* places of each run that goes on or has a worker left: a run that has    *)
(* statements of its own has no worker in a row.                           *)
LEMMA RunStatementsFit ==
  ASSUME IInv
  PROVE  /\ Cardinality(RowStatements) \in Nat /\ Cardinality(RunStatements) \in Nat
         /\ Cardinality(RowStatements) + Cardinality(RunStatements)
              <= Cardinality(Awake) * Concurrency
<1> USE Numbers DEF IInv
<1> DEFINE slots == Awake \X (1 .. Concurrency)
           main  == RunStatements \X {1}
<1>1. /\ IsFiniteSet(slots) /\ Cardinality(slots) = Cardinality(Awake) * Concurrency
  <2>1. IsFiniteSet(1 .. Concurrency) /\ Cardinality(1 .. Concurrency) = Concurrency
    BY FS_Interval
  <2> QED BY <2>1, AwakeFit, FS_Product
<1>2. RowStatements \subseteq slots
  <2> SUFFICES ASSUME NEW r \in Runs, NEW w \in Workers, step[r][w] \in {"flip", "record"}
               PROVE  r \in Awake /\ w \in 1 .. Concurrency
    BY DEF RowStatements
  <2>1. w <= Concurrency /\ w \in Busy(r)
    BY DEF RunOK, Busy
  <2> QED BY <2>1 DEF Awake, Loose
<1>3. main \subseteq slots
  BY DEF RunStatements, Awake, Loose, GoesOn
<1>4. RowStatements \cap main = {}
  <2> SUFFICES ASSUME NEW s \in RowStatements, s \in main PROVE FALSE
    OBVIOUS
  <2>1. s[1] \in Runs /\ s[2] \in Workers /\ step[s[1]][s[2]] # "out"
    BY DEF RowStatements
  <2>2. stage[s[1]] \in {"page", "thrown"}
    BY <2>1 DEF RunOK
  <2> QED BY <2>2 DEF RunStatements
<1>5. IsFiniteSet(RunStatements) /\ Cardinality(RunStatements) \in Nat
  BY FiniteCounts, FS_Subset, FS_CardinalityType DEF RunStatements
<1>6. IsFiniteSet(main) /\ Cardinality(main) = Cardinality(RunStatements)
  <2>1. IsFiniteSet({1}) /\ Cardinality({1}) = 1
    BY FS_Singleton
  <2> QED BY <1>5, <2>1, FS_Product
<1> HIDE DEF slots, main
<1>7. IsFiniteSet(RowStatements) /\ Cardinality(RowStatements) \in Nat
  BY <1>1, <1>2, FS_Subset, FS_CardinalityType
<1>8. /\ Cardinality(RowStatements \cup main) = Cardinality(RowStatements) + Cardinality(main)
  <2>1. Cardinality(RowStatements \cap main) = 0
    BY <1>4, FS_EmptySet
  <2>2. Cardinality(main) \in Nat
    BY <1>5, <1>6
  <2>3. Cardinality(RowStatements \cup main)
          = Cardinality(RowStatements) + Cardinality(main) - Cardinality(RowStatements \cap main)
    BY <1>6, <1>7, FS_Union
  <2> QED BY <1>7, <2>1, <2>2, <2>3
<1>9. Cardinality(RowStatements \cup main) <= Cardinality(slots)
  BY <1>1, <1>2, <1>3, FS_Subset
<1> QED BY <1>1, <1>5, <1>6, <1>7, <1>8, <1>9

LEMMA IInvPool == IInv => PoolSuffices
<1> SUFFICES ASSUME IInv PROVE InUse <= size + Uncounted
  BY DEF PoolSuffices
<1> DEFINE rows  == Cardinality(RowStatements)
           own   == Cardinality(RunStatements)
           beat  == Cardinality(BeatsInFlight)
           place == Places * Concurrency
           lost  == Concurrency * Cardinality(Loose)
<1>1. rows \in Nat /\ own \in Nat /\ beat \in Nat /\ size \in Nat
  BY RunStatementsFit, FiniteCounts, ConnectionsAssumption DEF IInv, TypeOK
<1>2. place \in Nat /\ lost \in Nat
  BY Numbers, AwakeFit
<1>3. rows + own <= place + lost
  <2>1. Cardinality(Awake) <= Places + Cardinality(Loose)
    BY AwakeFit
  <2>2. \A a, p, l, c \in Nat : a <= p + l => a * c <= p * c + c * l
    <3> SUFFICES ASSUME NEW a \in Nat, NEW p \in Nat, NEW l \in Nat, NEW c \in Nat, a <= p + l
                 PROVE  a * c <= p * c + c * l
      OBVIOUS
    <3>1. a * c <= (p + l) * c
      OBVIOUS
    <3> QED BY <3>1
  <2>3. Cardinality(Awake) * Concurrency <= place + lost
    BY <2>1, <2>2, AwakeFit, Numbers
  <2>4. Cardinality(Awake) * Concurrency \in Nat
    BY AwakeFit, Numbers
  <2>5. rows + own <= Cardinality(Awake) * Concurrency
    BY RunStatementsFit
  <2> HIDE DEF rows, own, place, lost
  <2> QED BY <1>1, <1>2, <2>3, <2>4, <2>5
<1>4. Uncounted = lost + (IF beat > 2 THEN beat - 2 ELSE 0)
  BY DEF Uncounted
<1>5. InUse = rows + own + beat + (IF poll = "idle" THEN 0 ELSE 1) + (IF sweep THEN 1 ELSE 0)
  BY DEF InUse
<1>6. CASE kind = "runner"
  <2>1. place = RunnerConcurrency /\ size >= RunnerConcurrency + 2
    BY <1>6, ConnectionsAssumption DEF Places, Concurrency, IInv, Fits, RunnerFits, InlineFits
  <2>2. poll = "idle" /\ ~sweep
    BY <1>6 DEF IInv, LaneBounded
  <2> HIDE DEF rows, own, beat, place, lost
  <2> QED BY <1>1, <1>2, <1>3, <1>4, <1>5, <2>1, <2>2, ConnectionsAssumption
<1>7. CASE kind = "dispatcher"
  <2>1. place = MaxInline * InlineRowConcurrency /\ size >= place + 4
    BY <1>7 DEF Places, Concurrency, IInv, Fits, RunnerFits, InlineFits
  <2> HIDE DEF rows, own, beat, place, lost
  <2> QED BY <1>1, <1>2, <1>3, <1>4, <1>5, <2>1
<1> QED BY <1>6, <1>7 DEF IInv, TypeOK

LEMMA IInvPage == IInv => PageIsWhole
<1> SUFFICES ASSUME IInv, NEW r \in Runs
             PROVE  /\ \A v, w \in Busy(r) : v # w => row[r][v] # row[r][w]
                    /\ stage[r] = "advance" =>
                         Busy(r) = {} /\ (halt[r] # "no" \/ cursor[r] = items[r])
  BY DEF PageIsWhole
<1> QED BY DEF IInv, RunOK, Busy

(* The strengthening is inductive.                                         *)
THEOREM ConnectionsInvariant == Spec => []IInv
BY IInvInit, IInvNext, PTL DEF Spec

(* Type correctness, whatever throws and whenever the process ends.        *)
THEOREM ConnectionsTypes == Spec => []TypeOK
<1>1. IInv => TypeOK
  BY DEF IInv
<1> QED BY <1>1, ConnectionsInvariant, PTL

(* The checks at boot cover what the process does: for every concurrency,  *)
(* cap, pool that passes them and number of overlapping beats, whatever    *)
(* tasks are claimed again while they run, more statements are in flight   *)
(* than there are connections only by the rows of runs that have no entry  *)
(* in the map and by the beats beyond two.                                 *)
THEOREM ChecksCoverTheDemand == Spec => []PoolSuffices
<1> QED BY IInvPool, ConnectionsInvariant, PTL

(* mapPool hands each row to one worker, and returns after the last one.   *)
THEOREM RowsHandedOutOnce == Spec => []PageIsWhole
<1> QED BY IInvPage, ConnectionsInvariant, PTL
=============================================================================
