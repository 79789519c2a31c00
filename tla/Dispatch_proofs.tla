-------------------------- MODULE Dispatch_proofs ---------------------------
(***************************************************************************)
(* What TLAPS proves of Dispatch, for any number of tasks and dispatchers, *)
(* any caps and any bound: the caps of the lanes hold and each claim is    *)
(* delivered once.                                                         *)
(***************************************************************************)
EXTENDS Dispatch, FiniteSetTheorems, TLAPS

(* The claim was committed: its epoch is over, or its task left the queue. *)
Won(c) ==
  \/ epoch[Task(c)] > c[2]
  \/ epoch[Task(c)] = c[2] /\ status[Task(c)] \in {"claimed", "completed", "failed"}

(* A locked row is still in the queue at the epoch that was read; what was *)
(* routed, or is about to be, was won.                                     *)
WinsInOrder ==
  /\ \A d \in Dispatchers :
       /\ tick[d] = "locked" => /\ status[Task(held[d])] = "pending"
                                /\ epoch[Task(held[d])] = held[d][2]
       /\ tick[d] = "claimed" => Won(held[d])
  /\ \A c \in Claims : launched[c] >= 1 => Won(c)

Free(d, w) == IF w = "light" THEN Cardinality(active[d]) < MaxInline
                             ELSE Cardinality(live[d]) < MaxRunners

(* What one dispatcher's lanes must satisfy: the caps, and that the lane a *)
(* claim is headed for is free from the look at it to the launch.          *)
LanesOK(d) ==
  /\ Cardinality(active[d]) <= MaxInline /\ active[d] \subseteq inline[d]
  /\ Cardinality(live[d]) <= MaxRunners /\ procs[d] \subseteq live[d]
  /\ tick[d] \in {"locked", "claimed"} => Free(d, Weight(Task(held[d])))
  /\ tick[d] = "asked" => \A w \in asked[d] : Free(d, w)
  /\ IsFiniteSet(active[d]) /\ IsFiniteSet(live[d])

IInv == TypeOK /\ (\A d \in Dispatchers : LanesOK(d)) /\ DeliveredOnce /\ WinsInOrder

-----------------------------------------------------------------------------
LEMMA TasksArePositive == \A t \in Tasks : t \in Nat /\ t >= 1
  BY DispatchAssumption DEF Tasks

LEMMA NoClaimIsNone == NoClaim \notin Claims
  BY TasksArePositive DEF NoClaim, Claims

LEMMA ClaimParts ==
  /\ \A c \in Claims : Task(c) \in Tasks /\ c[2] \in 0 .. MaxEpoch /\ c = <<Task(c), c[2]>>
  /\ \A t \in Tasks, e \in 0 .. MaxEpoch :
       <<t, e>> \in Claims /\ Task(<<t, e>>) = t /\ <<t, e>>[2] = e
  BY DEF Claims, Task

(* A claim that is held is a claim.                                        *)
LEMMA HeldIsClaim ==
  ASSUME TypeOK, NEW d \in Dispatchers, tick[d] \in {"locked", "claimed"}
  PROVE  held[d] \in Claims
  BY DEF TypeOK

LEMMA InitInv == Init => IInv
<1> SUFFICES ASSUME Init PROVE IInv OBVIOUS
<1>1. TypeOK
  BY DispatchAssumption, NoClaimIsNone DEF Init, TypeOK
<1>2. \A d \in Dispatchers : LanesOK(d)
  BY FS_EmptySet, DispatchAssumption DEF Init, LanesOK
<1>3. DeliveredOnce
  BY DEF Init, DeliveredOnce, Holders
<1>4. WinsInOrder
  BY DEF Init, WinsInOrder
<1> QED BY <1>1, <1>2, <1>3, <1>4 DEF IInv

-----------------------------------------------------------------------------
(* Type correctness.                                                       *)

LEMMA TypeTick ==
  ASSUME TypeOK, NEW d \in Dispatchers,
         Ask(d) \/ Lock(d) \/ Commit(d) \/ ClaimFails(d) \/ Route(d)
  PROVE  TypeOK'
<1> USE DEF queue, process, lanes, TypeOK
<1>1. CASE Ask(d)
  <2>1. CASE UNCHANGED <<queue, process, lanes, launched>> /\ Rest(d)
    BY <2>1 DEF Rest
  <2>2. ClaimableWeights(d) \in SUBSET {"light", "heavy"}
    BY DEF ClaimableWeights
  <2>3. CASE ClaimableWeights(d) # {}
    <3>1. tick[d] \in {"idle", "loop"}
      BY <1>1 DEF Ask
    <3> QED BY <1>1, <2>2, <2>3, <3>1 DEF Ask
  <2> QED BY <1>1, <2>1, <2>3 DEF Ask
<1>2. CASE Lock(d)
  <2>1. CASE UNCHANGED <<queue, process, lanes, launched>> /\ Rest(d)
    BY <2>1 DEF Rest
  <2>2. ASSUME NEW t \in Tasks, held' = [held EXCEPT ![d] = <<t, epoch[t]>>],
               tick' = [tick EXCEPT ![d] = "locked"],
               UNCHANGED <<asked, queue, process, lanes, launched>>
        PROVE  TypeOK'
    <3>1. <<t, epoch[t]>> \in Claims BY ClaimParts
    <3>2. <<t, epoch[t]>> # NoClaim BY <3>1, NoClaimIsNone
    <3> QED BY <2>2, <3>1, <3>2
  <2> QED BY <1>2, <2>1, <2>2 DEF Lock, Claimable
<1>3. CASE Commit(d)
  BY <1>3, HeldIsClaim, ClaimParts DEF Commit
<1>4. CASE ClaimFails(d)
  BY <1>4 DEF ClaimFails, Rest
<1>5. CASE Route(d)
  BY <1>5, HeldIsClaim DEF Route
<1> QED BY <1>1, <1>2, <1>3, <1>4, <1>5

LEMMA TypeOther ==
  ASSUME TypeOK, [Next]_vars,
         \A d \in Dispatchers : ~(Ask(d) \/ Lock(d) \/ Commit(d) \/ ClaimFails(d) \/ Route(d))
  PROVE  TypeOK'
<1> USE DEF queue, process, lanes, loop, TypeOK
<1>1. CASE UNCHANGED vars
  BY <1>1 DEF vars
<1>2. CASE Publish
  BY <1>2 DEF Publish
<1>3. CASE ReclaimStale
  BY <1>3, DispatchAssumption DEF ReclaimStale
<1>4. CASE DeadLetterStale
  BY <1>4, DispatchAssumption DEF DeadLetterStale
<1>5. CASE RetryFailed
  BY <1>5, DispatchAssumption DEF RetryFailed
<1>6. ASSUME NEW d \in Dispatchers,
             InlineEnds(d) \/ ProcEnds(d) \/ OnExit(d) \/ Shutdown(d) \/ Drained(d)
               \/ Abandon(d) \/ Exit(d) \/ Kill(d) \/ Boot(d)
      PROVE  TypeOK'
  <2>1. CASE InlineEnds(d)
    BY <2>1, ClaimParts DEF InlineEnds, Verdict
  <2>2. CASE ProcEnds(d)
    BY <2>2, ClaimParts DEF ProcEnds, Verdict
  <2>3. CASE OnExit(d)
    BY <2>3 DEF OnExit
  <2>4. CASE Shutdown(d)
    BY <2>4 DEF Shutdown
  <2>5. CASE Drained(d) \/ Abandon(d) \/ Boot(d)
    BY <2>5 DEF Drained, Abandon, Boot
  <2>6. CASE Exit(d) \/ Kill(d)
    <3>1. Gone(d)
      BY <2>6 DEF Exit, Kill
    <3>2. UNCHANGED <<status, epoch, launched>>
      BY <3>1 DEF Gone
    <3>3. /\ stops' \in [Dispatchers -> Nat] /\ asked' \in [Dispatchers -> SUBSET {"light", "heavy"}]
          /\ up' \in [Dispatchers -> {"up", "draining", "drained", "abandoned", "down"}]
      BY <3>1 DEF Gone, Rest
    <3>4. /\ active' \in [Dispatchers -> SUBSET Claims] /\ inline' \in [Dispatchers -> SUBSET Claims]
          /\ live' \in [Dispatchers -> SUBSET Claims] /\ procs' \in [Dispatchers -> SUBSET Claims]
          /\ waits' \in [Dispatchers -> SUBSET Claims]
      BY <3>1 DEF Gone
    <3>5. /\ tick' \in [Dispatchers -> {"idle", "asked", "locked", "claimed", "loop"}]
          /\ held' \in [Dispatchers -> Claims \cup {NoClaim}]
          /\ \A e \in Dispatchers : tick'[e] \in {"locked", "claimed"} <=> held'[e] # NoClaim
      BY <3>1 DEF Gone, Rest
    <3> QED BY <3>2, <3>3, <3>4, <3>5
  <2> QED BY <1>6, <2>1, <2>2, <2>3, <2>4, <2>5, <2>6
<1> QED BY <1>1, <1>2, <1>3, <1>4, <1>5, <1>6 DEF Next

LEMMA TypeStep == TypeOK /\ [Next]_vars => TypeOK'
  BY TypeTick, TypeOther

-----------------------------------------------------------------------------
(* The lanes.                                                              *)

LEMMA LanesAreCaps == (\A d \in Dispatchers : LanesOK(d)) => LaneCaps
  BY DEF LaneCaps, LanesOK, Free, Weight

(* A lane that shrinks, of a dispatcher whose tick rests or goes on as it  *)
(* was, stays within its cap.                                              *)
LEMMA LanesShrink ==
  ASSUME TypeOK, TypeOK', NEW d \in Dispatchers, LanesOK(d),
         active'[d] \subseteq active[d], live'[d] \subseteq live[d],
         active'[d] \subseteq inline'[d], procs'[d] \subseteq live'[d],
         \/ tick'[d] \in {"idle", "loop"}
         \/ UNCHANGED <<tick[d], asked[d], held[d]>>
  PROVE  LanesOK(d)'
<1>1. /\ IsFiniteSet(active'[d]) /\ Cardinality(active'[d]) <= Cardinality(active[d])
      /\ IsFiniteSet(live'[d]) /\ Cardinality(live'[d]) <= Cardinality(live[d])
  BY FS_Subset DEF LanesOK
<1>2. /\ Cardinality(active[d]) \in Nat /\ Cardinality(active'[d]) \in Nat
      /\ Cardinality(live[d]) \in Nat /\ Cardinality(live'[d]) \in Nat
  BY <1>1, FS_CardinalityType DEF LanesOK
<1>3. MaxInline \in Nat /\ MaxRunners \in Nat
  BY DispatchAssumption
<1>4. \A w : Free(d, w) => Free(d, w)'
  BY <1>1, <1>2, <1>3 DEF Free
<1>5. Cardinality(active'[d]) <= MaxInline /\ Cardinality(live'[d]) <= MaxRunners
  BY <1>1, <1>2, <1>3 DEF LanesOK
<1>6. CASE tick'[d] \in {"idle", "loop"}
  BY <1>1, <1>5, <1>6 DEF LanesOK
<1>7. CASE UNCHANGED <<tick[d], asked[d], held[d]>>
  BY <1>1, <1>4, <1>5, <1>7 DEF LanesOK
<1> QED BY <1>6, <1>7

(* A dispatcher no part of whose state changes keeps its lanes.            *)
LEMMA LanesSame ==
  ASSUME TypeOK, NEW d \in Dispatchers, LanesOK(d),
         UNCHANGED <<tick[d], asked[d], held[d], active[d], inline[d], live[d], procs[d]>>
  PROVE  LanesOK(d)'
  BY DEF LanesOK, Free

(* One more member, in place of those of the same task.                    *)
LEMMA OneMore ==
  ASSUME NEW S, IsFiniteSet(S), NEW T \in SUBSET S, NEW x, NEW n \in Nat, Cardinality(S) < n,
         NEW U, U = T \cup {x}
  PROVE  IsFiniteSet(U) /\ Cardinality(U) <= n
<1>1. IsFiniteSet(T) /\ Cardinality(T) <= Cardinality(S)
  BY FS_Subset
<1>2. Cardinality(S) \in Nat /\ Cardinality(T) \in Nat
  BY <1>1, FS_CardinalityType
<1>3. /\ IsFiniteSet(T \cup {x})
      /\ Cardinality(T \cup {x}) = Cardinality(T) \/ Cardinality(T \cup {x}) = Cardinality(T) + 1
  BY <1>1, FS_AddElement
<1> QED BY <1>1, <1>2, <1>3

LEMMA LanesTick ==
  ASSUME TypeOK, TypeOK', NEW d \in Dispatchers, LanesOK(d),
         Ask(d) \/ Lock(d) \/ Commit(d) \/ ClaimFails(d) \/ Route(d)
  PROVE  LanesOK(d)'
<1> USE DEF queue, process, lanes
<1>0. ASSUME Rest(d), UNCHANGED lanes
      PROVE  LanesOK(d)'
  <2>1. tick'[d] = "idle"
    BY <1>0 DEF Rest, TypeOK
  <2> QED BY <1>0, <2>1, LanesShrink DEF LanesOK
<1>1. CASE Ask(d)
  <2>1. CASE ~Rest(d)
    <3>1. tick'[d] = "asked" /\ asked'[d] = ClaimableWeights(d) /\ UNCHANGED lanes
      BY <1>1, <2>1 DEF Ask, TypeOK
    <3>2. \A w \in asked'[d] : Free(d, w)
      BY <3>1 DEF ClaimableWeights, Free
    <3> QED BY <3>1, <3>2 DEF LanesOK, Free
  <2> QED BY <1>1, <2>1, <1>0 DEF Ask
<1>2. CASE Lock(d)
  <2>1. CASE ~Rest(d)
    <3>1. PICK t \in Claimable(d) : held' = [held EXCEPT ![d] = <<t, epoch[t]>>]
      BY <1>2, <2>1 DEF Lock
    <3>2. tick[d] = "asked" /\ tick'[d] = "locked" /\ UNCHANGED lanes
      BY <1>2, <2>1 DEF Lock, TypeOK
    <3>3. Task(held'[d]) = t
      BY <3>1 DEF Task, TypeOK
    <3>4. Free(d, Weight(t))
      BY <3>1, <3>2 DEF Claimable, LanesOK
    <3> QED BY <3>2, <3>3, <3>4 DEF LanesOK, Free
  <2> QED BY <1>2, <2>1, <1>0 DEF Lock
<1>3. CASE Commit(d)
  <2>1. tick[d] = "locked" /\ tick'[d] = "claimed" /\ UNCHANGED <<held, lanes>>
    BY <1>3 DEF Commit, TypeOK
  <2> QED BY <2>1 DEF LanesOK, Free
<1>4. CASE ClaimFails(d)
  BY <1>4, <1>0 DEF ClaimFails
<1>5. CASE Route(d)
  <2>1. tick[d] = "claimed" /\ tick'[d] = "loop"
    BY <1>5 DEF Route, TypeOK
  <2>2. Free(d, Weight(Task(held[d])))
    BY <2>1 DEF LanesOK
  <2>3. CASE UNCHANGED lanes
    BY <2>1, <2>3, LanesShrink DEF LanesOK
  <2>4. CASE /\ Weight(Task(held[d])) = "light"
             /\ active' = [active EXCEPT ![d] = {y \in @ : Task(y) # Task(held[d])} \cup {held[d]}]
             /\ inline' = [inline EXCEPT ![d] = @ \cup {held[d]}]
             /\ UNCHANGED <<live, procs>>
    <3> DEFINE T == {y \in active[d] : Task(y) # Task(held[d])}
    <3>1. active'[d] = T \cup {held[d]} /\ inline'[d] = inline[d] \cup {held[d]}
      BY <2>4 DEF TypeOK
    <3>2. IsFiniteSet(active'[d]) /\ Cardinality(active'[d]) <= MaxInline
      <4>1. /\ IsFiniteSet(active[d]) /\ Cardinality(active[d]) < MaxInline
            /\ T \in SUBSET active[d] /\ MaxInline \in Nat
        BY <2>2, <2>4, DispatchAssumption DEF Free, LanesOK
      <4> HIDE DEF T
      <4> QED BY <3>1, <4>1, OneMore
    <3>3. active'[d] \subseteq inline'[d]
      BY <3>1 DEF LanesOK
    <3> QED BY <2>1, <2>4, <3>2, <3>3 DEF LanesOK
  <2>5. CASE /\ Weight(Task(held[d])) = "heavy"
             /\ live'  = [live EXCEPT ![d] = @ \cup {held[d]}]
             /\ procs' = [procs EXCEPT ![d] = @ \cup {held[d]}]
             /\ UNCHANGED <<active, inline>>
    <3>1. live'[d] = live[d] \cup {held[d]} /\ procs'[d] = procs[d] \cup {held[d]}
      BY <2>5 DEF TypeOK
    <3>2. IsFiniteSet(live'[d]) /\ Cardinality(live'[d]) <= MaxRunners
      <4>1. /\ IsFiniteSet(live[d]) /\ Cardinality(live[d]) < MaxRunners
            /\ live[d] \in SUBSET live[d] /\ MaxRunners \in Nat
        BY <2>2, <2>5, DispatchAssumption DEF Free, LanesOK
      <4> QED BY <3>1, <4>1, OneMore
    <3> QED BY <2>1, <2>5, <3>1, <3>2 DEF LanesOK
  <2> QED BY <1>5, <2>3, <2>4, <2>5 DEF Route
<1> QED BY <1>1, <1>2, <1>3, <1>4, <1>5

LEMMA LanesProcess ==
  ASSUME TypeOK, TypeOK', NEW d \in Dispatchers, LanesOK(d),
         InlineEnds(d) \/ ProcEnds(d) \/ OnExit(d) \/ Shutdown(d) \/ Drained(d)
           \/ Abandon(d) \/ Exit(d) \/ Kill(d) \/ Boot(d)
  PROVE  LanesOK(d)'
<1> USE DEF queue, process, lanes, loop
<1>1. CASE InlineEnds(d)
  <2>1. PICK x \in inline[d] :
          /\ inline' = [inline EXCEPT ![d] = @ \ {x}]
          /\ active' = [active EXCEPT ![d] = {y \in @ : Task(y) # Task(x)}]
          /\ UNCHANGED <<epoch, live, procs, loop, process, launched>>
    BY <1>1 DEF InlineEnds
  <2>2. inline'[d] = inline[d] \ {x} /\ active'[d] = {y \in active[d] : Task(y) # Task(x)}
    BY <2>1 DEF TypeOK
  <2>3. active'[d] \subseteq inline'[d] /\ active'[d] \subseteq active[d]
    BY <2>2 DEF LanesOK
  <2> QED BY <2>1, <2>3, LanesShrink DEF LanesOK
<1>2. CASE ProcEnds(d)
  <2>1. procs'[d] \subseteq procs[d] /\ UNCHANGED <<live, active, inline, tick, asked, held>>
    BY <1>2 DEF ProcEnds, TypeOK
  <2> QED BY <2>1, LanesShrink DEF LanesOK
<1>3. CASE OnExit(d)
  <2>1. /\ live'[d] \subseteq live[d] /\ procs[d] \subseteq live'[d]
        /\ UNCHANGED <<procs, active, inline, tick, asked, held>>
    BY <1>3 DEF OnExit, TypeOK, LanesOK
  <2> QED BY <2>1, LanesShrink DEF LanesOK
<1>4. CASE Shutdown(d) \/ Drained(d) \/ Abandon(d) \/ Boot(d)
  BY <1>4, LanesSame DEF Shutdown, Drained, Abandon, Boot
<1>5. CASE Exit(d) \/ Kill(d)
  <2>1. Gone(d)
    BY <1>5 DEF Exit, Kill
  <2>2. active'[d] = {} /\ live'[d] = {} /\ procs'[d] = {} /\ tick'[d] = "idle"
    BY <2>1 DEF Gone, Rest, TypeOK
  <2> QED BY <2>2, LanesShrink
<1> QED BY <1>1, <1>2, <1>3, <1>4, <1>5

LEMMA LanesStep ==
  ASSUME TypeOK, TypeOK', [Next]_vars, NEW d \in Dispatchers, LanesOK(d)
  PROVE  LanesOK(d)'
<1>2. CASE UNCHANGED <<tick[d], asked[d], held[d], active[d], inline[d], live[d], procs[d]>>
  BY <1>2, LanesSame
<1>3. ASSUME NEW e \in Dispatchers, e # d,
             \/ Ask(e) \/ Lock(e) \/ Commit(e) \/ ClaimFails(e) \/ Route(e)
             \/ InlineEnds(e) \/ ProcEnds(e) \/ OnExit(e)
             \/ Shutdown(e) \/ Drained(e) \/ Abandon(e) \/ Exit(e) \/ Kill(e) \/ Boot(e)
      PROVE  UNCHANGED <<tick[d], asked[d], held[d], active[d], inline[d], live[d], procs[d]>>
  <2> USE DEF queue, process, lanes, loop, Rest, TypeOK
  <2>1. CASE Ask(e) \/ Lock(e) \/ Commit(e) \/ ClaimFails(e)
    BY <1>3, <2>1 DEF Ask, Lock, Commit, ClaimFails
  <2>2. CASE Route(e)
    BY <1>3, <2>2 DEF Route
  <2>3. CASE InlineEnds(e) \/ ProcEnds(e) \/ OnExit(e)
    BY <1>3, <2>3 DEF InlineEnds, ProcEnds, OnExit
  <2>4. CASE Shutdown(e) \/ Drained(e) \/ Abandon(e) \/ Boot(e)
    BY <2>4 DEF Shutdown, Drained, Abandon, Boot
  <2>5. CASE Exit(e) \/ Kill(e)
    BY <1>3, <2>5 DEF Exit, Kill, Gone
  <2> QED BY <1>3, <2>1, <2>2, <2>3, <2>4, <2>5
<1>4. CASE UNCHANGED vars \/ Publish \/ ReclaimStale \/ DeadLetterStale \/ RetryFailed
  BY <1>2, <1>4 DEF vars, Publish, ReclaimStale, DeadLetterStale, RetryFailed, lanes, loop
<1>5. ASSUME NEW e \in Dispatchers,
             \/ Ask(e) \/ Lock(e) \/ Commit(e) \/ ClaimFails(e) \/ Route(e)
             \/ InlineEnds(e) \/ ProcEnds(e) \/ OnExit(e)
             \/ Shutdown(e) \/ Drained(e) \/ Abandon(e) \/ Exit(e) \/ Kill(e) \/ Boot(e)
      PROVE  LanesOK(d)'
  <2>1. CASE e = d
    BY <1>5, <2>1, LanesTick, LanesProcess
  <2>2. CASE e # d
    BY <1>2, <1>3, <1>5, <2>2
  <2> QED BY <2>1, <2>2
<1> QED BY <1>4, <1>5 DEF Next

-----------------------------------------------------------------------------
(* Delivery.                                                               *)

(* A won claim stays won, whatever the queue does next.                    *)
LEMMA WonStaysWon ==
  ASSUME TypeOK, NEW c \in Claims, Won(c),
         \/ UNCHANGED queue \/ Publish \/ ReclaimStale \/ DeadLetterStale \/ RetryFailed
         \/ \E x \in Claims : Verdict(x) /\ UNCHANGED epoch
         \/ \E d \in Dispatchers : Commit(d) /\ status[Task(held[d])] = "pending"
  PROVE  Won(c)'
<1> USE ClaimParts DEF TypeOK, Won, queue
<1>1. CASE UNCHANGED queue
  BY <1>1
<1>2. CASE Publish
  BY <1>2 DEF Publish
<1>3. CASE ReclaimStale
  BY <1>3 DEF ReclaimStale
<1>4. CASE DeadLetterStale
  BY <1>4 DEF DeadLetterStale
<1>5. CASE RetryFailed
  BY <1>5 DEF RetryFailed
<1>6. CASE \E x \in Claims : Verdict(x) /\ UNCHANGED epoch
  BY <1>6 DEF Verdict
<1>7. CASE \E d \in Dispatchers : Commit(d) /\ status[Task(held[d])] = "pending"
  <2>1. PICK d \in Dispatchers : Commit(d) /\ status[Task(held[d])] = "pending"
    BY <1>7
  <2>2. UNCHANGED epoch /\ status' = [status EXCEPT ![Task(held[d])] = "claimed"]
    BY <2>1 DEF Commit
  <2> QED BY <2>2
<1> QED BY <1>1, <1>2, <1>3, <1>4, <1>5, <1>6, <1>7

(* No step but a claim's own takes a locked row out of the queue.          *)
LEMMA PendingStaysPending ==
  ASSUME TypeOK, NEW t \in Tasks, status[t] = "pending",
         \/ UNCHANGED queue \/ Publish \/ ReclaimStale \/ DeadLetterStale \/ RetryFailed
         \/ \E x \in Claims : Verdict(x) /\ UNCHANGED epoch
  PROVE  status'[t] = "pending" /\ epoch'[t] = epoch[t]
<1> USE ClaimParts DEF TypeOK, queue
<1>1. CASE UNCHANGED queue \/ Publish
  BY <1>1 DEF Publish
<1>2. CASE ReclaimStale \/ DeadLetterStale
  BY <1>2 DEF ReclaimStale, DeadLetterStale
<1>3. CASE RetryFailed
  BY <1>3 DEF RetryFailed
<1>4. CASE \E x \in Claims : Verdict(x) /\ UNCHANGED epoch
  BY <1>4 DEF Verdict
<1> QED BY <1>1, <1>2, <1>3, <1>4

(* A step that neither claims nor routes, and lets each tick rest or go on *)
(* as it was, delivers nothing.                                            *)
LEMMA DeliveryQuiet ==
  ASSUME TypeOK, DeliveredOnce, WinsInOrder, UNCHANGED launched,
         \A d \in Dispatchers :
           tick'[d] \in {"locked", "claimed"} => UNCHANGED <<tick[d], held[d]>>,
         \/ UNCHANGED queue \/ Publish \/ ReclaimStale \/ DeadLetterStale \/ RetryFailed
         \/ \E x \in Claims : Verdict(x) /\ UNCHANGED epoch
  PROVE  DeliveredOnce' /\ WinsInOrder'
<1>1. \A c \in Claims : Holders(c)' \subseteq Holders(c)
  BY DEF Holders
<1>2. DeliveredOnce'
  BY <1>1 DEF DeliveredOnce
<1>3. ASSUME NEW d \in Dispatchers, tick'[d] = "locked"
      PROVE  status'[Task(held'[d])] = "pending" /\ epoch'[Task(held'[d])] = held'[d][2]
  <2>1. tick[d] = "locked" /\ held'[d] = held[d]
    BY <1>3
  <2> QED BY <2>1, HeldIsClaim, ClaimParts, PendingStaysPending DEF WinsInOrder
<1>4. ASSUME NEW d \in Dispatchers, tick'[d] = "claimed"
      PROVE  Won(held[d])' /\ held'[d] = held[d]
  <2>1. tick[d] = "claimed" /\ held'[d] = held[d]
    BY <1>4
  <2>2. Won(held[d]) /\ held[d] \in Claims
    BY <2>1, HeldIsClaim DEF WinsInOrder
  <2> QED BY <2>1, <2>2, WonStaysWon
<1>5. ASSUME NEW c \in Claims, launched'[c] >= 1
      PROVE  Won(c)'
  BY <1>5, WonStaysWon DEF WinsInOrder
<1> QED BY <1>2, <1>3, <1>4, <1>5 DEF WinsInOrder

(* SKIP LOCKED: the row that is locked is nobody else's, and no run of its *)
(* epoch exists, for the row is pending.                                   *)
LEMMA DeliveryLock ==
  ASSUME TypeOK, TypeOK', DeliveredOnce, WinsInOrder, NEW d \in Dispatchers,
         Lock(d), ~Rest(d)
  PROVE  DeliveredOnce' /\ WinsInOrder'
<1>1. PICK t \in Tasks : /\ status[t] = "pending" /\ ~Locked(t)
                         /\ held' = [held EXCEPT ![d] = <<t, epoch[t]>>]
  BY DEF Lock, Claimable
<1>2. /\ tick[d] = "asked" /\ tick' = [tick EXCEPT ![d] = "locked"]
      /\ UNCHANGED <<status, epoch, launched>>
  BY DEF Lock, queue
<1>3. PICK c \in Claims : c = <<t, epoch[t]>> /\ Task(c) = t /\ c[2] = epoch[t]
  <2>1. epoch[t] \in 0 .. MaxEpoch
    BY DEF TypeOK
  <2>2. <<t, epoch[t]>> \in Claims
    BY <2>1, ClaimParts
  <2> QED BY <2>1, <2>2, ClaimParts
<1>4. ~Won(c) /\ launched[c] = 0
  <2>1. ~Won(c)
    BY <1>1, <1>3 DEF Won, TypeOK
  <2> QED BY <2>1 DEF WinsInOrder, TypeOK
<1>5. Holders(c) = {}
  <2> SUFFICES ASSUME NEW f \in Holders(c) PROVE FALSE OBVIOUS
  <2>1. tick[f] = "locked"
    BY <1>4 DEF Holders, WinsInOrder
  <2> QED BY <1>1, <1>3, <2>1 DEF Holders, Locked
<1>6. held'[d] = c /\ tick'[d] = "locked"
  BY <1>1, <1>2, <1>3 DEF TypeOK
<1>7. \A f \in Dispatchers \ {d} : held'[f] = held[f] /\ tick'[f] = tick[f]
  BY <1>1, <1>2 DEF TypeOK
<1>8. Holders(c)' = {d} /\ \A x \in Claims \ {c} : Holders(x)' \subseteq Holders(x)
  BY <1>5, <1>6, <1>7 DEF Holders
<1>9. DeliveredOnce'
  BY <1>2, <1>4, <1>8 DEF DeliveredOnce
<1>10. \A x \in Claims : Won(x)' <=> Won(x)
  BY <1>2 DEF Won
<1>11. WinsInOrder'
  <2>1. ASSUME NEW f \in Dispatchers, tick'[f] = "locked"
        PROVE  status'[Task(held'[f])] = "pending" /\ epoch'[Task(held'[f])] = held'[f][2]
    BY <1>1, <1>2, <1>3, <1>6, <1>7, <2>1 DEF WinsInOrder
  <2>2. ASSUME NEW f \in Dispatchers, tick'[f] = "claimed"
        PROVE  Won(held[f])'
    <3>1. f # d /\ tick[f] = "claimed" /\ held'[f] = held[f]
      BY <1>6, <1>7, <2>2
    <3> QED BY <1>2, <3>1 DEF WinsInOrder, Won
  <2>3. ASSUME NEW x \in Claims, launched'[x] >= 1 PROVE Won(x)'
    BY <1>2, <1>10, <2>3 DEF WinsInOrder
  <2> QED BY <2>1, <2>2, <2>3 DEF WinsInOrder
<1> QED BY <1>9, <1>11

(* The claim commits: its epoch is won, and no other lock is on that row.  *)
LEMMA DeliveryCommit ==
  ASSUME TypeOK, TypeOK', DeliveredOnce, WinsInOrder, NEW d \in Dispatchers, Commit(d)
  PROVE  DeliveredOnce' /\ WinsInOrder'
<1>1. /\ tick[d] = "locked" /\ tick' = [tick EXCEPT ![d] = "claimed"]
      /\ UNCHANGED <<held, epoch, launched>>
      /\ status' = [status EXCEPT ![Task(held[d])] = "claimed"]
  BY DEF Commit
<1>2. held[d] \in Claims /\ status[Task(held[d])] = "pending"
      /\ epoch[Task(held[d])] = held[d][2]
  BY <1>1, HeldIsClaim DEF WinsInOrder
<1>3. \A x \in Claims : Holders(x)' = Holders(x)
  BY <1>1 DEF Holders, TypeOK
<1>4. DeliveredOnce'
  BY <1>1, <1>3 DEF DeliveredOnce
<1>5. \A x \in Claims : Won(x) => Won(x)'
  BY <1>2, WonStaysWon
<1>6. ASSUME NEW f \in Dispatchers, tick'[f] = "locked"
      PROVE  status'[Task(held'[f])] = "pending" /\ epoch'[Task(held'[f])] = held'[f][2]
  <2>1. f # d /\ tick[f] = "locked"
    BY <1>1, <1>6 DEF TypeOK
  <2>2. status[Task(held[f])] = "pending" /\ epoch[Task(held[f])] = held[f][2] /\ held[f] \in Claims
    BY <2>1, HeldIsClaim DEF WinsInOrder
  <2>3. Task(held[f]) # Task(held[d])
    <3> SUFFICES ASSUME Task(held[f]) = Task(held[d]) PROVE FALSE OBVIOUS
    <3>1. held[f] = held[d]
      BY <1>2, <2>2, ClaimParts
    <3> QED BY <1>1, <1>2, <2>1, <3>1 DEF DeliveredOnce, Holders
  <2> QED BY <1>1, <1>2, <2>2, <2>3, ClaimParts DEF TypeOK
<1>7. ASSUME NEW f \in Dispatchers, tick'[f] = "claimed"
      PROVE  Won(held[f])'
  <2>1. CASE f = d
    <3>1. status'[Task(held[d])] = "claimed" /\ epoch'[Task(held[d])] = held'[d][2]
      BY <1>1, <1>2, ClaimParts DEF TypeOK
    <3> QED BY <1>1, <2>1, <3>1 DEF Won
  <2>2. CASE f # d
    <3>1. tick[f] = "claimed" /\ held[f] \in Claims /\ held'[f] = held[f]
      BY <1>1, <1>7, <2>2, HeldIsClaim DEF TypeOK
    <3> QED BY <1>5, <3>1 DEF WinsInOrder, Won
  <2> QED BY <2>1, <2>2
<1>8. ASSUME NEW x \in Claims, launched'[x] >= 1 PROVE Won(x)'
  BY <1>1, <1>5, <1>8 DEF WinsInOrder
<1> QED BY <1>4, <1>6, <1>7, <1>8 DEF WinsInOrder

(* The claim is routed by the one dispatcher that held it.                 *)
LEMMA DeliveryRoute ==
  ASSUME TypeOK, TypeOK', DeliveredOnce, WinsInOrder, NEW d \in Dispatchers, Route(d)
  PROVE  DeliveredOnce' /\ WinsInOrder'
<1> PICK c : c = held[d]
  OBVIOUS
<1>1. /\ tick[d] = "claimed" /\ tick' = [tick EXCEPT ![d] = "loop"]
      /\ held' = [held EXCEPT ![d] = NoClaim] /\ UNCHANGED <<status, epoch>>
      /\ UNCHANGED launched \/ launched' = [launched EXCEPT ![c] = @ + 1]
  BY DEF Route, queue
<1>2. c \in Claims /\ Won(c) /\ d \in Holders(c)
  BY <1>1, HeldIsClaim DEF WinsInOrder, Holders
<1>3. launched[c] = 0 /\ Holders(c) = {d}
  <2>1. launched[c] \in Nat /\ launched[c] <= 1 /\ launched[c] # 1
    BY <1>2 DEF DeliveredOnce, TypeOK
  <2>2. \A f \in Holders(c) : f = d
    BY <1>2 DEF DeliveredOnce
  <2> QED BY <1>2, <2>1, <2>2
<1>4. /\ \A f \in Dispatchers \ {d} : held'[f] = held[f] /\ tick'[f] = tick[f]
      /\ tick'[d] = "loop"
  BY <1>1 DEF TypeOK
<1>5. Holders(c)' = {} /\ \A x \in Claims : Holders(x)' \subseteq Holders(x)
  BY <1>3, <1>4 DEF Holders
<1>6. launched'[c] <= 1 /\ \A x \in Claims \ {c} : launched'[x] = launched[x]
  BY <1>1, <1>2, <1>3 DEF TypeOK
<1>7. DeliveredOnce'
  <2> SUFFICES ASSUME NEW x \in Claims
               PROVE  /\ launched'[x] <= 1
                      /\ launched'[x] = 1 => Holders(x)' = {}
                      /\ \A f, g \in Holders(x)' : f = g
    BY DEF DeliveredOnce
  <2> QED BY <1>5, <1>6 DEF DeliveredOnce
<1>8. \A x \in Claims : Won(x)' <=> Won(x)
  BY <1>1 DEF Won
<1>9. ASSUME NEW x \in Claims, launched'[x] >= 1 PROVE Won(x)'
  BY <1>2, <1>6, <1>8, <1>9 DEF WinsInOrder
<1>10. ASSUME NEW f \in Dispatchers, tick'[f] \in {"locked", "claimed"}
       PROVE  /\ tick'[f] = "locked" => /\ status'[Task(held'[f])] = "pending"
                                        /\ epoch'[Task(held'[f])] = held'[f][2]
              /\ tick'[f] = "claimed" => Won(held[f])'
  <2>1. tick'[f] = tick[f] /\ held'[f] = held[f]
    BY <1>4, <1>10
  <2> QED BY <1>1, <2>1 DEF WinsInOrder, Won
<1> QED BY <1>7, <1>9, <1>10 DEF WinsInOrder

LEMMA DeliveryStep ==
  ASSUME TypeOK, TypeOK', DeliveredOnce, WinsInOrder, [Next]_vars
  PROVE  DeliveredOnce' /\ WinsInOrder'
<1> USE DEF queue, process, lanes, loop
<1>1. CASE UNCHANGED vars \/ Publish \/ ReclaimStale \/ DeadLetterStale \/ RetryFailed
  <2>1. UNCHANGED <<loop, launched>>
    BY <1>1 DEF vars, Publish, ReclaimStale, DeadLetterStale, RetryFailed
  <2>2. UNCHANGED vars => UNCHANGED queue
    BY DEF vars
  <2> QED BY <1>1, <2>1, <2>2, DeliveryQuiet
<1>2. ASSUME NEW d \in Dispatchers, Rest(d), UNCHANGED <<queue, launched>>
      PROVE  DeliveredOnce' /\ WinsInOrder'
  <2>1. \A f \in Dispatchers :
          tick'[f] \in {"locked", "claimed"} => tick'[f] = tick[f] /\ held'[f] = held[f]
    BY <1>2 DEF Rest, TypeOK
  <2> QED BY <1>2, <2>1, DeliveryQuiet
<1>3. ASSUME NEW d \in Dispatchers, Ask(d)
      PROVE  DeliveredOnce' /\ WinsInOrder'
  <2>1. CASE Rest(d)
    BY <1>2, <1>3, <2>1 DEF Ask
  <2>2. CASE ~Rest(d)
    <3>1. \A f \in Dispatchers :
            tick'[f] \in {"locked", "claimed"} => tick'[f] = tick[f] /\ held'[f] = held[f]
      BY <1>3, <2>2 DEF Ask, TypeOK
    <3> QED BY <1>3, <3>1, DeliveryQuiet DEF Ask
  <2> QED BY <2>1, <2>2
<1>4. ASSUME NEW d \in Dispatchers, Lock(d)
      PROVE  DeliveredOnce' /\ WinsInOrder'
  BY <1>2, <1>4, DeliveryLock DEF Lock
<1>5. ASSUME NEW d \in Dispatchers, ClaimFails(d) \/ Exit(d) \/ Kill(d)
      PROVE  DeliveredOnce' /\ WinsInOrder'
  BY <1>2, <1>5 DEF ClaimFails, Exit, Kill, Gone
<1>6. ASSUME NEW d \in Dispatchers, InlineEnds(d) \/ ProcEnds(d)
      PROVE  DeliveredOnce' /\ WinsInOrder'
  <2>1. UNCHANGED <<loop, launched>>
    BY <1>6 DEF InlineEnds, ProcEnds
  <2>2. \E x \in Claims : Verdict(x) /\ UNCHANGED epoch
    BY <1>6 DEF InlineEnds, ProcEnds, TypeOK
  <2> QED BY <2>1, <2>2, DeliveryQuiet
<1>7. ASSUME NEW d \in Dispatchers,
             OnExit(d) \/ Shutdown(d) \/ Drained(d) \/ Abandon(d) \/ Boot(d)
      PROVE  DeliveredOnce' /\ WinsInOrder'
  <2>1. UNCHANGED <<loop, launched, queue>>
    BY <1>7 DEF OnExit, Shutdown, Drained, Abandon, Boot
  <2> QED BY <2>1, DeliveryQuiet
<1>8. CASE Next
  BY <1>1, <1>3, <1>4, <1>5, <1>6, <1>7, <1>8, DeliveryCommit, DeliveryRoute DEF Next
<1> QED BY <1>1, <1>8

-----------------------------------------------------------------------------
(* The dispatcher's inductive invariant: types, the lanes' caps, and that  *)
(* claims are won in order and delivered once.                             *)
THEOREM DispatchInvariant == Spec => []IInv
<1>1. IInv /\ [Next]_vars => IInv'
  <2> SUFFICES ASSUME IInv, [Next]_vars PROVE IInv' OBVIOUS
  <2>1. TypeOK'
    BY TypeStep DEF IInv
  <2>2. \A d \in Dispatchers : LanesOK(d)'
    BY <2>1, LanesStep DEF IInv
  <2>3. DeliveredOnce' /\ WinsInOrder'
    BY <2>1, DeliveryStep DEF IInv
  <2> QED BY <2>1, <2>2, <2>3 DEF IInv
<1> QED BY <1>1, InitInv, PTL DEF Spec

(* Every variable of the dispatcher's model has its type in every state.   *)
THEOREM DispatchTypes == Spec => []TypeOK
<1>1. IInv => TypeOK
  BY DEF IInv
<1> QED BY <1>1, DispatchInvariant, PTL

(* No lane outgrows its cap and no slot leaks, for any number of tasks and *)
(* any caps: the look at a lane outlives the round trip to the database,   *)
(* for the non-reentrant tick is the only one to fill it.                  *)
THEOREM LanesKeepCaps == Spec => []LaneCaps
<1>1. IInv => LaneCaps
  BY LanesAreCaps DEF IInv
<1> QED BY <1>1, DispatchInvariant, PTL

(* For any number of dispatchers, each epoch of a task is won by one of    *)
(* them and routed once (task.repository.ts:107-110).                      *)
THEOREM OneDeliveryPerClaim == Spec => []DeliveredOnce
<1>1. IInv => DeliveredOnce
  BY DEF IInv
<1> QED BY <1>1, DispatchInvariant, PTL
=============================================================================
