------------------------------ MODULE Dispatch ------------------------------
(***************************************************************************)
(* The dispatchers (apps/worker/src/dispatcher/dispatch/services): each    *)
(* polls the queue, claims what its lanes can take and routes the claim,   *)
(* light to a run inside its own process (InlineRunner), heavy to a        *)
(* spawned runner process (RunnerLauncher), while tasks are published,     *)
(* runs end, the sweeper reclaims and the dispatcher itself is shut down   *)
(* or killed and comes back.                                               *)
(*                                                                         *)
(* A task is reduced to what the dispatcher tells apart: its weight, its   *)
(* place in the queue (its number), whether it is claimable, and how often *)
(* it was reclaimed.  A claim is the pair of the task and that epoch, so a *)
(* claim made before a reclaim and one made after are two, and so are the  *)
(* runs they are routed to.                                                *)
(***************************************************************************)
EXTENDS Integers, FiniteSets

CONSTANTS
  NTasks,         \* tasks 1 .. NTasks, by created_at
  LightTasks,     \* the ones stamped `light`
  Dispatchers,
  MaxRunners,     \* DISPATCH_MAX_CONCURRENT_RUNNERS
  MaxInline,      \* DISPATCH_MAX_CONCURRENT_INLINE
  MaxEpoch,       \* bound: reclaims and replays of one task
  MaxStops        \* bound: how often one dispatcher is stopped or killed

Tasks == 1 .. NTasks

ASSUME DispatchAssumption ==
  /\ NTasks \in Nat /\ LightTasks \subseteq Tasks
  /\ MaxRunners \in Nat \ {0} /\ MaxInline \in Nat \ {0}
  /\ MaxEpoch \in Nat /\ MaxStops \in Nat

Weight(t) == IF t \in LightTasks THEN "light" ELSE "heavy"

Claims == Tasks \X (0 .. MaxEpoch)

NoClaim == <<0, 0>>

Task(c) == c[1]

VARIABLES
  status,    \* status[t]: "ingesting", "pending", "claimed" (starting or running),
             \* "completed" or "failed"
  epoch,     \* epoch[t]
  up,        \* up[d]: "up", "draining" (SIGTERM), then "drained" or, at the
             \* drain deadline, "abandoned", and "down"
  stops,     \* stops[d] (bound)
  tick,      \* tick[d]: "idle", or where the tick's loop is
  asked,     \* asked[d]: the weights this round asks for
  held,      \* held[d]: the claim whose row it has locked, then won
  active,    \* active[d]: the runs in InlineRunner's map, one per task id
  inline,    \* inline[d]: the inline runs whose promise has not settled
  live,      \* live[d]: the children in RunnerLauncher's set
  procs,     \* procs[d]: its children still running
  waits,     \* waits[d]: the runs the shutdown hook awaits
  launched   \* launched[c]: how many runs claim c was routed to

vars == <<status, epoch, up, stops, tick, asked, held, active, inline, live, procs, waits,
          launched>>

queue   == <<status, epoch>>
process == <<up, stops, waits>>
lanes   == <<active, inline, live, procs>>
loop    == <<tick, asked, held>>

Init ==
  /\ status = [t \in Tasks |-> "ingesting"]
  /\ epoch  = [t \in Tasks |-> 0]
  /\ up    = [d \in Dispatchers |-> "up"]
  /\ stops = [d \in Dispatchers |-> 0]
  /\ tick  = [d \in Dispatchers |-> "idle"]
  /\ asked = [d \in Dispatchers |-> {}]
  /\ held  = [d \in Dispatchers |-> NoClaim]
  /\ active = [d \in Dispatchers |-> {}] /\ inline = [d \in Dispatchers |-> {}]
  /\ live   = [d \in Dispatchers |-> {}] /\ procs  = [d \in Dispatchers |-> {}]
  /\ waits  = [d \in Dispatchers |-> {}]
  /\ launched = [c \in Claims |-> 0]

-----------------------------------------------------------------------------
(* One tick.                                                               *)

(* Code of the process runs until it is gone, shutdown or not.             *)
Runnable(d) == up[d] # "down"

(* The tick is over: `ticking` is reset.                                   *)
Rest(d) ==
  /\ tick'  = [tick EXCEPT ![d] = "idle"]
  /\ asked' = [asked EXCEPT ![d] = {}]
  /\ held'  = [held EXCEPT ![d] = NoClaim]

(* Mutant: one cap for the two lanes.                                      *)
ClaimableWeightsJointly(d) ==
  IF Cardinality(active[d]) < MaxInline /\ Cardinality(live[d]) < MaxRunners
  THEN {"light", "heavy"} ELSE {}

ClaimableWeights(d) ==
  {w \in {"light", "heavy"} :
     \/ w = "light" /\ Cardinality(active[d]) < MaxInline
     \/ w = "heavy" /\ Cardinality(live[d]) < MaxRunners}

(* Mutant: the lanes are looked at once per tick.                          *)
AskOnce(d) ==
  /\ Runnable(d)
  /\ tick[d] = "loop" \/ (tick[d] = "idle" /\ up[d] = "up" /\ ClaimableWeights(d) # {})
  /\ asked' = [asked EXCEPT ![d] = IF tick[d] = "loop" THEN @ ELSE ClaimableWeights(d)]
  /\ tick' = [tick EXCEPT ![d] = "asked"]
  /\ UNCHANGED <<held, queue, process, lanes, launched>>

(* A timer fires on an idle dispatcher, or the loop goes round: which      *)
(* lanes have a free slot.  A tick that finds none ends there.             *)
Ask(d) ==
  /\ Runnable(d)
  /\ tick[d] = "loop" \/ (tick[d] = "idle" /\ up[d] = "up" /\ ClaimableWeights(d) # {})
  /\ IF ClaimableWeights(d) = {}
     THEN Rest(d)
     ELSE /\ asked' = [asked EXCEPT ![d] = ClaimableWeights(d)]
          /\ tick' = [tick EXCEPT ![d] = "asked"]
          /\ UNCHANGED held
  /\ UNCHANGED <<queue, process, lanes, launched>>

Locked(t) == \E d \in Dispatchers : tick[d] = "locked" /\ Task(held[d]) = t

Claimable(d) == {t \in Tasks : status[t] = "pending" /\ Weight(t) \in asked[d]}

(* Mutant: the row is chosen without FOR UPDATE.                           *)
LockUnlocked(d) ==
  /\ Runnable(d) /\ tick[d] = "asked"
  /\ IF Claimable(d) = {}
     THEN Rest(d)
     ELSE /\ \E t \in Claimable(d) :
               /\ \A s \in Claimable(d) : t <= s
               /\ held' = [held EXCEPT ![d] = <<t, epoch[t]>>]
          /\ tick' = [tick EXCEPT ![d] = "locked"]
          /\ UNCHANGED asked
  /\ UNCHANGED <<queue, process, lanes, launched>>

(* claimNextPending: FOR UPDATE SKIP LOCKED on the oldest claimable row,   *)
(* or nothing is left to claim and the tick ends.                          *)
Lock(d) ==
  LET free == {t \in Claimable(d) : ~Locked(t)}
  IN  /\ Runnable(d) /\ tick[d] = "asked"
      /\ IF free = {}
         THEN Rest(d)
         ELSE /\ \E t \in free : /\ \A s \in free : t <= s
                                 /\ held' = [held EXCEPT ![d] = <<t, epoch[t]>>]
              /\ tick' = [tick EXCEPT ![d] = "locked"]
              /\ UNCHANGED asked
      /\ UNCHANGED <<queue, process, lanes, launched>>

(* Its update commits.                                                     *)
Commit(d) ==
  /\ tick[d] = "locked"
  /\ status' = [status EXCEPT ![Task(held[d])] = "claimed"]
  /\ tick' = [tick EXCEPT ![d] = "claimed"]
  /\ UNCHANGED <<epoch, asked, held, process, lanes, launched>>

(* The statement fails, or its reply is lost: the tick's catch.            *)
ClaimFails(d) ==
  /\ Runnable(d) /\ tick[d] \in {"asked", "locked", "claimed"}
  /\ Rest(d)
  /\ UNCHANGED <<queue, process, lanes, launched>>

(* The reply is routed: inline.run puts the run into the map, over the     *)
(* entry of an earlier run of the same task; launch spawns a child or      *)
(* logs its failure.                                                       *)
Route(d) ==
  LET t == Task(held[d])
      x == held[d]
  IN  /\ Runnable(d) /\ tick[d] = "claimed"
      /\ \/ /\ Weight(t) = "light"
            /\ active' = [active EXCEPT ![d] = {y \in @ : Task(y) # t} \cup {x}]
            /\ inline' = [inline EXCEPT ![d] = @ \cup {x}]
            /\ UNCHANGED <<live, procs>>
            /\ launched' = [launched EXCEPT ![x] = @ + 1]
         \/ /\ Weight(t) = "heavy"
            /\ live'  = [live EXCEPT ![d] = @ \cup {x}]
            /\ procs' = [procs EXCEPT ![d] = @ \cup {x}]
            /\ UNCHANGED <<active, inline>>
            /\ launched' = [launched EXCEPT ![x] = @ + 1]
         \/ /\ Weight(t) = "heavy"                      \* the spawn threw
            /\ UNCHANGED <<lanes, launched>>
      /\ tick' = [tick EXCEPT ![d] = "loop"]
      /\ held' = [held EXCEPT ![d] = NoClaim]
      /\ UNCHANGED <<asked, queue, process>>

-----------------------------------------------------------------------------
(* Runs end, with the verdict or without (drained, fenced out, crashed).   *)

(* The epoch a run acquires is its claim's or a later one; which verdicts  *)
(* it may then write is Runner's subject.                                  *)
Verdict(x) ==
  \/ /\ status[Task(x)] = "claimed" /\ epoch[Task(x)] >= x[2]
     /\ \E v \in {"completed", "failed"} : status' = [status EXCEPT ![Task(x)] = v]
  \/ UNCHANGED status

(* The promise settles; its finally deletes the map's entry of the task.   *)
InlineEnds(d) == \E x \in inline[d] :
  /\ Verdict(x)
  /\ inline' = [inline EXCEPT ![d] = @ \ {x}]
  /\ active' = [active EXCEPT ![d] = {y \in @ : Task(y) # Task(x)}]
  /\ UNCHANGED <<epoch, live, procs, loop, process, launched>>

ProcEnds(d) == \E x \in procs[d] :
  /\ Verdict(x)
  /\ procs' = [procs EXCEPT ![d] = @ \ {x}]
  /\ UNCHANGED <<epoch, active, inline, live, loop, process, launched>>

(* onExit of a child that is gone.                                         *)
OnExit(d) == \E x \in live[d] \ procs[d] :
  /\ up[d] # "down"
  /\ live' = [live EXCEPT ![d] = @ \ {x}]
  /\ UNCHANGED <<queue, active, inline, procs, loop, process, launched>>

-----------------------------------------------------------------------------
(* The API and the sweeper.                                                *)

Publish == \E t \in Tasks :
  /\ status[t] = "ingesting"
  /\ status' = [status EXCEPT ![t] = "pending"]
  /\ UNCHANGED <<epoch, loop, process, lanes, launched>>

(* The sweeper gives a silent claim back to the queue (its run died, or is *)
(* merely slow), or fails it; a client replays a failed task.              *)
ReclaimStale == \E t \in Tasks :
  /\ status[t] = "claimed" /\ epoch[t] < MaxEpoch
  /\ status' = [status EXCEPT ![t] = "pending"]
  /\ epoch'  = [epoch EXCEPT ![t] = @ + 1]
  /\ UNCHANGED <<loop, process, lanes, launched>>

DeadLetterStale == \E t \in Tasks :
  /\ status[t] = "claimed" /\ epoch[t] < MaxEpoch
  /\ status' = [status EXCEPT ![t] = "failed"]
  /\ epoch'  = [epoch EXCEPT ![t] = @ + 1]
  /\ UNCHANGED <<loop, process, lanes, launched>>

RetryFailed == \E t \in Tasks :
  /\ status[t] = "failed" /\ epoch[t] < MaxEpoch
  /\ status' = [status EXCEPT ![t] = "pending"]
  /\ epoch'  = [epoch EXCEPT ![t] = @ + 1]
  /\ UNCHANGED <<loop, process, lanes, launched>>

-----------------------------------------------------------------------------
(* The dispatcher's process.                                               *)

(* SIGTERM: the interval is cleared, a tick under way goes on, and the     *)
(* inline runs of the map are asked to drain and awaited.                  *)
Shutdown(d) ==
  /\ up[d] = "up" /\ stops[d] < MaxStops
  /\ up'    = [up EXCEPT ![d] = "draining"]
  /\ waits' = [waits EXCEPT ![d] = active[d]]
  /\ UNCHANGED <<stops, queue, loop, lanes, launched>>

(* Every awaited run has settled.                                          *)
Drained(d) ==
  /\ up[d] = "draining" /\ waits[d] \cap inline[d] = {}
  /\ up' = [up EXCEPT ![d] = "drained"]
  /\ UNCHANGED <<stops, waits, queue, loop, lanes, launched>>

(* The drain deadline passes first.                                        *)
Abandon(d) ==
  /\ up[d] = "draining" /\ waits[d] \cap inline[d] # {}
  /\ up' = [up EXCEPT ![d] = "abandoned"]
  /\ UNCHANGED <<stops, waits, queue, loop, lanes, launched>>

(* The process is gone.  Its children live on, uncounted; what it held in  *)
(* memory is lost, the row its statement had locked is free again.         *)
Gone(d) ==
  /\ stops' = [stops EXCEPT ![d] = @ + 1]
  /\ up' = [up EXCEPT ![d] = "down"]
  /\ Rest(d)
  /\ waits'  = [waits EXCEPT ![d] = {}]
  /\ active' = [active EXCEPT ![d] = {}] /\ inline' = [inline EXCEPT ![d] = {}]
  /\ live'   = [live EXCEPT ![d] = {}]   /\ procs'  = [procs EXCEPT ![d] = {}]
  /\ UNCHANGED <<queue, launched>>

Exit(d) == up[d] \in {"drained", "abandoned"} /\ Gone(d)

Kill(d) == up[d] # "down" /\ stops[d] < MaxStops /\ Gone(d)

Boot(d) ==
  /\ up[d] = "down"
  /\ up' = [up EXCEPT ![d] = "up"]
  /\ UNCHANGED <<stops, waits, queue, loop, lanes, launched>>

-----------------------------------------------------------------------------
Next ==
  \/ \E d \in Dispatchers :
       \/ Ask(d) \/ Lock(d) \/ Commit(d) \/ ClaimFails(d) \/ Route(d)
       \/ InlineEnds(d) \/ ProcEnds(d) \/ OnExit(d)
       \/ Shutdown(d) \/ Drained(d) \/ Abandon(d) \/ Exit(d) \/ Kill(d) \/ Boot(d)
  \/ Publish \/ ReclaimStale \/ DeadLetterStale \/ RetryFailed

Spec == Init /\ [][Next]_vars

(* A dispatcher that is up keeps ticking, its claims do not fail for ever, *)
(* a run of the inline lane ends (every external call carries a timeout),  *)
(* a shutdown comes to its end (the drain has a deadline) and the          *)
(* dispatcher is started again.  Nothing is assumed of the spawned         *)
(* runners, which may run for ever.                                        *)
Fairness ==
  \A d \in Dispatchers :
    /\ SF_vars(Ask(d)) /\ SF_vars(Lock(d)) /\ SF_vars(Commit(d)) /\ SF_vars(Route(d))
    /\ WF_vars(InlineEnds(d))
    /\ WF_vars(Drained(d) \/ Abandon(d)) /\ WF_vars(Exit(d)) /\ WF_vars(Boot(d))

FairSpec == Spec /\ Fairness

-----------------------------------------------------------------------------
(* What is checked.                                                        *)

TypeOK ==
  /\ status \in [Tasks -> {"ingesting", "pending", "claimed", "completed", "failed"}]
  /\ epoch \in [Tasks -> 0 .. MaxEpoch]
  /\ up \in [Dispatchers -> {"up", "draining", "drained", "abandoned", "down"}]
  /\ stops \in [Dispatchers -> Nat]
  /\ tick \in [Dispatchers -> {"idle", "asked", "locked", "claimed", "loop"}]
  /\ asked \in [Dispatchers -> SUBSET {"light", "heavy"}]
  /\ held \in [Dispatchers -> Claims \cup {NoClaim}]
  /\ active \in [Dispatchers -> SUBSET Claims] /\ inline \in [Dispatchers -> SUBSET Claims]
  /\ live \in [Dispatchers -> SUBSET Claims] /\ procs \in [Dispatchers -> SUBSET Claims]
  /\ waits \in [Dispatchers -> SUBSET Claims]
  /\ launched \in [Claims -> Nat]
  /\ \A d \in Dispatchers : tick[d] \in {"locked", "claimed"} <=> held[d] # NoClaim

(* A claim is made only while its lane has a free slot, and the slot is    *)
(* still free when the claim's reply is routed: neither InlineRunner's map *)
(* nor RunnerLauncher's set ever outgrows its cap, although a round trip   *)
(* to the database lies between the look and the launch                    *)
(* (dispatcher.service.ts:82-99).  Nor does a slot leak: an entry of the   *)
(* map is a run that still goes on, and a child that runs is counted.      *)
LaneCaps == \A d \in Dispatchers :
  /\ Cardinality(active[d]) <= MaxInline /\ active[d] \subseteq inline[d]
  /\ Cardinality(live[d]) <= MaxRunners /\ procs[d] \subseteq live[d]
  /\ tick[d] \in {"locked", "claimed"} =>
       IF Task(held[d]) \in LightTasks THEN Cardinality(active[d]) < MaxInline
                                       ELSE Cardinality(live[d]) < MaxRunners

(* The dispatchers that are winning claim c, or won it and have yet to     *)
(* route it.                                                               *)
Holders(c) == {d \in Dispatchers : tick[d] \in {"locked", "claimed"} /\ held[d] = c}

(* "Two pollers can never claim the same task": each claim of a task, that *)
(* is each epoch of it, is won and routed by one dispatcher and once,      *)
(* whatever fails, is killed or is reclaimed in between                    *)
(* (task.repository.ts:107-110).                                           *)
DeliveredOnce == \A c \in Claims :
  /\ launched[c] <= 1
  /\ launched[c] = 1 => Holders(c) = {}
  /\ \A d, e \in Holders(c) : d = e

(* A backlog of heavy tasks, or heavy runners that never end, do not keep  *)
(* a light task out of the inline lane: the claim asks for the weights     *)
(* with a free slot, so the oldest-first order of the queue does not put   *)
(* the light task behind them (dispatcher.service.ts:108-117).             *)
LightNotBlocked ==
  \A t \in LightTasks : status[t] = "pending" ~> status[t] # "pending"

(* "Light tasks currently running in this process - the claim loop stops   *)
(* asking for light at DISPATCH_MAX_CONCURRENT_INLINE of them"             *)
(* (inline-runner.service.ts:48-51).                                       *)
InlineCap ==
  \A d \in Dispatchers : Cardinality({Task(c) : c \in inline[d]}) <= MaxInline

(* "In-flight inline tasks are drained by InlineRunner's own shutdown      *)
(* hook" (dispatcher.service.ts:67-69): when the hook reports the drain    *)
(* finished, no inline run goes on.                                        *)
ShutdownDrainsInline ==
  \A d \in Dispatchers : up[d] = "drained" => inline[d] = {}
=============================================================================
