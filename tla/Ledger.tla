------------------------------- MODULE Ledger -------------------------------
(***************************************************************************)
(* What a published job promises, whoever runs it: the two invariants of   *)
(* README.md:100-105 and ADR 0003.  Effects reach the store, in any order  *)
(* and any number of times; a row is settled at most once, done only after *)
(* its effect; the job completes only over a ledger that is done; the only *)
(* way back for a dead-lettered row is the replay of its failed job.       *)
(***************************************************************************)
CONSTANT Rows

VARIABLES
  job,       \* "open", "completed" or "failed"
  ledger,    \* ledger[r]: "pending", "done" or "failed"
  applied    \* applied[r]: the effect is in the store

vars == <<job, ledger, applied>>

TypeOK ==
  /\ job \in {"open", "completed", "failed"}
  /\ ledger \in [Rows -> {"pending", "done", "failed"}]
  /\ applied \in [Rows -> BOOLEAN]

Init ==
  /\ job = "open"
  /\ ledger  = [r \in Rows |-> "pending"]
  /\ applied = [r \in Rows |-> FALSE]

Apply(r) ==
  /\ applied' = [applied EXCEPT ![r] = TRUE]
  /\ UNCHANGED <<job, ledger>>

Flip(r) ==
  /\ ledger[r] = "pending" /\ applied[r]
  /\ ledger' = [ledger EXCEPT ![r] = "done"]
  /\ UNCHANGED <<job, applied>>

DeadLetterRow(r) ==
  /\ ledger[r] = "pending"
  /\ ledger' = [ledger EXCEPT ![r] = "failed"]
  /\ UNCHANGED <<job, applied>>

Complete ==
  /\ job = "open" /\ \A r \in Rows : ledger[r] = "done"
  /\ job' = "completed"
  /\ UNCHANGED <<ledger, applied>>

Fail ==
  /\ job = "open"
  /\ job' = "failed"
  /\ UNCHANGED <<ledger, applied>>

(* A late runner of the same claim takes a finished job up again, its rows *)
(* as they are: the code fences on the epoch alone.                        *)
Resume ==
  /\ job # "open"
  /\ job' = "open"
  /\ UNCHANGED <<ledger, applied>>

Replay ==
  /\ job = "failed"
  /\ job' = "open"
  /\ ledger' = [r \in Rows |-> IF ledger[r] = "failed" THEN "pending" ELSE ledger[r]]
  /\ UNCHANGED applied

Next ==
  \/ \E r \in Rows : Apply(r) \/ Flip(r) \/ DeadLetterRow(r)
  \/ Complete \/ Fail \/ Resume \/ Replay

Spec == Init /\ [][Next]_vars
=============================================================================
