------------------------------ MODULE MCRunner ------------------------------
(* Small instances of Runner for TLC: the runners are interchangeable.     *)
EXTENDS RunnerLedger, TLC

RunnerSymmetry == Permutations(Runners)
=============================================================================
