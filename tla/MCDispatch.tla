----------------------------- MODULE MCDispatch -----------------------------
(* Small instances of Dispatch for TLC: the dispatchers are alike.         *)
EXTENDS Dispatch, TLC

DispatcherSymmetry == Permutations(Dispatchers)
=============================================================================
