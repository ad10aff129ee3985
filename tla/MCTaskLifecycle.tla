-------------------------- MODULE MCTaskLifecycle ---------------------------
(* TaskLifecycle for TLC: the workers are interchangeable.                 *)
EXTENDS TaskLifecycle, TLC

WorkerSymmetry == Permutations(Workers)
=============================================================================
