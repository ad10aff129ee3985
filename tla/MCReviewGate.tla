---------------------------- MODULE MCReviewGate ----------------------------
(* ReviewGate for TLC: the slots are interchangeable.                      *)
EXTENDS ReviewGate, TLC

WorkerSymmetry == Permutations(Workers)
=============================================================================
