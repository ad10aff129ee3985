--------------------------- MODULE MCPullRequests ---------------------------
(* PullRequests for TLC: the slots are interchangeable.                    *)
EXTENDS PullRequests, TLC

WorkerSymmetry == Permutations(Workers)
=============================================================================
