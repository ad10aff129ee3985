---------------------------- MODULE MCWorkspace ----------------------------
(* Workspace for TLC: jobs and tasks are interchangeable.                  *)
EXTENDS Workspace, TLC

Symmetry == Permutations(Jobs) \cup Permutations(Tasks)
=============================================================================
