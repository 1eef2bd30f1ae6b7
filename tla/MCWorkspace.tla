----------------------------- MODULE MCWorkspace -----------------------------
(* Two forms at once on one calculation, or one form during the clean-up.   *)
EXTENDS Workspace, TLC

Symmetry == Permutations(Requests) \cup Permutations(Inputs)
=============================================================================
