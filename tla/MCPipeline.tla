----------------------------- MODULE MCPipeline -----------------------------
(***************************************************************************)
(* Instances of Pipeline and Punctual for TLC.                             *)
(***************************************************************************)
EXTENDS Punctual, TLC

CONSTANTS j1, j2, w1, w2, s1, s2

OneJob == {j1}
TwoJobs == {j1, j2}
LowHigh == [j \in Jobs |-> IF j = j1 THEN 0 ELSE 5]

WorkerSymmetry == Permutations(Workers)
ProcessSymmetry == Permutations(Workers) \cup Permutations(Schedulers)
=============================================================================
