----------------------------- MODULE MCElection -----------------------------
(***************************************************************************)
(* Instances of Election for TLC.                                          *)
(***************************************************************************)
EXTENDS Election, TLC

NodeSymmetry == Permutations(Nodes)
=============================================================================
