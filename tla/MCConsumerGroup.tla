-------------------------- MODULE MCConsumerGroup --------------------------
(***************************************************************************)
(* Instances of ConsumerGroup for TLC.                                     *)
(***************************************************************************)
EXTENDS ConsumerGroup

CONSTANTS p1, p2

FirstMalformed == {[part |-> p1, off |-> 1]}
=============================================================================
