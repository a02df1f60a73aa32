---------------------------- MODULE MCLoadDriver ----------------------------
(***************************************************************************)
(* Instances of LoadDriver for TLC.                                        *)
(***************************************************************************)
EXTENDS LoadDriver, TLC

CONSTANTS c1, c2, client, seed, k1, k2, k3

OneOff(key) == [key |-> key, named |-> TRUE, cron |-> "none", scheduled |-> TRUE]

(* A client that uses a key of the driver's or the seed's, or errs, or wants  *)
(* a recurring job.                                                           *)
Bodies ==
  {OneOff(k1), OneOff(k3), [OneOff(k1) EXCEPT !.cron = "fails"], [OneOff(k1) EXCEPT !.cron = "parses"]}

TheOffers == (c1 :> {OneOff(k1)}) @@ (c2 :> {OneOff(k2)}) @@ (client :> Bodies) @@ (seed :> {OneOff(k3)})
TheTries == (c1 :> 1) @@ (c2 :> 1) @@ (client :> 3) @@ (seed :> 1)
=============================================================================
