------------------------------ MODULE Delivery ------------------------------
(***************************************************************************)
(* What a dispatch topic promises the rest of the system, and all that     *)
(* module Pipeline takes from it: a record that was published is handed to *)
(* executors, any number of times and to any number of them, and is marked *)
(* as consumed only after some executor settled it: worked on it or found  *)
(* that it could not.                                                      *)
(***************************************************************************)
CONSTANT Messages

VARIABLES
  published,  \* records the brokers acknowledged
  settled,    \* records some executor is through with
  consumed    \* records below the group's committed offsets

dvars == <<published, settled, consumed>>

Init == published = {} /\ settled = {} /\ consumed = {}

Publish(r) ==
  /\ published' = published \cup {r}
  /\ UNCHANGED <<settled, consumed>>

Settle(r) ==
  /\ r \in published
  /\ settled' = settled \cup {r}
  /\ UNCHANGED <<published, consumed>>

Consume ==
  /\ consumed \subseteq consumed' /\ consumed' \subseteq settled
  /\ UNCHANGED <<published, settled>>

Next == (\E r \in Messages : Publish(r) \/ Settle(r)) \/ Consume
Spec == Init /\ [][Next]_dvars
=============================================================================
