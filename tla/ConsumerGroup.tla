---------------------------- MODULE ConsumerGroup ----------------------------
(***************************************************************************)
(* One dispatch topic and the executors that consume it as a group: the    *)
(* poll loop of dispatch.Consumer, the life of its process, and what       *)
(* Kafka and the kgo client do behind it.  What a handler does with a job  *)
(* is module Pipeline's; here it works on the record or skips it.          *)
(*                                                                         *)
(* A record is its place, [part, off].  The producer keys records by job,  *)
(* so the records of a job share a partition.                              *)
(*                                                                         *)
(* A member takes part in the group until the coordinator gives up on it,  *)
(* which it may learn later: it then polls and handles on, but none of its *)
(* commits counts.  MaxFaults bounds how many disturbances happen: a call  *)
(* that fails, a crash, a shutdown, an expired session.                    *)
(***************************************************************************)
EXTENDS Naturals, FiniteSets

CONSTANTS
  Partitions,
  Members,     \* executor processes
  Malformed,   \* records that are not a dispatch message
  MaxOffset,   \* bound: how many records a partition receives
  MaxFaults    \* bound: how many disturbances happen

Records == [part: Partitions, off: 1..MaxOffset]

ASSUME GroupAssumption ==
  /\ MaxOffset \in Nat
  /\ MaxFaults \in Nat
  /\ Malformed \subseteq Records

VARIABLES
  end,        \* per partition: how many records it holds
  committed,  \* per partition: the group's committed offset
  joined,     \* members the coordinator counts as such
  pc,         \* per member: where Consumer.Run is
  stopping,   \* members whose context was cancelled by SIGTERM
  assigned,   \* per member: partitions it believes are its own
  position,   \* per member and partition: offset up to which it has polled
  polled,     \* per member: records of the last poll not handled yet
  worked,     \* history: records a handler did its work for
  skipped,    \* history: records a handler passed over, malformed or after a failed call
  faults

broker == <<end, committed>>
history == <<worked, skipped>>
client == <<assigned, position, polled>>
vars == <<end, committed, joined, pc, stopping, assigned, position, polled,
          worked, skipped, faults>>

Points == {"down", "poll", "handle", "commit"}

TypeOK ==
  /\ end \in [Partitions -> 0..MaxOffset]
  /\ committed \in [Partitions -> 0..MaxOffset]
  /\ joined \in SUBSET Members
  /\ pc \in [Members -> Points]
  /\ stopping \in SUBSET Members
  /\ assigned \in [Members -> SUBSET Partitions]
  /\ position \in [Members -> [Partitions -> 0..MaxOffset]]
  /\ polled \in [Members -> SUBSET Records]
  /\ worked \in SUBSET Records /\ skipped \in SUBSET Records
  /\ faults \in 0..MaxFaults
  /\ \A m \in Members : pc[m] = "handle" <=> polled[m] # {}

Init ==
  /\ end = [p \in Partitions |-> 0]
  /\ committed = [p \in Partitions |-> 0]
  /\ joined = {}
  /\ pc = [m \in Members |-> "down"]
  /\ stopping = {}
  /\ assigned = [m \in Members |-> {}]
  /\ position = [m \in Members |-> [p \in Partitions |-> 0]]
  /\ polled = [m \in Members |-> {}]
  /\ worked = {} /\ skipped = {}
  /\ faults = 0

Fault == faults < MaxFaults /\ faults' = faults + 1
Goto(m, point) == pc' = [pc EXCEPT ![m] = point]

-----------------------------------------------------------------------------
(* PublishDispatch: the record is at the end of its job's partition. *)
PublishDispatch(p) ==
  /\ end[p] < MaxOffset
  /\ end' = [end EXCEPT ![p] = @ + 1]
  /\ UNCHANGED <<committed, joined, pc, stopping, client, history, faults>>

-----------------------------------------------------------------------------
(* The group.  A member that is new, or back, has no partition until the      *)
(* next rebalance.                                                            *)
NoPosition == [p \in Partitions |-> 0]

Join(m) ==
  /\ joined' = joined \cup {m}
  /\ assigned' = [assigned EXCEPT ![m] = {}]
  /\ position' = [position EXCEPT ![m] = NoPosition]

(* Mutant: a group without a committed offset starts at the end of the log. *)
FirstOffsetAtEnd(p) == IF committed[p] = 0 THEN end[p] ELSE committed[p]

(* Where a member goes on with a partition it is given.  The client's default *)
(* for one without a committed offset is the start of the log.                *)
FirstOffset(p) == committed[p]

(* Every partition has an owner among the members afterwards.  One that       *)
(* changes hands is revoked first and its polled offset forgotten; one that   *)
(* stays goes on.  A member may be anywhere in Run meanwhile.                 *)
Rebalance ==
  /\ joined # {}
  /\ UNION {assigned[m] : m \in joined} # Partitions
       \/ \E m \in joined : assigned[m] = {}
  /\ \E owner \in [Partitions -> joined] :
       /\ Cardinality(joined) <= Cardinality(Partitions)
            => \A m \in joined : \E p \in Partitions : owner[p] = m
       /\ assigned' = [m \in Members |->
            IF m \in joined THEN {p \in Partitions : owner[p] = m} ELSE assigned[m]]
       /\ position' = [m \in Members |-> [p \in Partitions |->
            IF m \notin joined \/ p \in assigned[m] \cap assigned'[m] THEN position[m][p]
            ELSE IF p \in assigned'[m] THEN FirstOffset(p) ELSE 0]]
  /\ UNCHANGED <<broker, joined, pc, stopping, polled, history, faults>>

(* The coordinator hears nothing from a member: it paused, was cut off, or    *)
(* is gone.  A live one does not know yet.                                    *)
SessionExpires(m) ==
  /\ m \in joined
  /\ joined' = joined \ {m}
  /\ IF pc[m] = "down" THEN UNCHANGED faults ELSE Fault
  /\ UNCHANGED <<broker, pc, stopping, client, history>>

(* It learns of it with the next heartbeat. *)
Rejoin(m) ==
  /\ pc[m] # "down" /\ m \notin joined
  /\ Join(m)
  /\ UNCHANGED <<broker, pc, stopping, polled, history, faults>>

-----------------------------------------------------------------------------
(* cmd/executor: NewConsumer and Run; the deployment restarts what ended. *)
Start(m) ==
  /\ pc[m] = "down" /\ m \notin joined
  /\ Goto(m, "poll")
  /\ Join(m)
  /\ UNCHANGED <<broker, stopping, polled, history, faults>>

(* SIGTERM cancels the context of Run, of the handlers and of their calls. *)
Terminate(m) ==
  /\ pc[m] # "down" /\ m \notin stopping
  /\ Fault
  /\ stopping' = stopping \cup {m}
  /\ UNCHANGED <<broker, joined, pc, client, history>>

Crash(m) ==
  /\ pc[m] # "down"
  /\ Fault
  /\ Goto(m, "down")
  /\ stopping' = stopping \ {m}
  /\ polled' = [polled EXCEPT ![m] = {}]
  /\ UNCHANGED <<broker, joined, assigned, position, history>>

(* The top of the loop, or a poll that its context ended: leave the group     *)
(* without committing.                                                        *)
Close(m) ==
  /\ pc[m] = "poll" /\ m \in stopping
  /\ Goto(m, "down")
  /\ stopping' = stopping \ {m}
  /\ joined' = joined \ {m}
  /\ UNCHANGED <<broker, client, history, faults>>

-----------------------------------------------------------------------------
(* Run.  PollFetches returns what is buffered of the member's partitions ...  *)
PollFetches(m) ==
  /\ pc[m] = "poll" /\ m \notin stopping
  /\ \E upTo \in [assigned[m] -> 0..MaxOffset] :
       LET new == {r \in Records : r.part \in assigned[m]
                                     /\ r.off \in (position[m][r.part] + 1)..upTo[r.part]}
       IN
       /\ \A p \in assigned[m] : upTo[p] \in position[m][p]..end[p]
       /\ new # {}
       /\ polled' = [polled EXCEPT ![m] = new]
       /\ position' = [position EXCEPT ![m] =
            [p \in Partitions |-> IF p \in assigned[m] THEN upTo[p] ELSE @[p]]]
  /\ Goto(m, "handle")
  /\ UNCHANGED <<broker, joined, stopping, assigned, history, faults>>

(* ... or an error, which is logged, and nothing. *)
FetchError(m) ==
  /\ pc[m] = "poll" /\ m \notin stopping
  /\ Fault
  /\ Goto(m, "commit")
  /\ UNCHANGED <<broker, joined, stopping, client, history>>

(* Mutant: a malformed message ends the batch. *)
HandleRecordOrLeave(m) ==
  /\ pc[m] = "handle"
  /\ \E r \in polled[m] :
       /\ \A q \in polled[m] : q.part = r.part => r.off <= q.off
       /\ polled' = [polled EXCEPT ![m] = @ \ {r}]
       /\ IF r \in Malformed THEN UNCHANGED worked ELSE worked' = worked \cup {r}
       /\ Goto(m, IF polled'[m] = {} \/ r \in Malformed THEN "commit" ELSE "handle")
  /\ UNCHANGED <<broker, joined, stopping, assigned, position, skipped, faults>>

(* EachRecord, in the order of each partition.  A malformed message is        *)
(* skipped; so is one whose job could not be fetched; under a cancelled       *)
(* context every remaining one may be cut short.  Nothing stops the loop.     *)
HandleRecord(m) ==
  /\ pc[m] = "handle"
  /\ \E r \in polled[m] :
       /\ \A q \in polled[m] : q.part = r.part => r.off <= q.off
       /\ polled' = [polled EXCEPT ![m] = @ \ {r}]
       /\ \/ r \notin Malformed /\ worked' = worked \cup {r} /\ UNCHANGED <<skipped, faults>>
          \/ /\ skipped' = skipped \cup {r} /\ UNCHANGED worked
             /\ IF r \in Malformed THEN UNCHANGED faults ELSE Fault
          \/ m \in stopping /\ UNCHANGED <<history, faults>>
  /\ pc' = IF polled'[m] = {} THEN [pc EXCEPT ![m] = "commit"] ELSE pc
  /\ UNCHANGED <<broker, joined, stopping, assigned, position>>

(* What CommitUncommittedOffsets sends: the polled offsets of the partitions  *)
(* that are still the member's, of which the broker takes a member's only.    *)
Offsets(m) == [p \in Partitions |-> IF p \in assigned[m] THEN position[m][p] ELSE committed[p]]

(* Mutants: the commit is not tied to the context of Run; the offsets of an   *)
(* expired member count.                                                      *)
CommitDetached(m) ==
  /\ pc[m] = "commit"
  /\ Goto(m, "poll")
  /\ \/ /\ committed' = IF m \in joined THEN Offsets(m) ELSE committed
        /\ UNCHANGED faults
     \/ Fault /\ UNCHANGED committed
  /\ UNCHANGED <<end, joined, stopping, client, history>>
CommitUnfenced(m) ==
  /\ pc[m] = "commit"
  /\ Goto(m, "poll")
  /\ committed' = IF m \in stopping THEN committed ELSE Offsets(m)
  /\ UNCHANGED <<end, joined, stopping, client, history, faults>>

(* An error is logged; the next commit covers the same offsets. *)
CommitUncommittedOffsets(m) ==
  /\ pc[m] = "commit"
  /\ Goto(m, "poll")
  /\ \/ /\ committed' = IF m \in joined \ stopping THEN Offsets(m) ELSE committed
        /\ UNCHANGED faults
     \/ m \notin stopping /\ Fault /\ UNCHANGED committed
  /\ UNCHANGED <<end, joined, stopping, client, history>>

-----------------------------------------------------------------------------
Run(m) ==
  PollFetches(m) \/ FetchError(m) \/ HandleRecord(m) \/ CommitUncommittedOffsets(m) \/ Close(m)

Next ==
  \/ \E p \in Partitions : PublishDispatch(p)
  \/ Rebalance
  \/ \E m \in Members :
       \/ SessionExpires(m)
       \/ Rejoin(m)
       \/ Start(m)
       \/ Terminate(m)
       \/ Crash(m)
       \/ Run(m)

Spec == Init /\ [][Next]_vars

(* The executors run their loop, Kafka rebalances and gives up on what is     *)
(* gone, the deployment restarts processes.  Nothing obliges a publish.       *)
Fairness ==
  /\ WF_vars(Rebalance)
  /\ \A m \in Members :
       /\ WF_vars(Run(m))
       /\ WF_vars(Start(m))
       /\ WF_vars(Rejoin(m))
       /\ WF_vars(pc[m] = "down" /\ SessionExpires(m))

FairSpec == Spec /\ Fairness

-----------------------------------------------------------------------------
Published == {r \in Records : r.off <= end[r.part]}
Consumed == {r \in Records : r.off <= committed[r.part]}

(***************************************************************************)
(* Every record is worked on in the end, or skipped for a reason: neither  *)
(* a malformed record nor a member that hangs or ends while it holds       *)
(* records keeps those behind it from being handled.  (consumer.go:51-83.) *)
(***************************************************************************)
EventuallyHandled ==
  \A r \in Records : r \in Published ~> r \in worked \cup skipped

(***************************************************************************)
(* The group implements Delivery: a record it has moved past was settled   *)
(* by some executor, never just cut short by a shutdown, a crash or a      *)
(* rebalance, and no commit takes back another member's.                   *)
(* (consumer.go:31-83, cmd/executor/main.go:29, 55-69.)                    *)
(***************************************************************************)
Topic == INSTANCE Delivery WITH
  Messages <- Records, published <- Published, settled <- worked \cup skipped, consumed <- Consumed
DeliverySpec == Topic!Spec
=============================================================================
