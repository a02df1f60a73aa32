---------------------------- MODULE GroupProofs -----------------------------
(***************************************************************************)
(* Theorems about the consumer group: its types, and that it implements    *)
(* module Delivery.                                                        *)
(***************************************************************************)
EXTENDS ConsumerGroup, TLAPS

Settled == worked \cup skipped

(* Nobody is ahead of the log. *)
Within ==
  /\ \A p \in Partitions : committed[p] <= end[p] /\ \A m \in Members : position[m][p] <= end[p]
  /\ Settled \subseteq Published
  /\ \A m \in Members : polled[m] \subseteq Published

(* Among the members the coordinator counts, a partition has one owner, who   *)
(* is not behind the committed offset: the fence that keeps commits in order. *)
Owned == \A m, n \in joined : m # n => assigned[m] \cap assigned[n] = {}
Ahead == \A m \in joined : \A p \in assigned[m] : committed[p] <= position[m][p]

(* A member whose commit would count. *)
Active(m) == m \in joined \ stopping /\ pc[m] # "down"

(* What it would commit is settled, but for what it holds. *)
Accounted(m) ==
  Active(m) => \A r \in Records :
    r.part \in assigned[m] /\ r.off <= position[m][r.part] => r \in Settled \cup polled[m]

NoneMissed == Consumed \subseteq Settled

GroupInv == Within /\ Owned /\ Ahead /\ (\A m \in Members : Accounted(m)) /\ NoneMissed

-----------------------------------------------------------------------------
(* Offsets stay within the log. *)
LEMMA RecordType ==
  ASSUME NEW r \in Records
  PROVE  r.part \in Partitions /\ r.off \in 1..MaxOffset /\ r.off \in Nat
BY GroupAssumption DEF Records

(* The group starts empty, with every member down. *)
LEMMA TypeInit == Init => TypeOK
BY GroupAssumption DEF Init, TypeOK, Points

(* Every step of a member, the coordinator or a producer keeps the types, and *)
(* a member is in its loop over records exactly while it holds some.          *)
LEMMA TypeStep == TypeOK /\ [Next]_vars => TypeOK'
<1> SUFFICES ASSUME TypeOK, [Next]_vars
             PROVE  TypeOK'
  OBVIOUS
<1> USE GroupAssumption
<1>f. ASSUME Fault \/ UNCHANGED faults
      PROVE  faults' \in 0..MaxFaults
  BY <1>f DEF Fault, TypeOK
<1>1. CASE UNCHANGED vars
  BY <1>1 DEF vars, TypeOK
<1>2. ASSUME NEW p \in Partitions, PublishDispatch(p)
      PROVE  TypeOK'
  BY <1>2 DEF PublishDispatch, TypeOK, client, history
<1>3. CASE Rebalance
  <2> PICK owner \in [Partitions -> joined] :
       /\ assigned' = [m \in Members |->
            IF m \in joined THEN {p \in Partitions : owner[p] = m} ELSE assigned[m]]
       /\ position' = [m \in Members |-> [p \in Partitions |->
            IF m \notin joined \/ p \in assigned[m] \cap assigned'[m] THEN position[m][p]
            ELSE IF p \in assigned'[m] THEN FirstOffset(p) ELSE 0]]
    BY <1>3 DEF Rebalance
  <2>1. assigned' \in [Members -> SUBSET Partitions]
    BY DEF TypeOK
  <2>2. position' \in [Members -> [Partitions -> 0..MaxOffset]]
    BY DEF TypeOK, FirstOffset
  <2> QED
    BY <1>3, <2>1, <2>2 DEF Rebalance, TypeOK, broker, history
<1>j. ASSUME NEW m \in Members, Join(m)
      PROVE  /\ joined' \in SUBSET Members
             /\ assigned' \in [Members -> SUBSET Partitions]
             /\ position' \in [Members -> [Partitions -> 0..MaxOffset]]
  BY <1>j DEF Join, NoPosition, TypeOK
<1>4. ASSUME NEW m \in Members, SessionExpires(m) \/ Rejoin(m)
      PROVE  TypeOK'
  BY <1>4, <1>f, <1>j DEF SessionExpires, Rejoin, TypeOK, broker, client, history
<1>5. ASSUME NEW m \in Members, Start(m) \/ Terminate(m)
      PROVE  TypeOK'
  <2>1. CASE Start(m)
    <3>1. polled[m] = {}
      BY <2>1 DEF Start, TypeOK
    <3> QED
      BY <2>1, <3>1, <1>j DEF Start, Goto, TypeOK, Points, broker, history
  <2>2. CASE Terminate(m)
    BY <2>2, <1>f DEF Terminate, TypeOK, broker, client, history
  <2> QED
    BY <1>5, <2>1, <2>2
<1>6. ASSUME NEW m \in Members, Crash(m) \/ Close(m)
      PROVE  TypeOK'
  BY <1>6, <1>f DEF Crash, Close, Goto, TypeOK, Points, broker, client, history
<1>7. ASSUME NEW m \in Members, PollFetches(m)
      PROVE  TypeOK'
  <2> PICK upTo \in [assigned[m] -> 0..MaxOffset] :
       LET new == {r \in Records : r.part \in assigned[m]
                                     /\ r.off \in (position[m][r.part] + 1)..upTo[r.part]}
       IN
       /\ new # {}
       /\ polled' = [polled EXCEPT ![m] = new]
       /\ position' = [position EXCEPT ![m] =
            [p \in Partitions |-> IF p \in assigned[m] THEN upTo[p] ELSE @[p]]]
    BY <1>7 DEF PollFetches
  <2>1. /\ polled' \in [Members -> SUBSET Records] /\ polled'[m] # {}
        /\ \A n \in Members \ {m} : polled'[n] = polled[n]
    BY DEF TypeOK
  <2>2. position' \in [Members -> [Partitions -> 0..MaxOffset]]
    BY DEF TypeOK
  <2>3. pc' = [pc EXCEPT ![m] = "handle"]
    BY <1>7 DEF PollFetches, Goto
  <2>4. pc' \in [Members -> Points] /\ \A n \in Members : pc'[n] = "handle" <=> polled'[n] # {}
    BY <2>1, <2>3 DEF TypeOK, Points
  <2> QED
    BY <1>7, <2>1, <2>2, <2>4 DEF PollFetches, TypeOK, broker, history
<1>8. ASSUME NEW m \in Members, FetchError(m) \/ CommitUncommittedOffsets(m)
      PROVE  TypeOK'
  <2>1. faults' \in 0..MaxFaults
    BY <1>8, <1>f DEF FetchError, CommitUncommittedOffsets
  <2>2. committed' \in [Partitions -> 0..MaxOffset]
    BY <1>8 DEF FetchError, CommitUncommittedOffsets, Offsets, TypeOK, broker
  <2>3. pc' \in [Members -> Points] /\ \A n \in Members : pc'[n] = "handle" <=> polled[n] # {}
    BY <1>8 DEF FetchError, CommitUncommittedOffsets, Goto, TypeOK, Points
  <2> QED
    BY <1>8, <2>1, <2>2, <2>3 DEF FetchError, CommitUncommittedOffsets, TypeOK, broker, client, history
<1>9. ASSUME NEW m \in Members, HandleRecord(m)
      PROVE  TypeOK'
  <2> PICK r \in polled[m] :
       /\ polled' = [polled EXCEPT ![m] = @ \ {r}]
       /\ \/ r \notin Malformed /\ worked' = worked \cup {r} /\ UNCHANGED <<skipped, faults>>
          \/ /\ skipped' = skipped \cup {r} /\ UNCHANGED worked
             /\ IF r \in Malformed THEN UNCHANGED faults ELSE Fault
          \/ m \in stopping /\ UNCHANGED <<history, faults>>
    BY <1>9 DEF HandleRecord
  <2>1. faults' \in 0..MaxFaults
    BY <1>f
  <2>2. worked' \in SUBSET Records /\ skipped' \in SUBSET Records
    BY DEF TypeOK, history
  <2>3. polled' \in [Members -> SUBSET Records] /\ \A n \in Members \ {m} : polled'[n] = polled[n]
    BY DEF TypeOK
  <2>4. pc' \in [Members -> Points] /\ \A n \in Members : pc'[n] = "handle" <=> polled'[n] # {}
    BY <1>9, <2>3 DEF HandleRecord, TypeOK, Points
  <2> QED
    BY <1>9, <2>1, <2>2, <2>3, <2>4 DEF HandleRecord, TypeOK, broker
<1> QED
  BY <1>1, <1>2, <1>3, <1>4, <1>5, <1>6, <1>7, <1>8, <1>9 DEF Next, Run

(* In particular a member that commits, polls or is down holds no record.     *)
THEOREM GroupTypes == Spec => []TypeOK
BY TypeInit, TypeStep, PTL DEF Spec

-----------------------------------------------------------------------------
(* Nothing is polled or committed at the start. *)
LEMMA GroupInit == Init => GroupInv
<1> SUFFICES ASSUME Init
             PROVE  GroupInv
  OBVIOUS
<1>1. Published = {} /\ Consumed = {}
  BY RecordType DEF Init, Published, Consumed
<1> QED
  BY <1>1 DEF Init, GroupInv, Within, Settled, Owned, Ahead, Accounted, Active, NoneMissed

(* The log grows. *)
LEMMA LogGrows ==
  ASSUME TypeOK, GroupInv, TypeOK', \A p \in Partitions : end[p] <= end'[p],
         committed' = committed, position' = position, assigned' = assigned,
         Settled' = Settled, polled' = polled,
         joined' \subseteq joined,
         \A m \in Members : Active(m)' => Active(m)
  PROVE  GroupInv'
<1>1. Published \subseteq Published' /\ Consumed' = Consumed
  BY RecordType DEF Published, Consumed, TypeOK
<1>2. Within'
  BY <1>1 DEF TypeOK, GroupInv, Within
<1> QED
  BY <1>1, <1>2 DEF GroupInv, Owned, Ahead, Accounted, NoneMissed

(* A member joins without partitions. *)
LEMMA JoinInv ==
  ASSUME TypeOK, GroupInv, NEW m \in Members, m \notin joined, Join(m),
         end' = end, committed' = committed, worked' = worked, skipped' = skipped, polled' = polled,
         stopping' = stopping, \A n \in Members \ {m} : pc'[n] = pc[n]
  PROVE  GroupInv'
<1>1. /\ assigned'[m] = {} /\ position'[m] = NoPosition
      /\ \A n \in Members \ {m} : assigned'[n] = assigned[n] /\ position'[n] = position[n]
  BY DEF Join, TypeOK
<1>2. Published' = Published /\ Consumed' = Consumed /\ Settled' = Settled
  BY DEF Published, Consumed, Settled
<1>3. \A p \in Partitions : position'[m][p] <= end[p]
  BY <1>1 DEF NoPosition, TypeOK
<1>4. Within'
  BY <1>1, <1>2, <1>3 DEF GroupInv, Within
<1>5. \A n \in Members \ {m} : n \in joined' => n \in joined
  BY DEF Join
<1>6. Owned' /\ Ahead'
  BY <1>1, <1>5 DEF GroupInv, Owned, Ahead, TypeOK, Join
<1>7. \A n \in Members : Accounted(n)'
  BY <1>1, <1>2, <1>5 DEF GroupInv, Accounted, Active
<1> QED
  BY <1>2, <1>4, <1>6, <1>7 DEF GroupInv, NoneMissed

(* After a rebalance a new owner goes on from the committed offset. *)
LEMMA RebalanceInv ==
  ASSUME TypeOK, GroupInv, Rebalance
  PROVE  GroupInv'
<1> PICK owner \in [Partitions -> joined] :
       /\ assigned' = [m \in Members |->
            IF m \in joined THEN {p \in Partitions : owner[p] = m} ELSE assigned[m]]
       /\ position' = [m \in Members |-> [p \in Partitions |->
            IF m \notin joined \/ p \in assigned[m] \cap assigned'[m] THEN position[m][p]
            ELSE IF p \in assigned'[m] THEN FirstOffset(p) ELSE 0]]
  BY DEF Rebalance
<1>0. /\ end' = end /\ committed' = committed /\ joined' = joined /\ pc' = pc
      /\ stopping' = stopping /\ polled' = polled
      /\ Published' = Published /\ Consumed' = Consumed /\ Settled' = Settled
  BY DEF Rebalance, broker, history, Published, Consumed, Settled
<1>1. ASSUME NEW m \in Members, NEW p \in Partitions
      PROVE  \/ position'[m][p] = position[m][p] /\ (p \in assigned'[m] => p \in assigned[m])
             \/ position'[m][p] = committed[p]
             \/ position'[m][p] = 0 /\ p \notin assigned'[m]
  BY DEF FirstOffset
<1>2. Within'
  BY <1>0, <1>1 DEF GroupInv, Within, TypeOK
<1>3. Owned'
  BY <1>0 DEF Owned, TypeOK
<1>4. \A m \in joined : m \in Members /\ assigned'[m] \subseteq Partitions
  BY DEF TypeOK
<1>5. Ahead'
  BY <1>0, <1>1, <1>4 DEF GroupInv, Ahead, TypeOK
<1>6. ASSUME NEW m \in Members, Active(m), NEW r \in Records,
             r.part \in assigned'[m], r.off <= position'[m][r.part]
      PROVE  r \in Settled \cup polled[m]
  <2>1. CASE position'[m][r.part] = position[m][r.part] /\ r.part \in assigned[m]
    BY <1>6, <2>1 DEF GroupInv, Accounted
  <2>2. CASE position'[m][r.part] = committed[r.part]
    BY <1>6, <2>2 DEF GroupInv, NoneMissed, Consumed
  <2> QED
    BY <1>1, <1>6, <2>1, <2>2, RecordType
<1>7. \A m \in Members : Accounted(m)'
  BY <1>0, <1>6 DEF Accounted, Active
<1> QED
  BY <1>0, <1>2, <1>3, <1>5, <1>7 DEF GroupInv, NoneMissed

(* What a member polls, it holds. *)
LEMMA PollInv ==
  ASSUME TypeOK, GroupInv, NEW m \in Members, PollFetches(m)
  PROVE  GroupInv'
<1> PICK upTo \in [assigned[m] -> 0..MaxOffset] :
       LET new == {r \in Records : r.part \in assigned[m]
                                     /\ r.off \in (position[m][r.part] + 1)..upTo[r.part]}
       IN
       /\ \A p \in assigned[m] : upTo[p] \in position[m][p]..end[p]
       /\ polled' = [polled EXCEPT ![m] = new]
       /\ position' = [position EXCEPT ![m] =
            [p \in Partitions |-> IF p \in assigned[m] THEN upTo[p] ELSE @[p]]]
  BY DEF PollFetches
<1>0. /\ end' = end /\ committed' = committed /\ joined' = joined /\ assigned' = assigned
      /\ stopping' = stopping /\ pc[m] = "poll" /\ polled[m] = {}
      /\ Published' = Published /\ Consumed' = Consumed /\ Settled' = Settled
  BY DEF PollFetches, broker, history, Published, Consumed, Settled, TypeOK
<1>1. /\ \A n \in Members \ {m} : polled'[n] = polled[n] /\ position'[n] = position[n]
                                  /\ pc'[n] = pc[n]
      /\ polled'[m] = {r \in Records : r.part \in assigned[m]
                                     /\ r.off \in (position[m][r.part] + 1)..upTo[r.part]}
      /\ \A p \in Partitions : position'[m][p] = IF p \in assigned[m] THEN upTo[p] ELSE position[m][p]
  BY DEF TypeOK, PollFetches, Goto
<1>2. \A p \in assigned[m] : /\ p \in Partitions /\ upTo[p] \in Nat /\ position[m][p] \in Nat
                             /\ position[m][p] <= upTo[p] /\ upTo[p] <= end[p] /\ end[p] \in Nat
  BY GroupAssumption DEF TypeOK
<1>3. polled'[m] \subseteq Published
  BY <1>1, <1>2, RecordType DEF Published
<1>4. Within'
  BY <1>0, <1>1, <1>2, <1>3 DEF GroupInv, Within
<1>5. Owned' /\ Ahead'
  <2>1. Ahead'
    <3> SUFFICES ASSUME NEW n \in joined, NEW p \in assigned[n]
                 PROVE  committed[p] <= position'[n][p]
      BY <1>0 DEF Ahead
    <3>1. committed[p] <= position[n][p] /\ committed[p] \in Nat /\ n \in Members /\ p \in Partitions
      BY GroupAssumption DEF GroupInv, Ahead, TypeOK
    <3> QED
      BY <1>1, <1>2, <3>1
  <2> QED
    BY <1>0, <2>1 DEF GroupInv, Owned
<1>6. ASSUME Active(m)', NEW r \in Records, r.part \in assigned[m], r.off <= position'[m][r.part]
      PROVE  r \in Settled \cup polled'[m]
  <2>1. Active(m)
    BY <1>0, <1>6 DEF Active
  <2>2. CASE r.off <= position[m][r.part]
    BY <1>0, <1>6, <2>1, <2>2 DEF GroupInv, Accounted
  <2>3. CASE ~(r.off <= position[m][r.part])
    BY <1>1, <1>2, <1>6, <2>3, RecordType
  <2> QED
    BY <2>2, <2>3
<1>7. \A n \in Members : Accounted(n)'
  BY <1>0, <1>1, <1>6 DEF GroupInv, Accounted, Active
<1> QED
  BY <1>0, <1>4, <1>5, <1>7 DEF GroupInv, NoneMissed

(* What it lets go of is settled, unless it is stopping. *)
LEMMA HandleInv ==
  ASSUME TypeOK, GroupInv, NEW m \in Members, HandleRecord(m)
  PROVE  GroupInv'
<1> PICK r \in polled[m] :
       /\ polled' = [polled EXCEPT ![m] = @ \ {r}]
       /\ \/ r \notin Malformed /\ worked' = worked \cup {r} /\ UNCHANGED <<skipped, faults>>
          \/ /\ skipped' = skipped \cup {r} /\ UNCHANGED worked
             /\ IF r \in Malformed THEN UNCHANGED faults ELSE Fault
          \/ m \in stopping /\ UNCHANGED <<history, faults>>
  BY DEF HandleRecord
<1>0. /\ end' = end /\ committed' = committed /\ joined' = joined /\ assigned' = assigned
      /\ stopping' = stopping /\ position' = position /\ pc[m] = "handle"
      /\ Published' = Published /\ Consumed' = Consumed
  BY DEF HandleRecord, broker, Published, Consumed
<1>1. /\ \A n \in Members \ {m} : polled'[n] = polled[n] /\ pc'[n] = pc[n]
      /\ polled'[m] = polled[m] \ {r}
  BY DEF TypeOK, HandleRecord
<1>2. /\ Settled' = Settled \cup {r} \/ (m \in stopping /\ Settled' = Settled)
      /\ r \in Published
  BY DEF Settled, GroupInv, Within, history
<1>3. Within'
  BY <1>0, <1>1, <1>2 DEF GroupInv, Within
<1>4. Owned' /\ Ahead' /\ NoneMissed'
  BY <1>0, <1>2 DEF GroupInv, Owned, Ahead, NoneMissed
<1>5. \A n \in Members : Accounted(n)'
  BY <1>0, <1>1, <1>2 DEF GroupInv, Accounted, Active
<1> QED
  BY <1>3, <1>4, <1>5 DEF GroupInv

(* Only an active member's commit counts, and it holds nothing then. *)
LEMMA CommitInv ==
  ASSUME TypeOK, GroupInv, NEW m \in Members, CommitUncommittedOffsets(m)
  PROVE  /\ GroupInv'
         /\ \A p \in Partitions : committed[p] <= committed'[p]
<1>0. /\ end' = end /\ joined' = joined /\ assigned' = assigned /\ stopping' = stopping
      /\ position' = position /\ polled' = polled /\ pc[m] = "commit" /\ polled[m] = {}
      /\ Published' = Published /\ Settled' = Settled
      /\ \A n \in Members : pc'[n] # "down" => pc[n] # "down"
  BY DEF CommitUncommittedOffsets, Goto, client, history, Published, Settled, TypeOK
<1>1. CASE committed' = committed
  <2>1. Consumed' = Consumed
    BY <1>1 DEF Consumed
  <2>2. \A p \in Partitions : committed[p] <= committed'[p]
    BY <1>1, GroupAssumption DEF TypeOK
  <2> QED
    BY <1>0, <1>1, <2>1, <2>2 DEF GroupInv, Within, Owned, Ahead, Accounted, Active, NoneMissed
<1>2. CASE m \in joined \ stopping /\ committed' = Offsets(m)
  <2>1. \A p \in Partitions : committed'[p] = IF p \in assigned[m] THEN position[m][p] ELSE committed[p]
    BY <1>2 DEF Offsets
  <2>2. \A p \in Partitions : committed[p] <= committed'[p]
    BY <1>2, <2>1, GroupAssumption DEF GroupInv, Ahead, TypeOK
  <2>3. Within'
    BY <1>0, <2>1 DEF GroupInv, Within
  <2>4. Ahead'
    <3> SUFFICES ASSUME NEW n \in joined, NEW p \in assigned[n]
                 PROVE  committed'[p] <= position[n][p]
      BY <1>0 DEF Ahead
    <3>1. n \in Members /\ p \in Partitions /\ position[n][p] \in Nat
      BY GroupAssumption DEF TypeOK
    <3>2. CASE n = m
      BY <2>1, <3>1, <3>2
    <3>3. CASE n # m
      BY <1>2, <2>1, <3>1, <3>3 DEF GroupInv, Owned, Ahead
    <3> QED
      BY <3>2, <3>3
  <2>5. ASSUME NEW r \in Records, r.off <= committed'[r.part]
        PROVE  r \in Settled
    <3>1. Active(m) /\ Accounted(m) /\ r.part \in Partitions
      BY <1>0, <1>2, RecordType DEF GroupInv, Active
    <3>2. CASE r.part \in assigned[m]
      BY <1>0, <2>1, <2>5, <3>1, <3>2 DEF Accounted
    <3>3. CASE r.part \notin assigned[m]
      BY <2>1, <2>5, <3>1, <3>3 DEF GroupInv, NoneMissed, Consumed
    <3> QED
      BY <3>2, <3>3
  <2>6. NoneMissed'
    BY <1>0, <2>5 DEF NoneMissed, Consumed
  <2>7. Owned' /\ \A n \in Members : Accounted(n)'
    BY <1>0 DEF GroupInv, Owned, Accounted, Active
  <2> QED
    BY <2>2, <2>3, <2>4, <2>6, <2>7 DEF GroupInv
<1> QED
  BY <1>1, <1>2 DEF CommitUncommittedOffsets

(* The invariant is kept by every step. *)
LEMMA GroupStep == TypeOK /\ TypeOK' /\ GroupInv /\ [Next]_vars => GroupInv'
<1> SUFFICES ASSUME TypeOK, TypeOK', GroupInv, [Next]_vars
             PROVE  GroupInv'
  OBVIOUS
<1>0. \A p \in Partitions : end[p] \in Nat
  BY GroupAssumption DEF TypeOK
<1>1. CASE UNCHANGED vars
  BY <1>0, <1>1, LogGrows DEF vars, Settled, Active
<1>2. ASSUME NEW p \in Partitions, PublishDispatch(p)
      PROVE  GroupInv'
  <2>1. \A q \in Partitions : end[q] <= end'[q]
    BY <1>0, <1>2 DEF PublishDispatch, TypeOK
  <2> QED
    BY <1>2, <2>1, LogGrows DEF PublishDispatch, client, history, Settled, Active
<1>3. ASSUME NEW m \in Members, SessionExpires(m) \/ Terminate(m) \/ FetchError(m) \/ Close(m)
      PROVE  GroupInv'
  <2>1. \A n \in Members : Active(n)' => Active(n)
    BY <1>3 DEF SessionExpires, Terminate, FetchError, Close, Goto, Active, TypeOK
  <2> QED
    BY <1>0, <1>3, <2>1, LogGrows
       DEF SessionExpires, Terminate, FetchError, Close, broker, client, history, Settled
<1>4. ASSUME NEW m \in Members, Rejoin(m) \/ Start(m)
      PROVE  GroupInv'
  <2>1. \A n \in Members \ {m} : pc'[n] = pc[n]
    BY <1>4 DEF Rejoin, Start, Goto, TypeOK
  <2> QED
    BY <1>4, <2>1, JoinInv DEF Rejoin, Start, broker, history
<1>5. ASSUME NEW m \in Members, Crash(m)
      PROVE  GroupInv'
  <2>1. /\ polled'[m] = {} /\ pc'[m] = "down"
        /\ \A n \in Members \ {m} : polled'[n] = polled[n] /\ pc'[n] = pc[n]
                                    /\ (n \in stopping' <=> n \in stopping)
    BY <1>5 DEF Crash, Goto, TypeOK
  <2>2. /\ end' = end /\ committed' = committed /\ joined' = joined /\ assigned' = assigned
        /\ position' = position
        /\ Published' = Published /\ Consumed' = Consumed /\ Settled' = Settled
    BY <1>5 DEF Crash, broker, history, Published, Consumed, Settled
  <2> QED
    BY <2>1, <2>2 DEF GroupInv, Within, Owned, Ahead, Accounted, Active, NoneMissed
<1> QED
  BY <1>1, <1>2, <1>3, <1>4, <1>5, RebalanceInv, PollInv, HandleInv, CommitInv DEF Next, Run

(* Whoever crashes, stops, hangs or loses its partitions: a commit only ever  *)
(* passes what its member has settled. *)
LEMMA GroupCorrect == Spec => []GroupInv
BY GroupInit, GroupStep, GroupTypes, PTL DEF Spec

-----------------------------------------------------------------------------
(* The group implements Delivery (consumer.go:31-83): a record below the      *)
(* committed offset was settled by some executor, and no commit takes back    *)
(* another's, through crashes, shutdowns, rebalances and lost sessions.       *)
THEOREM DeliveryImplemented == Spec => DeliverySpec
<1>1. Init => Topic!Init
  BY RecordType DEF Init, Topic!Init, Published, Consumed
<1>2. TypeOK /\ GroupInv /\ GroupInv' /\ [Next]_vars => [Topic!Next]_Topic!dvars
  <2> SUFFICES ASSUME TypeOK, GroupInv, GroupInv', [Next]_vars
               PROVE  [Topic!Next]_Topic!dvars
    OBVIOUS
  <2>0. /\ end' = end => Published' = Published
        /\ committed' = committed => Consumed' = Consumed
        /\ UNCHANGED history => Settled' = Settled
    BY DEF Published, Consumed, Settled, history
  <2>1. ASSUME end' = end, committed' = committed, UNCHANGED history
        PROVE  [Topic!Next]_Topic!dvars
    BY <2>0, <2>1 DEF Topic!dvars, Settled
  <2>2. ASSUME NEW p \in Partitions, PublishDispatch(p)
        PROVE  [Topic!Next]_Topic!dvars
    <3> DEFINE r == [part |-> p, off |-> end[p] + 1]
    <3>1. r \in Records /\ end[p] \in Nat
      BY <2>2, GroupAssumption DEF PublishDispatch, TypeOK, Records
    <3>2. end' = [end EXCEPT ![p] = end[p] + 1] /\ end \in [Partitions -> 0..MaxOffset]
      BY <2>2 DEF PublishDispatch, TypeOK
    <3>3. ASSUME NEW q \in Records
          PROVE  q.off <= end'[q.part] <=> q.off <= end[q.part] \/ q = r
      <4>1. CASE q.part = p
        BY <3>1, <3>2, <4>1, RecordType DEF Records
      <4>2. CASE q.part # p
        BY <3>2, <4>2, RecordType
      <4> QED
        BY <4>1, <4>2
    <3>4. Published' = Published \cup {r}
      BY <3>1, <3>3 DEF Published
    <3>5. Settled' = Settled /\ Consumed' = Consumed
      BY <2>0, <2>2 DEF PublishDispatch
    <3>6. Topic!Publish(r)
      BY <3>4, <3>5 DEF Topic!Publish, Settled
    <3> QED
      BY <3>1, <3>6 DEF Topic!Next
  <2>3. ASSUME NEW m \in Members, HandleRecord(m)
        PROVE  [Topic!Next]_Topic!dvars
    <3>1. PICK r \in polled[m] : Settled' = Settled \cup {r} \/ Settled' = Settled
      BY <2>3 DEF HandleRecord, history, Settled
    <3>2. Published' = Published /\ Consumed' = Consumed /\ r \in Published /\ r \in Records
      BY <2>0, <2>3 DEF HandleRecord, broker, GroupInv, Within, TypeOK
    <3>3. CASE Settled' = Settled
      BY <3>2, <3>3 DEF Topic!dvars, Settled
    <3>4. CASE Settled' = Settled \cup {r}
      <4>1. Topic!Settle(r)
        BY <3>2, <3>4 DEF Topic!Settle, Settled
      <4> QED
        BY <3>2, <4>1 DEF Topic!Next
    <3> QED
      BY <3>1, <3>3, <3>4
  <2>4. ASSUME NEW m \in Members, CommitUncommittedOffsets(m)
        PROVE  [Topic!Next]_Topic!dvars
    <3>1. Published' = Published /\ Settled' = Settled
      BY <2>0, <2>4 DEF CommitUncommittedOffsets
    <3>2. Consumed \subseteq Consumed'
      <4>1. \A p \in Partitions : committed[p] <= committed'[p] /\ committed[p] \in Nat
        BY <2>4, CommitInv, GroupAssumption DEF TypeOK
      <4>2. \A p \in Partitions : committed'[p] \in Nat
        BY <2>4, TypeStep, GroupAssumption DEF TypeOK, Next, Run
      <4> QED
        BY <4>1, <4>2, RecordType DEF Consumed
    <3>3. Consumed' \subseteq Settled
      BY <3>1 DEF GroupInv, NoneMissed
    <3>4. Topic!Consume
      BY <3>1, <3>2, <3>3 DEF Topic!Consume, Settled
    <3> QED
      BY <3>4 DEF Topic!Next
  <2>5. ASSUME NEW m \in Members,
               \/ SessionExpires(m) \/ Rejoin(m) \/ Start(m) \/ Terminate(m) \/ Crash(m)
               \/ PollFetches(m) \/ FetchError(m) \/ Close(m)
        PROVE  [Topic!Next]_Topic!dvars
    BY <2>1, <2>5 DEF SessionExpires, Rejoin, Start, Terminate, Crash, PollFetches, FetchError,
                      Close, broker
  <2>6. CASE Rebalance \/ UNCHANGED vars
    BY <2>1, <2>6 DEF Rebalance, broker, vars, history
  <2> QED
    BY <2>2, <2>3, <2>4, <2>5, <2>6 DEF Next, Run
<1> QED
  BY <1>1, <1>2, GroupTypes, GroupCorrect, PTL DEF Spec, DeliverySpec, Topic!Spec
=============================================================================
