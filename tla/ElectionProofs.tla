--------------------------- MODULE ElectionProofs ---------------------------
(***************************************************************************)
(* etcd never recognises two leaders, for any number of processes, starts  *)
(* and cuts.                                                               *)
(***************************************************************************)
EXTENDS Election, TLAPS

(* Sessions are numbered, so a new one has no key yet. *)
Fresh == \A s \in leases : s[2] <= starts[s[1]]

(* Of two keys one was created first, and the owner of the other knows. *)
Ordered ==
  \A m, n \in Nodes :
    m # n /\ Mine(m) \in keys /\ Mine(n) \in keys
      => Mine(m) \in ahead[n] \/ Mine(n) \in ahead[m]

(* A process that campaigned has its key for as long as its lease lives. *)
KeyHeld ==
  \A n \in Nodes : pc[n] \in {"waiting", "leading"} /\ Mine(n) \in leases => Mine(n) \in keys

(* Nobody was before the leader. *)
FirstInLine == \A n \in Nodes : pc[n] = "leading" => ahead[n] = {}

(* Together they are inductive. *)
ElectionInv == TypeOK /\ Fresh /\ Ordered /\ KeyHeld /\ FirstInLine

(* Nobody has started: there are no keys and no leader. *)
LEMMA ElectionInvInit == Init => ElectionInv
BY ElectionAssumption
   DEF Init, ElectionInv, TypeOK, Fresh, Ordered, KeyHeld, FirstInLine, Points, Sessions

(* What deleting a key does to the parts of the invariant that mention keys. *)
LEMMA DeleteKeeps ==
  ASSUME ElectionInv, NEW s, Delete(s), starts' = starts
  PROVE  /\ keys' \subseteq keys
         /\ ahead' \in [Nodes -> SUBSET Sessions]
         /\ Ordered'
         /\ \A n \in Nodes : ahead[n] = {} => ahead'[n] = {}
BY DEF ElectionInv, TypeOK, Ordered, Delete, Mine

(* Every step of a process or of etcd (election.go:34-107) keeps it. *)
LEMMA ElectionInvStep == ElectionInv /\ [Next]_vars => ElectionInv'
<1> SUFFICES ASSUME ElectionInv, [Next]_vars
             PROVE  ElectionInv'
  OBVIOUS
<1> USE ElectionAssumption
<1>1. ASSUME NEW s \in Sessions, LeaseExpires(s)
      PROVE  ElectionInv'
  <2>1. TypeOK' /\ Fresh'
    BY <1>1, DeleteKeeps DEF LeaseExpires, Delete, process, session, ElectionInv, TypeOK, Fresh
  <2>2. Ordered' /\ FirstInLine'
    BY <1>1, DeleteKeeps DEF LeaseExpires, process, ElectionInv, FirstInLine, TypeOK
  <2>3. KeyHeld'
    BY <1>1 DEF LeaseExpires, Delete, process, ElectionInv, KeyHeld, Mine
  <2> QED
    BY <2>1, <2>2, <2>3 DEF ElectionInv
<1>2. ASSUME NEW n \in Nodes, Cut(n) \/ SessionDone(n) \/ Terminate(n)
      PROVE  ElectionInv'
  <2>1. UNCHANGED <<pc, starts, leases, keys, ahead>>
    BY <1>2 DEF Cut, SessionDone, Terminate, process, etcd
  <2>t. stopping \in [Nodes -> BOOLEAN] /\ cut \in [Nodes -> BOOLEAN]
    BY DEF ElectionInv, TypeOK
  <2>s. stopping' = stopping \/ stopping' = [stopping EXCEPT ![n] = TRUE]
    BY <1>2 DEF Cut, SessionDone, Terminate, process
  <2>c. cut' = cut \/ cut' = [cut EXCEPT ![n] = TRUE]
    BY <1>2 DEF Cut, SessionDone, Terminate, session
  <2>2. stopping' \in [Nodes -> BOOLEAN] /\ cut' \in [Nodes -> BOOLEAN]
    BY <2>t, <2>s, <2>c
  <2>d. done' = done \/ done' = [done EXCEPT ![n] = TRUE]
    BY <1>2 DEF Cut, SessionDone, Terminate, session
  <2>3. done' \in [Nodes -> BOOLEAN]
    BY <2>d DEF ElectionInv, TypeOK
  <2>4. cuts' \in 0..MaxCuts
    BY <1>2 DEF Cut, SessionDone, Terminate, session, ElectionInv, TypeOK
  <2> QED
    BY <2>1, <2>2, <2>3, <2>4 DEF ElectionInv, TypeOK, Fresh, Ordered, KeyHeld, FirstInLine, Mine
<1>3. ASSUME NEW n \in Nodes, Start(n)
      PROVE  ElectionInv'
  <2>1. TypeOK'
    BY <1>3 DEF Start, Move, Points, Sessions, ElectionInv, TypeOK
  <2>2. Fresh'
    BY <1>3 DEF Start, ElectionInv, TypeOK, Sessions, Fresh
  <2>3. <<n, starts[n] + 1>> \notin keys
    BY <1>3 DEF ElectionInv, TypeOK, Sessions, Fresh
  <2>4. Ordered' /\ KeyHeld' /\ FirstInLine'
    <3>1. \A m \in Nodes : m # n => Mine(m)' = Mine(m) /\ ahead'[m] = ahead[m] /\ pc'[m] = pc[m]
      BY <1>3 DEF Start, Move, Mine, ElectionInv, TypeOK
    <3>2. Mine(n)' \notin keys' /\ pc'[n] = "retry" /\ keys' = keys
      BY <1>3, <2>3 DEF Start, Move, Mine, ElectionInv, TypeOK
    <3>3. \A m \in Nodes : m # n => (Mine(m) \in leases' <=> Mine(m) \in leases)
      BY <1>3 DEF Start, Mine
    <3> QED
      BY <3>1, <3>2, <3>3 DEF ElectionInv, Ordered, KeyHeld, FirstInLine
  <2> QED
    BY <2>1, <2>2, <2>4 DEF ElectionInv
<1>4. ASSUME NEW n \in Nodes, Campaign(n)
      PROVE  ElectionInv'
  <2>1. TypeOK' /\ Fresh'
    BY <1>4 DEF Campaign, Move, Points, Mine, Sessions, session, ElectionInv, TypeOK, Fresh
  <2>2. \A m \in Nodes : Mine(m)' = Mine(m)
    BY <1>4 DEF Campaign, Mine
  <2>3. /\ pc' = [pc EXCEPT ![n] = "waiting"] /\ pc[n] = "retry"
        /\ keys' = keys \cup {Mine(n)} /\ leases' = leases
        /\ ahead' = IF Mine(n) \in keys THEN ahead ELSE [ahead EXCEPT ![n] = keys]
    BY <1>4 DEF Campaign, Move
  <2>4. \A m \in Nodes : m # n => Mine(m) # Mine(n)
    BY DEF Mine
  <2>5. Ordered'
    BY <2>2, <2>3, <2>4 DEF ElectionInv, TypeOK, Ordered
  <2>6. KeyHeld'
    BY <2>2, <2>3 DEF ElectionInv, TypeOK, KeyHeld
  <2>7. FirstInLine'
    BY <2>3 DEF ElectionInv, TypeOK, FirstInLine
  <2> QED
    BY <2>1, <2>5, <2>6, <2>7 DEF ElectionInv
<1>5. ASSUME NEW n \in Nodes, CampaignFails(n) \/ Retry(n) \/ Elected(n) \/ StopLeading(n) \/ Crash(n)
      PROVE  ElectionInv'
  BY <1>5 DEF CampaignFails, Retry, Elected, StopLeading, Crash, Move, Points, etcd, session,
              ElectionInv, TypeOK, Fresh, Ordered, KeyHeld, FirstInLine, Mine
<1>6. ASSUME NEW n \in Nodes, Resign(n) \/ AbandonCampaign(n)
      PROVE  ElectionInv'
  <2>0. /\ pc' = [pc EXCEPT ![n] = "retry"] /\ pc[n] # "down"
        /\ UNCHANGED <<starts, stopping, session, leases>>
        /\ Delete(Mine(n)) \/ UNCHANGED <<keys, ahead>>
    BY <1>6 DEF Resign, AbandonCampaign, Move
  <2>k. keys' \subseteq leases /\ ahead' \in [Nodes -> SUBSET Sessions]
    BY <2>0, DeleteKeeps DEF ElectionInv, TypeOK
  <2>1. TypeOK' /\ Fresh'
    BY <2>0, <2>k DEF session, Points, ElectionInv, TypeOK, Fresh
  <2>2. Ordered' /\ FirstInLine'
    BY <2>0, DeleteKeeps DEF ElectionInv, TypeOK, Ordered, FirstInLine, Mine
  <2>3. KeyHeld'
    <3>1. \A m \in Nodes : m # n => Mine(m) # Mine(n)
      BY DEF Mine
    <3> QED
      BY <2>0, <3>1 DEF Delete, ElectionInv, TypeOK, KeyHeld, Mine
  <2> QED
    BY <2>1, <2>2, <2>3 DEF ElectionInv
<1>7. ASSUME NEW n \in Nodes, Exit(n)
      PROVE  ElectionInv'
  <2>0. /\ pc' = [pc EXCEPT ![n] = "down"]
        /\ UNCHANGED <<starts, stopping, session>>
        /\ \/ leases' = leases \ {Mine(n)} /\ Delete(Mine(n))
           \/ UNCHANGED etcd
    BY <1>7 DEF Exit, Move
  <2>1. TypeOK' /\ Fresh'
    BY <2>0, DeleteKeeps DEF session, etcd, Delete, Points, ElectionInv, TypeOK, Fresh
  <2>2. Ordered' /\ FirstInLine'
    BY <2>0, DeleteKeeps DEF etcd, ElectionInv, TypeOK, Ordered, FirstInLine, Mine
  <2>3. KeyHeld'
    BY <2>0 DEF etcd, Delete, ElectionInv, TypeOK, KeyHeld, Mine
  <2> QED
    BY <2>1, <2>2, <2>3 DEF ElectionInv
<1>8. CASE UNCHANGED vars
  BY <1>8 DEF vars, ElectionInv, TypeOK, Fresh, Ordered, KeyHeld, FirstInLine, Mine
<1> QED
  BY <1>1, <1>2, <1>3, <1>4, <1>5, <1>6, <1>7, <1>8 DEF Next, Proceed

(* Every process stays within its states and its starts, and etcd holds no   *)
(* key without its lease (election.go:34-107, cmd/scheduler/main.go:76-92).  *)
THEOREM ElectionTypeCorrect == Spec => []TypeOK
<1>1. ElectionInv => TypeOK
  BY DEF ElectionInv
<1> QED
  BY <1>1, ElectionInvInit, ElectionInvStep, PTL DEF Spec

(* The two first in line would each have been there before the other. *)
LEMMA ElectionInvLeader == ElectionInv => OneRecognisedLeader
BY DEF ElectionInv, Ordered, KeyHeld, FirstInLine, OneRecognisedLeader, Leading

(* LeaderElector (election.go:65-104): of two processes that both run the    *)
(* scheduler loop one has lost its lease.                                    *)
THEOREM LeaderRecognised == Spec => []OneRecognisedLeader
BY ElectionInvInit, ElectionInvStep, ElectionInvLeader, PTL DEF Spec
=============================================================================
