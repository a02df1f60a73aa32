---------------------------- MODULE StoreProofs -----------------------------
(***************************************************************************)
(* What every update of the jobs collection preserves.  The lemmas are     *)
(* about StoreStep; the modules that prove something of a whole system     *)
(* show that its steps are store steps, or leave the store alone.          *)
(***************************************************************************)
EXTENDS JobStore, TLAPS

(* What the updates write has the type of what they read. *)
LEMMA UpdatedType ==
  ASSUME NEW d \in Document, NEW s \in Statuses
  PROVE  /\ Updated(d, s) \in Document
         /\ \A a, w \in Nat : [Updated(d, s) EXCEPT !.attempts = a, !.wait = w] \in Document
BY DEF Updated, Document

(* So has every history entry the updates write. *)
LEMMA EntryType ==
  ASSUME NEW e \in Entry
  PROVE  /\ [e EXCEPT !.starts = @ + 1] \in Entry
         /\ [e EXCEPT !.sweeps = @ + 1] \in Entry
         /\ [e EXCEPT !.retries = @ + 1] \in Entry
         /\ [e EXCEPT !.dead = TRUE] \in Entry
         /\ e.claims < MaxClaims => [e EXCEPT !.claims = @ + 1] \in Entry
<1>1. /\ [e EXCEPT !.starts = @ + 1] \in Entry
      /\ [e EXCEPT !.sweeps = @ + 1] \in Entry
      /\ [e EXCEPT !.retries = @ + 1] \in Entry
  BY DEF Entry
<1>2. [e EXCEPT !.dead = TRUE] \in Entry
  BY DEF Entry
<1>3. ASSUME e.claims < MaxClaims
      PROVE  [e EXCEPT !.claims = @ + 1] \in Entry
  <2>1. e.claims + 1 \in 0..MaxClaims
    BY <1>3, StoreAssumption DEF Entry
  <2> QED
    BY <2>1 DEF Entry
<1> QED
  BY <1>1, <1>2, <1>3

(* Create and SpawnCronInstance insert a well-typed document: the default   *)
(* budget of jobs_repo.go:49-52 makes maxAttempts a natural number.         *)
LEMMA InsertType ==
  ASSUME StoreTypeOK, NEW j \in Jobs, NEW s \in Statuses, NEW requested \in RequestedAttempts,
         NEW delay \in Nat, Insert(j, s, requested, delay)
  PROVE  docs' \in [Jobs -> Document]
<1>1. Budget(requested) \in Nat
  BY StoreAssumption DEF Budget, DefaultMaxAttempts
<1> QED
  BY <1>1 DEF Insert, StoreTypeOK, Document

(* A $set of a status of the model keeps the collection well typed. *)
LEMMA SetStatusType ==
  ASSUME StoreTypeOK, NEW j \in Jobs, NEW s \in Statuses, SetStatus(j, s)
  PROVE  docs' \in [Jobs -> Document]
BY UpdatedType DEF StoreTypeOK, SetStatus

(* So does MarkFailed, on either of its branches. *)
LEMMA MarkFailedType ==
  ASSUME StoreTypeOK, NEW j \in Jobs, NEW newAttempts \in Nat, NEW backoff \in Nat,
         MarkFailed(j, newAttempts, backoff)
  PROVE  StoreTypeOK'
<1> DEFINE exhausted == newAttempts >= docs[j].maxAttempts
           s == IF exhausted THEN "dlq" ELSE "pending"
           w == IF exhausted THEN docs[j].wait ELSE backoff
<1>1. docs[j] \in Document /\ ledger[j] \in Entry
  BY DEF StoreTypeOK
<1>2. s \in Statuses
  BY DEF Statuses
<1>3. docs[j].wait \in Nat
  BY <1>1 DEF Document
<1>4. [Updated(docs[j], s) EXCEPT !.attempts = newAttempts, !.wait = w] \in Document
  <2>1. w \in Nat
    BY <1>3
  <2> HIDE DEF s, w
  <2> QED
    BY <1>1, <1>2, <2>1, UpdatedType
<1>5. docs' \in [Jobs -> Document]
  BY <1>4 DEF MarkFailed, StoreTypeOK
<1>6. ledger' \in [Jobs -> Entry]
  BY <1>1, EntryType DEF MarkFailed, StoreTypeOK
<1> QED
  BY <1>5, <1>6 DEF StoreTypeOK

(* JobStore: one update of the collection keeps the types of the documents  *)
(* and of the history kept about them.                                      *)
LEMMA StoreStepType ==
  ASSUME StoreTypeOK, StoreStep
  PROVE  StoreTypeOK'
<1>1. ASSUME NEW j \in Jobs, NEW requested \in RequestedAttempts, NEW delay \in FirstDelays,
             Create(j, requested, delay)
      PROVE  StoreTypeOK'
  <2>1. delay \in Nat
    BY StoreAssumption
  <2> QED
    BY <1>1, <2>1, InsertType DEF Create, StoreTypeOK, Statuses
<1>s. ASSUME NEW j \in Jobs, NEW requested \in RequestedAttempts, SpawnCronInstance(j, requested)
      PROVE  StoreTypeOK'
  BY <1>s, InsertType, EntryType DEF SpawnCronInstance, StoreTypeOK, Statuses
<1>2. ASSUME NEW j \in Jobs, ClaimDueJob(j)
      PROVE  StoreTypeOK'
  BY <1>2, SetStatusType, EntryType DEF ClaimDueJob, First, Due, StoreTypeOK, Statuses
<1>3. ASSUME NEW j \in Jobs, MarkClaimed(j)
      PROVE  StoreTypeOK'
  BY <1>3, SetStatusType, EntryType DEF MarkClaimed, StoreTypeOK, Statuses
<1>4. ASSUME NEW j \in Jobs, MarkRunning(j) \/ MarkCompleted(j)
      PROVE  StoreTypeOK'
  BY <1>4, SetStatusType DEF MarkRunning, MarkCompleted, StoreTypeOK, Statuses
<1>5. ASSUME NEW j \in Jobs, NEW newAttempts \in Nat, NEW backoff \in Nat,
             MarkFailed(j, newAttempts, backoff)
      PROVE  StoreTypeOK'
  BY <1>5, MarkFailedType
<1>6. ASSUME NEW j \in Jobs, SweepStuckJobs(j) \/ SweepStuckQueuedJobs(j)
      PROVE  StoreTypeOK'
  BY <1>6, SetStatusType, EntryType
     DEF SweepStuckJobs, SweepStuckQueuedJobs, Sweep, StoreTypeOK, Statuses
<1>7. CASE Elapse
  <2> SUFFICES ASSUME NEW j \in Jobs
               PROVE  docs'[j] \in Document
    BY <1>7 DEF Elapse, StoreTypeOK
  <2>1. docs[j] \in Document
    BY DEF StoreTypeOK
  <2> DEFINE w == IF docs[j].wait = 0 THEN 0 ELSE docs[j].wait - 1
             i == IF docs[j].status \in Sweepable /\ docs[j].idle < IdleCap
                  THEN docs[j].idle + 1 ELSE docs[j].idle
  <2>2. w \in Nat /\ i \in Nat
    BY <2>1 DEF Document
  <2>3. docs'[j] = [docs[j] EXCEPT !.wait = w, !.idle = i]
    BY <1>7 DEF Elapse
  <2> HIDE DEF w, i
  <2> QED
    BY <2>1, <2>2, <2>3 DEF Document
<1> QED
  BY <1>1, <1>s, <1>2, <1>3, <1>4, <1>5, <1>6, <1>7 DEF StoreStep

(* The two inequalities for one job, on its document and history alone. *)
Accounted(d, e) ==
  /\ e.claims + Bit(d.status = "pending") <= Bit(d.status # "absent") + e.retries + e.sweeps
  /\ e.starts + Bit(d.status = "queued") <= e.claims

(* StartsWithinRecoveries holds of the empty collection. *)
LEMMA StartsWithinRecoveriesInit ==
  ASSUME StoreInit
  PROVE  StartsWithinRecoveries
<1> SUFFICES ASSUME NEW j \in Jobs
             PROVE  Accounted(docs[j], ledger[j])
  BY DEF Accounted, StartsWithinRecoveries
<1>1. /\ docs[j].status = "absent"
      /\ ledger[j] = [claims |-> 0, starts |-> 0, retries |-> 0, sweeps |-> 0, dead |-> FALSE]
  BY DEF StoreInit
<1> QED
  BY <1>1 DEF Accounted, Bit

(* JobStore: the two compare-and-set updates are enough to tie the number   *)
(* of starts to the number of returns to pending, whoever calls what when.  *)
LEMMA StartsWithinRecoveriesStep ==
  ASSUME StoreTypeOK, StartsWithinRecoveries, StoreStep
  PROVE  StartsWithinRecoveries'
<1> SUFFICES ASSUME NEW k \in Jobs
             PROVE  Accounted(docs'[k], ledger'[k])
  BY DEF Accounted, StartsWithinRecoveries, Bit
<1>0. docs[k] \in Document /\ ledger[k] \in Entry /\ Accounted(docs[k], ledger[k])
  BY DEF Accounted, StartsWithinRecoveries, StoreTypeOK
<1>a. ASSUME NEW j \in Jobs, NEW s, SetStatus(j, s)
      PROVE  /\ k = j => docs'[k].status = s
             /\ k # j => docs'[k] = docs[k]
  BY <1>a, <1>0 DEF SetStatus, Updated, StoreTypeOK, Document
<1> USE DEF Entry, Bit
<1>1. ASSUME NEW j \in Jobs, NEW requested \in RequestedAttempts, NEW delay \in FirstDelays,
             Create(j, requested, delay)
      PROVE  Accounted(docs'[k], ledger'[k])
  BY <1>1, <1>0 DEF Create, Insert, Accounted, StoreTypeOK
<1>s. ASSUME NEW j \in Jobs, NEW requested \in RequestedAttempts, SpawnCronInstance(j, requested)
      PROVE  Accounted(docs'[k], ledger'[k])
  BY <1>s, <1>0 DEF SpawnCronInstance, Insert, Accounted, StoreTypeOK
<1>2. ASSUME NEW j \in Jobs, ClaimDueJob(j)
      PROVE  Accounted(docs'[k], ledger'[k])
  BY <1>2, <1>0, <1>a DEF ClaimDueJob, First, Due, Accounted, StoreTypeOK
<1>3. ASSUME NEW j \in Jobs, MarkClaimed(j)
      PROVE  Accounted(docs'[k], ledger'[k])
  BY <1>3, <1>0, <1>a DEF MarkClaimed, Accounted, StoreTypeOK
<1>4. ASSUME NEW j \in Jobs, MarkRunning(j) \/ MarkCompleted(j)
      PROVE  Accounted(docs'[k], ledger'[k])
  BY <1>4, <1>0, <1>a DEF MarkRunning, MarkCompleted, Accounted
<1>5. ASSUME NEW j \in Jobs, NEW newAttempts \in Nat, NEW backoff \in Nat,
             MarkFailed(j, newAttempts, backoff)
      PROVE  Accounted(docs'[k], ledger'[k])
  <2> DEFINE exhausted == newAttempts >= docs[j].maxAttempts
  <2>1. CASE k # j
    BY <1>5, <1>0, <2>1 DEF MarkFailed, StoreTypeOK
  <2>2. CASE k = j /\ exhausted
    <3>1. docs'[k].status = "dlq"
      BY <1>5, <1>0, <2>2 DEF MarkFailed, Updated, StoreTypeOK, Document
    <3>2. ledger'[k] = [ledger[k] EXCEPT !.dead = TRUE]
      BY <1>5, <1>0, <2>2 DEF MarkFailed, StoreTypeOK
    <3> QED
      BY <1>0, <3>1, <3>2 DEF Accounted
  <2>3. CASE k = j /\ ~exhausted
    <3>1. docs'[k].status = "pending"
      BY <1>5, <1>0, <2>3 DEF MarkFailed, Updated, StoreTypeOK, Document
    <3>2. ledger'[k] = [ledger[k] EXCEPT !.retries = @ + 1]
      BY <1>5, <1>0, <2>3 DEF MarkFailed, StoreTypeOK
    <3> QED
      BY <1>0, <3>1, <3>2 DEF Accounted
  <2> QED
    BY <2>1, <2>2, <2>3
<1>6. ASSUME NEW j \in Jobs, SweepStuckJobs(j) \/ SweepStuckQueuedJobs(j)
      PROVE  Accounted(docs'[k], ledger'[k])
  BY <1>6, <1>0, <1>a
     DEF SweepStuckJobs, SweepStuckQueuedJobs, Sweep, Accounted, StoreTypeOK
<1>7. CASE Elapse
  BY <1>7, <1>0 DEF Elapse, Accounted, StoreTypeOK, Document
<1> QED
  BY <1>1, <1>s, <1>2, <1>3, <1>4, <1>5, <1>6, <1>7 DEF StoreStep
=============================================================================
