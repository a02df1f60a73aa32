--------------------------- MODULE PunctualProofs ---------------------------
(***************************************************************************)
(* Theorems about the pipeline when its timeouts mean what they are meant  *)
(* to mean: one executor per job, final verdicts, and the contract of      *)
(* module JobContract.                                                     *)
(***************************************************************************)
EXTENDS Punctual, PipelineProofs

(* An executor between its claim and its last write finds the document as   *)
(* it left it, and young enough for the reaper to leave it alone.           *)
Held(w) ==
  exec[w].pc \in Engaged =>
    /\ docs[JobOf(w)].status = IF exec[w].pc = "mark" THEN "claimed" ELSE "running"
    /\ docs[JobOf(w)].idle + Skew < ClaimTimeout
    /\ exec[w].pc = "handle" => docs[JobOf(w)].idle <= ExecTimeout

Apart(v, w) ==
  exec[v].pc \in Engaged /\ exec[w].pc \in Engaged /\ JobOf(v) = JobOf(w) => v = w

(* What it read of the attempt count: an old count before the claim, the     *)
(* count itself in MarkFailed.                                               *)
Recalls(w) ==
  /\ exec[w].pc \in Engaged \cup {"claim"} => exec[w].seen <= docs[JobOf(w)].attempts
  /\ exec[w].pc = "failWrite" => exec[w].next = docs[JobOf(w)].attempts + 1

(* A job is dead when its budget is spent and not before. *)
Budgeted(d) ==
  /\ d.status = "absent" => d.attempts = 0
  /\ d.status = "dlq" => d.attempts = d.maxAttempts
  /\ d.status \notin {"absent", "dlq"} => d.attempts < d.maxAttempts

HoldInv ==
  /\ TypeOK
  /\ \A w \in Workers : Held(w) /\ Recalls(w)
  /\ \A v, w \in Workers : Apart(v, w)
  /\ \A j \in Jobs : Budgeted(docs[j])

-----------------------------------------------------------------------------
(* Punctual restricts Pipeline, so its steps keep the types. *)
LEMMA PunctualTypes == TypeOK /\ [PunctualNext]_vars => TypeOK'
BY TypeStep DEF PunctualNext, Next

(* The stages of an executor at a job are stages away from "poll". *)
LEMMA EngagedJob ==
  ASSUME TypeOK, NEW w \in Workers, exec[w].pc \in Engaged \cup {"claim"}
  PROVE  JobOf(w) \in Jobs
BY JobOfType DEF Engaged, InCall

(* A step that changes a document no executor works at, and no executor. *)
LEMMA IdleJobStep ==
  ASSUME HoldInv, TypeOK', exec' = exec, NEW j \in Jobs,
         \A k \in Jobs \ {j} : docs'[k] = docs[k],
         docs[j].status \notin {"claimed", "running"} \/ docs[j].idle + Skew >= ClaimTimeout,
         docs'[j].attempts = docs[j].attempts, Budgeted(docs'[j])
  PROVE  HoldInv'
<1>1. ASSUME NEW w \in Workers, exec[w].pc \in Engaged
      PROVE  JobOf(w) \in Jobs \ {j}
  <2>1. JobOf(w) \in Jobs
    BY <1>1, EngagedJob DEF HoldInv
  <2>2. Held(w)
    BY DEF HoldInv
  <2>3. docs[JobOf(w)].idle + Skew < ClaimTimeout /\ docs[JobOf(w)].status \in {"claimed", "running"}
    BY <1>1, <2>2 DEF Held
  <2>4. docs[j] \in Document
    BY DEF HoldInv, TypeOK, StoreTypeOK
  <2> QED
    BY <2>1, <2>3, <2>4, StoreAssumption DEF Document
<1>2. \A w \in Workers : JobOf(w)' = JobOf(w)
  BY DEF JobOf
<1>3. ASSUME NEW w \in Workers
      PROVE  Held(w)' /\ Recalls(w)'
  <2>1. Held(w) /\ Recalls(w)
    BY DEF HoldInv
  <2>2. CASE exec[w].pc \in Engaged
    BY <1>1, <1>2, <2>1, <2>2 DEF Held, Recalls
  <2>3. CASE exec[w].pc \notin Engaged
    <3>1. exec[w].pc = "claim" => docs'[JobOf(w)].attempts = docs[JobOf(w)].attempts
      BY EngagedJob DEF HoldInv
    <3> QED
      BY <1>2, <2>1, <2>3, <3>1 DEF Held, Recalls, Engaged, InCall
  <2> QED
    BY <2>2, <2>3
<1>4. \A v, w \in Workers : Apart(v, w)'
  BY <1>2 DEF HoldInv, Apart
<1>5. \A k \in Jobs : Budgeted(docs'[k])
  BY DEF HoldInv
<1> QED
  BY <1>3, <1>4, <1>5 DEF HoldInv, Budgeted

(* A step of an executor at its own job, which it holds or is about to. *)
LEMMA OwnJobStep ==
  ASSUME HoldInv, TypeOK', NEW w \in Workers, exec[w].pc # "poll",
         \A v \in Workers \ {w} : exec'[v] = exec[v],
         \A k \in Jobs \ {JobOf(w)} : docs'[k] = docs[k],
         \/ docs' = docs
         \/ docs[JobOf(w)].status = "queued"
         \/ exec[w].pc \in Engaged,
         docs'[JobOf(w)].attempts >= docs[JobOf(w)].attempts, Budgeted(docs'[JobOf(w)]),
         exec'[w].pc \in Engaged =>
           /\ JobOf(w)' = JobOf(w)
           /\ exec[w].pc \in Engaged \/ docs[JobOf(w)].status = "queued",
         Held(w)', Recalls(w)'
  PROVE  HoldInv'
<1> DEFINE j == JobOf(w)
<1>0. j \in Jobs /\ docs[j] \in Document /\ docs'[j] \in Document
  BY JobOfType DEF HoldInv, TypeOK, StoreTypeOK
<1>1. ASSUME NEW v \in Workers \ {w}
      PROVE  JobOf(v)' = JobOf(v) /\ exec'[v] = exec[v]
  BY <1>1 DEF JobOf
<1>2. ASSUME NEW v \in Workers \ {w}, exec[v].pc \in Engaged,
             docs' # docs \/ exec'[w].pc \in Engaged
      PROVE  JobOf(v) # j
  <2>1. Held(v) /\ Apart(v, w)
    BY DEF HoldInv
  <2>2. exec[w].pc \in Engaged \/ docs[j].status = "queued"
    BY <1>2
  <2> QED
    BY <1>2, <2>1, <2>2 DEF Held, Apart
<1>3. ASSUME NEW v \in Workers \ {w}
      PROVE  Held(v)' /\ Recalls(v)'
  <2>1. Held(v) /\ Recalls(v)
    BY DEF HoldInv
  <2>2. CASE exec[v].pc \in Engaged
    <3>1. JobOf(v) \in Jobs
      BY <2>2, EngagedJob DEF HoldInv
    <3>2. docs'[JobOf(v)] = docs[JobOf(v)]
      BY <1>2, <2>2, <3>1
    <3> QED
      BY <1>1, <2>1, <2>2, <3>2 DEF Held, Recalls
  <2>3. CASE exec[v].pc = "claim"
    <3>1. JobOf(v) \in Jobs
      BY <2>3, EngagedJob DEF HoldInv
    <3>2. exec[v].seen \in Nat /\ exec[v].seen <= docs[JobOf(v)].attempts
      BY <2>1, <2>3 DEF Recalls, HoldInv, TypeOK, Execution
    <3>3. docs'[JobOf(v)].attempts \in Nat /\ docs[JobOf(v)].attempts \in Nat
      BY <3>1 DEF HoldInv, TypeOK, StoreTypeOK, Document
    <3>4. exec'[v].seen <= docs'[JobOf(v)'].attempts
      BY <1>1, <3>1, <3>2, <3>3
    <3> QED
      BY <1>1, <2>3, <3>4 DEF Held, Recalls, Engaged, InCall
  <2>4. CASE exec[v].pc \notin Engaged \cup {"claim"}
    BY <1>1, <2>4 DEF Held, Recalls, Engaged, InCall
  <2> QED
    BY <2>2, <2>3, <2>4
<1>4. ASSUME NEW v \in Workers, NEW u \in Workers
      PROVE  Apart(v, u)'
  <2>1. Apart(v, u)
    BY DEF HoldInv
  <2>2. CASE v # w /\ u # w
    BY <1>1, <2>1, <2>2 DEF Apart
  <2>3. CASE v = w /\ u # w
    BY <1>1, <1>2, <2>3 DEF Apart
  <2>4. CASE u = w /\ v # w
    BY <1>1, <1>2, <2>4 DEF Apart
  <2> QED
    BY <2>2, <2>3, <2>4 DEF Apart
<1>5. \A k \in Jobs : Budgeted(docs'[k])
  BY DEF HoldInv
<1> QED
  BY <1>3, <1>4, <1>5 DEF HoldInv, Budgeted

-----------------------------------------------------------------------------
(* Nothing is held at the start. *)
LEMMA HoldInit == Init => HoldInv
<1> SUFFICES ASSUME Init
             PROVE  HoldInv
  OBVIOUS
<1>1. TypeOK
  BY TypeInit
<1>2. \A j \in Jobs : Budgeted(docs[j])
  BY DEF Init, StoreInit, Budgeted
<1>3. \A w \in Workers : exec[w].pc = "poll"
  BY DEF Init, Waiting
<1> QED
  BY <1>1, <1>2, <1>3 DEF HoldInv, Held, Recalls, Apart, Engaged, InCall

(* The schedulers, the API and the reaper change a document only while no     *)
(* executor holds it: each of their updates is a compare-and-set on a status  *)
(* that excludes it, and the claimed sweep looks at idle.                     *)
LEMMA OthersHold ==
  ASSUME HoldInv, TypeOK',
         \/ \E j \in Jobs : CreateJob(j) \/ Reap(j)
         \/ \E s \in Schedulers : SchedulerStep(s) \/ SchedulerDies(s)
         \/ \E s \in Schedulers, j \in Jobs : SpawnInstance(s, j)
  PROVE  HoldInv'
<1>0. StoreTypeOK /\ \A j \in Jobs : Budgeted(docs[j]) /\ docs[j] \in Document
  BY DEF HoldInv, TypeOK, StoreTypeOK
<1>e. exec' = exec
  BY DEF CreateJob, Reap, SchedulerStep, SchedulerDies, ClaimNext, DispatchBatch, ClaimFails,
         Publish, SpawnInstance
<1>1. ASSUME docs' = docs
      PROVE  HoldInv'
  BY <1>1, <1>e DEF HoldInv, Held, Recalls, Apart, JobOf, Budgeted
<1>2. ASSUME NEW j \in Jobs, NEW status \in {"pending", "queued"}, NEW requested \in RequestedAttempts,
             NEW delay \in Nat, Insert(j, status, requested, delay)
      PROVE  HoldInv'
  <2>1. Budget(requested) \in Nat \ {0}
    BY StoreAssumption DEF Budget, DefaultMaxAttempts
  <2>2. /\ \A k \in Jobs \ {j} : docs'[k] = docs[k]
        /\ docs'[j].status = status /\ docs'[j].attempts = 0
        /\ docs'[j].maxAttempts = Budget(requested)
    BY <1>0, <1>2 DEF Insert, StoreTypeOK
  <2>3. docs[j].status = "absent" /\ docs[j].attempts = 0
    BY <1>0, <1>2 DEF Insert, Budgeted
  <2>4. Budgeted(docs'[j])
    BY <2>1, <2>2 DEF Budgeted
  <2> QED
    BY <1>e, <2>2, <2>3, <2>4, IdleJobStep
<1>3. ASSUME NEW j \in Jobs, NEW s \in {"pending", "queued"}, SetStatus(j, s),
             docs[j].status \notin {"absent", "dlq"},
             docs[j].status \notin {"claimed", "running"} \/ docs[j].idle + Skew >= ClaimTimeout
      PROVE  HoldInv'
  <2>1. /\ \A k \in Jobs \ {j} : docs'[k] = docs[k]
        /\ docs'[j].status = s
        /\ docs'[j].attempts = docs[j].attempts /\ docs'[j].maxAttempts = docs[j].maxAttempts
    BY <1>0, <1>3, StatusSet DEF Statuses
  <2>2. Budgeted(docs'[j])
    BY <1>0, <1>3, <2>1 DEF Budgeted
  <2> QED
    BY <1>3, <1>e, <2>1, <2>2, IdleJobStep
<1>4. ASSUME NEW j \in Jobs, CreateJob(j)
      PROVE  HoldInv'
  BY <1>2, <1>4, StoreAssumption DEF CreateJob, Create
<1>5. ASSUME NEW j \in Jobs, Reap(j)
      PROVE  HoldInv'
  BY <1>3, <1>5 DEF Reap, SweepStuckJobs, SweepStuckQueuedJobs, Sweep
<1>6. ASSUME NEW j \in Jobs, ClaimDueJob(j)
      PROVE  HoldInv'
  BY <1>3, <1>6 DEF ClaimDueJob, First, Due
<1>7. ASSUME NEW s \in Schedulers, SchedulerStep(s) \/ SchedulerDies(s)
      PROVE  HoldInv'
  BY <1>1, <1>6, <1>7 DEF SchedulerStep, SchedulerDies, ClaimNext, DispatchBatch, ClaimFails,
                          Publish, store
<1>8. ASSUME NEW s \in Schedulers, NEW j \in Jobs, SpawnInstance(s, j)
      PROVE  HoldInv'
  BY <1>2, <1>8 DEF SpawnInstance, SpawnCronInstance
<1> QED
  BY <1>4, <1>5, <1>7, <1>8

(* Time passes: OnTime leaves what is held young enough. *)
LEMMA TickHolds ==
  ASSUME HoldInv, TypeOK', Tick, OnTime
  PROVE  HoldInv'
<1>0. exec' = exec /\ \A w \in Workers : JobOf(w)' = JobOf(w)
  BY DEF Tick, JobOf
<1>1. ASSUME NEW j \in Jobs
      PROVE  /\ docs'[j].status = docs[j].status
             /\ docs'[j].attempts = docs[j].attempts
             /\ docs'[j].maxAttempts = docs[j].maxAttempts
             /\ docs'[j].idle \in {docs[j].idle, docs[j].idle + 1}
  <2>1. docs[j] \in Document
    BY DEF HoldInv, TypeOK, StoreTypeOK
  <2> QED
    BY <2>1 DEF Tick, Elapse, Document
<1>2. ASSUME NEW w \in Workers
      PROVE  Held(w)' /\ Recalls(w)'
  <2>1. Held(w) /\ Recalls(w)
    BY DEF HoldInv
  <2>2. CASE exec[w].pc \in Engaged
    <3>1. JobOf(w) \in Jobs
      BY <2>2, EngagedJob DEF HoldInv
    <3>2. docs[JobOf(w)].idle \in Nat
      BY <3>1 DEF HoldInv, TypeOK, StoreTypeOK, Document
    <3>3. /\ exec[w].pc = "handle" => docs[JobOf(w)].idle < ExecTimeout
          /\ exec[w].pc \in InCall => docs[JobOf(w)].idle + 1 + Skew < ClaimTimeout
      BY DEF OnTime
    <3>4. /\ docs'[JobOf(w)].idle + Skew < ClaimTimeout
          /\ exec[w].pc = "handle" => docs'[JobOf(w)].idle <= ExecTimeout
      <4>1. CASE exec[w].pc = "handle"
        BY <1>1, <3>1, <3>2, <3>3, <4>1, TimeoutAssumption, StoreAssumption, PipelineAssumption
      <4>2. CASE exec[w].pc \in InCall
        BY <1>1, <3>1, <3>2, <3>3, <4>2, StoreAssumption DEF InCall
      <4> QED
        BY <2>2, <4>1, <4>2 DEF Engaged
    <3> QED
      BY <1>0, <1>1, <2>1, <2>2, <3>1, <3>4 DEF Held, Recalls
  <2>3. CASE exec[w].pc \notin Engaged
    <3>1. exec[w].pc = "claim" => JobOf(w) \in Jobs
      BY EngagedJob DEF HoldInv
    <3> QED
      BY <1>0, <1>1, <2>1, <2>3, <3>1 DEF Held, Recalls, Engaged, InCall
  <2> QED
    BY <2>2, <2>3
<1>3. \A v, w \in Workers : Apart(v, w)'
  BY <1>0 DEF HoldInv, Apart
<1>4. \A j \in Jobs : Budgeted(docs'[j])
  BY <1>1 DEF HoldInv, Budgeted
<1> QED
  BY <1>2, <1>3, <1>4 DEF HoldInv, Budgeted

(* An executor starts with the compare-and-set of MarkClaimed and, held to    *)
(* its deadlines, is the only one to write until it leaves the job.           *)
LEMMA WorkersHold ==
  ASSUME HoldInv, TypeOK', NEW w \in Workers, WorkerStep(w) \/ ExecutorDies(w)
  PROVE  HoldInv'
<1> DEFINE j == JobOf(w)
<1>0. /\ TypeOK /\ StoreTypeOK /\ Held(w) /\ Recalls(w)
      /\ exec[w] \in Execution /\ exec \in [Workers -> Execution]
      /\ \A k \in Jobs : Budgeted(docs[k]) /\ docs[k] \in Document
  BY DEF HoldInv, TypeOK, StoreTypeOK
<1>j. ASSUME exec[w].pc # "poll"
      PROVE  j \in Jobs
  BY <1>j, <1>0, JobOfType
<1>d. TypeOK' /\ \A k \in Jobs : docs'[k] \in Document
  BY DEF TypeOK, StoreTypeOK
(* It leaves the collection alone and is not engaged afterwards. *)
<1>a. ASSUME UNCHANGED docs, exec'[w].pc \notin Engaged \cup {"claim"},
             \A v \in Workers \ {w} : exec'[v] = exec[v]
      PROVE  HoldInv'
  <2>1. ASSUME NEW v \in Workers \ {w}
        PROVE  JobOf(v)' = JobOf(v) /\ exec'[v] = exec[v]
    BY <1>a DEF JobOf
  <2>2. ASSUME NEW v \in Workers
        PROVE  Held(v)' /\ Recalls(v)'
    BY <1>a, <2>1 DEF HoldInv, Held, Recalls, Engaged, InCall
  <2>3. \A v, u \in Workers : Apart(v, u)'
    BY <1>a, <2>1 DEF HoldInv, Apart
  <2> QED
    BY <1>a, <1>d, <2>2, <2>3 DEF HoldInv, Budgeted
(* It writes its document and leaves the job. *)
<1>b. ASSUME exec[w].pc \in Engaged \/ docs[j].status = "queued", exec[w].pc # "poll",
             exec'[w].pc \notin Engaged \cup {"claim"},
             \A v \in Workers \ {w} : exec'[v] = exec[v],
             \A k \in Jobs \ {j} : docs'[k] = docs[k],
             docs'[j].attempts >= docs[j].attempts, Budgeted(docs'[j])
      PROVE  HoldInv'
  <2>1. Held(w)' /\ Recalls(w)'
    BY <1>b DEF Held, Recalls, Engaged, InCall
  <2> QED
    BY <1>b, <2>1, OwnJobStep
<1>1. ASSUME NEW r \in topic, Poll(w, r)
      PROVE  HoldInv'
  BY <1>0, <1>1, <1>a DEF Poll, store, Execution, Engaged, InCall
<1>2. CASE Fetch(w)
  <2>1. CASE exec' = [exec EXCEPT ![w] =
               [@ EXCEPT !.pc = "claim", !.seen = docs[j].attempts]]
    <3>1. /\ exec'[w].pc = "claim" /\ exec'[w].seen = docs[j].attempts
          /\ exec'[w].rec = exec[w].rec
          /\ \A v \in Workers \ {w} : exec'[v] = exec[v]
      BY <1>0, <2>1 DEF Execution
    <3>2. JobOf(w)' = j /\ docs' = docs
      BY <1>2, <3>1 DEF Fetch, store, JobOf
    <3>3. Held(w)' /\ Recalls(w)'
      BY <1>0, <1>2, <1>j, <3>1, <3>2 DEF Fetch, Held, Recalls, Engaged, InCall, Document
    <3>4. exec[w].pc # "poll" /\ exec'[w].pc \notin Engaged
      BY <1>2, <3>1 DEF Fetch, Engaged, InCall
    <3>5. docs'[j].attempts >= docs[j].attempts /\ Budgeted(docs'[j])
      BY <1>0, <1>j, <3>2, <3>4 DEF Document
    <3> QED
      BY <3>1, <3>2, <3>3, <3>4, <3>5, OwnJobStep
  <2>2. CASE Return(w)
    BY <1>0, <1>2, <1>a, <2>2, Moves DEF Fetch, store, Engaged, InCall
  <2> QED
    BY <1>2, <2>1, <2>2 DEF Fetch
<1>3. CASE ExecMarkClaimed(w)
  <2>0. exec[w].pc = "claim" /\ j \in Jobs
    BY <1>3, <1>j DEF ExecMarkClaimed
  <2>1. ASSUME MarkClaimed(j)
        PROVE  /\ docs[j].status = "queued" /\ docs'[j].status = "claimed" /\ docs'[j].idle = 0
               /\ \A k \in Jobs \ {j} : docs'[k] = docs[k]
               /\ docs'[j].attempts = docs[j].attempts /\ Budgeted(docs'[j])
    BY <1>0, <2>0, <2>1, StatusSet DEF MarkClaimed, Budgeted, Statuses
  <2>2. CASE MarkClaimed(j) /\ Goto(w, "mark")
    <3>1. /\ exec'[w].pc = "mark" /\ exec'[w].seen = exec[w].seen /\ JobOf(w)' = j
          /\ \A v \in Workers \ {w} : exec'[v] = exec[v]
      BY <1>0, <2>2, Moves DEF JobOf, Stages
    <3>2. Held(w)' /\ Recalls(w)'
      BY <1>0, <2>0, <2>1, <2>2, <3>1, TimeoutAssumption, StoreAssumption, PipelineAssumption
         DEF Held, Recalls, Engaged, InCall
    <3>3. docs'[j].attempts >= docs[j].attempts
      BY <1>0, <2>0, <2>1, <2>2 DEF Document
    <3> QED
      BY <2>0, <2>1, <2>2, <3>1, <3>2, <3>3, OwnJobStep
  <2>3. CASE Return(w) /\ UNCHANGED docs
    BY <1>0, <1>a, <2>3, Moves DEF Engaged, InCall
  <2>4. CASE Return(w) /\ MarkClaimed(j)
    <3>1. docs'[j].attempts >= docs[j].attempts
      BY <1>0, <2>0, <2>1, <2>4 DEF Document
    <3>2. exec'[w].pc = "commit" /\ \A v \in Workers \ {w} : exec'[v] = exec[v]
      BY <1>0, <2>4, Moves
    <3> QED
      BY <1>b, <2>0, <2>1, <2>4, <3>1, <3>2 DEF Engaged, InCall
  <2> QED
    BY <1>3, <2>2, <2>3, <2>4 DEF ExecMarkClaimed, store
<1>4. CASE ExecMarkRunning(w)
  <2>0. exec[w].pc = "mark" /\ j \in Jobs /\ docs[j].status = "claimed"
    BY <1>0, <1>4, <1>j DEF ExecMarkRunning, Held, Engaged, InCall
  <2>1. ASSUME MarkRunning(j)
        PROVE  /\ docs'[j].status = "running" /\ docs'[j].idle = 0
               /\ \A k \in Jobs \ {j} : docs'[k] = docs[k]
               /\ docs'[j].attempts = docs[j].attempts /\ docs'[j].attempts >= docs[j].attempts
               /\ Budgeted(docs'[j])
    BY <1>0, <2>0, <2>1, StatusSet DEF MarkRunning, Budgeted, Statuses, Document
  <2>2. CASE MarkRunning(j) /\ Goto(w, "handle")
    <3>1. /\ exec'[w].pc = "handle" /\ exec'[w].seen = exec[w].seen /\ JobOf(w)' = j
          /\ \A v \in Workers \ {w} : exec'[v] = exec[v]
      BY <1>0, <2>2, Moves DEF JobOf, Stages
    <3>2. Held(w)' /\ Recalls(w)'
      BY <1>0, <2>0, <2>1, <2>2, <3>1, TimeoutAssumption, StoreAssumption, PipelineAssumption
         DEF Held, Recalls, Engaged, InCall
    <3> QED
      BY <2>0, <2>1, <2>2, <3>1, <3>2, OwnJobStep DEF Engaged, InCall
  <2>3. CASE Return(w) /\ UNCHANGED docs
    BY <1>0, <1>a, <2>3, Moves DEF Engaged, InCall
  <2>4. CASE Return(w) /\ MarkRunning(j)
    <3>1. exec'[w].pc = "commit" /\ \A v \in Workers \ {w} : exec'[v] = exec[v]
      BY <1>0, <2>4, Moves
    <3> QED
      BY <1>b, <2>0, <2>1, <2>4, <3>1 DEF Engaged, InCall
  <2> QED
    BY <1>4, <2>2, <2>3, <2>4 DEF ExecMarkRunning, store
<1>5. CASE HandlerSucceeds(w) \/ HandlerFails(w)
  <2>1. PICK p \in {"complete", "failRead"} : Goto(w, p)
    BY <1>5 DEF HandlerSucceeds, HandlerFails
  <2>2. exec[w].pc = "handle" /\ j \in Jobs /\ docs' = docs
    BY <1>5, <1>j DEF HandlerSucceeds, HandlerFails, store
  <2>3. /\ exec'[w].pc = p /\ exec'[w].seen = exec[w].seen /\ JobOf(w)' = j
        /\ \A v \in Workers \ {w} : exec'[v] = exec[v]
    BY <1>0, <2>1, Moves DEF JobOf, Stages
  <2>4. Held(w)' /\ Recalls(w)'
    BY <1>0, <2>2, <2>3 DEF Held, Recalls, Engaged, InCall
  <2>5. docs'[j].attempts >= docs[j].attempts /\ Budgeted(docs'[j])
    BY <1>0, <2>2 DEF Document
  <2> QED
    BY <2>2, <2>3, <2>4, <2>5, OwnJobStep DEF Engaged, InCall
<1>6. CASE ExecMarkCompleted(w)
  <2>0. exec[w].pc = "complete" /\ j \in Jobs /\ docs[j].status = "running"
    BY <1>0, <1>6, <1>j DEF ExecMarkCompleted, Held, Engaged, InCall
  <2>1. exec'[w].pc = "commit" /\ \A v \in Workers \ {w} : exec'[v] = exec[v]
    BY <1>0, <1>6, Moves DEF ExecMarkCompleted
  <2>2. CASE MarkCompleted(j)
    <3>1. /\ \A k \in Jobs \ {j} : docs'[k] = docs[k]
          /\ docs'[j].attempts >= docs[j].attempts /\ Budgeted(docs'[j])
      BY <1>0, <2>0, <2>2, StatusSet DEF MarkCompleted, Budgeted, Statuses, Document
    <3> QED
      BY <1>b, <2>0, <2>1, <3>1 DEF Engaged, InCall
  <2>3. CASE UNCHANGED docs
    BY <1>a, <2>1, <2>3 DEF Engaged, InCall
  <2> QED
    BY <1>6, <2>2, <2>3 DEF ExecMarkCompleted, store
<1>7. CASE MarkFailedRead(w)
  <2>0. exec[w].pc = "failRead" /\ j \in Jobs /\ docs' = docs
    BY <1>7, <1>j DEF MarkFailedRead, store
  <2>1. CASE exec' = [exec EXCEPT ![w] =
               [@ EXCEPT !.pc = "failWrite", !.next = docs[j].attempts + 1]]
    <3>1. /\ exec'[w].pc = "failWrite" /\ exec'[w].next = docs[j].attempts + 1
          /\ exec'[w].seen = exec[w].seen /\ exec'[w].rec = exec[w].rec
          /\ \A v \in Workers \ {w} : exec'[v] = exec[v]
      BY <1>0, <2>1 DEF Execution
    <3>2. JobOf(w)' = j
      BY <3>1 DEF JobOf
    <3>3. Held(w)' /\ Recalls(w)'
      BY <1>0, <2>0, <3>1, <3>2 DEF Held, Recalls, Engaged, InCall
    <3>4. docs'[j].attempts >= docs[j].attempts /\ Budgeted(docs'[j])
      BY <1>0, <2>0 DEF Document
    <3> QED
      BY <2>0, <3>1, <3>2, <3>3, <3>4, OwnJobStep DEF Engaged, InCall
  <2>2. CASE Return(w)
    BY <1>0, <1>a, <2>0, <2>2, Moves DEF Engaged, InCall
  <2> QED
    BY <1>7, <2>1, <2>2 DEF MarkFailedRead
<1>8. CASE MarkFailedWrite(w)
  <2>0. exec[w].pc = "failWrite" /\ j \in Jobs /\ docs[j].status = "running"
        /\ exec[w].next = docs[j].attempts + 1
    BY <1>0, <1>8, <1>j DEF MarkFailedWrite, Held, Recalls, Engaged, InCall
  <2>1. exec'[w].pc \in {"deadLetter", "commit"} /\ \A v \in Workers \ {w} : exec'[v] = exec[v]
    <3>1. CASE Return(w)
      BY <1>0, <3>1, Moves
    <3>2. CASE exec' = [exec EXCEPT ![w] = [@ EXCEPT !.pc = "deadLetter", !.seen = 0, !.next = 0]]
      BY <1>0, <3>2 DEF Execution
    <3> QED
      BY <1>8, <3>1, <3>2 DEF MarkFailedWrite
  <2>2. CASE MarkFailed(j, exec[w].next, Backoff(exec[w].seen))
    <3>1. \A k \in Jobs \ {j} : docs'[k] = docs[k]
      BY <1>0, <2>2 DEF MarkFailed, StoreTypeOK
    <3>2. /\ docs'[j].attempts = docs[j].attempts + 1
          /\ docs'[j].maxAttempts = docs[j].maxAttempts
          /\ docs'[j].status = IF docs[j].attempts + 1 >= docs[j].maxAttempts THEN "dlq" ELSE "pending"
      BY <1>0, <2>0, <2>2 DEF MarkFailed, Updated, StoreTypeOK, Document
    <3>3. docs'[j].attempts >= docs[j].attempts /\ Budgeted(docs'[j])
      BY <1>0, <2>0, <3>2 DEF Budgeted, Document
    <3> QED
      BY <1>b, <2>0, <2>1, <3>1, <3>3 DEF Engaged, InCall
  <2>3. CASE UNCHANGED docs
    BY <1>a, <2>1, <2>3 DEF Engaged, InCall
  <2> QED
    BY <1>8, <2>2, <2>3 DEF MarkFailedWrite, store
<1>9. CASE PublishDLQ(w)
  BY <1>0, <1>9, <1>a, Moves DEF PublishDLQ, store, Engaged, InCall
<1>10. CASE Commit(w) \/ ExecutorDies(w)
  BY <1>0, <1>10, <1>a DEF Commit, ExecutorDies, Waiting, store, Engaged, InCall
<1> QED
  BY <1>1, <1>2, <1>3, <1>4, <1>5, <1>6, <1>7, <1>8, <1>9, <1>10 DEF WorkerStep

(* Every step of the punctual pipeline keeps executors apart. *)
LEMMA HoldStep == HoldInv /\ [PunctualNext]_vars => HoldInv'
<1> SUFFICES ASSUME HoldInv, [PunctualNext]_vars
             PROVE  HoldInv'
  OBVIOUS
<1>1. TypeOK'
  BY PunctualTypes DEF HoldInv
<1>2. CASE UNCHANGED vars
  BY <1>1, <1>2 DEF vars, HoldInv, Held, Recalls, Apart, JobOf, Budgeted
<1> QED
  BY <1>1, <1>2, OthersHold, TickHolds, WorkersHold DEF PunctualNext, Step

(* The invariant, of the punctual pipeline. *)
LEMMA HoldCorrect == PunctualSpec => []HoldInv
BY HoldInit, HoldStep, PTL DEF PunctualSpec

(* However many records of a job are about, the executor between its claim    *)
(* and its last write (runner.go:45-76, 84) has the job to itself, as long as *)
(* the deadlines hold.                                                        *)
THEOREM ExecutionExclusive == PunctualSpec => []ExclusiveExecution
<1>1. HoldInv => ExclusiveExecution
  BY DEF HoldInv, ExclusiveExecution, Held, Apart, WorkersAt
<1> QED
  BY <1>1, HoldCorrect, PTL

-----------------------------------------------------------------------------
(* What the owner of a job can tell of its document. *)
Same(d, e) == e.status = d.status /\ e.attempts = d.attempts /\ e.maxAttempts = d.maxAttempts

Submitted(d, e) ==
  /\ d.status = "absent" /\ e.status \in {"pending", "queued"}
  /\ e.attempts = d.attempts /\ e.maxAttempts \in Nat \ {0}

Moved(d, e) ==
  /\ \/ d.status = "pending" /\ e.status = "queued"
     \/ d.status = "queued" /\ e.status \in {"pending", "claimed"}
     \/ d.status = "claimed" /\ e.status \in {"pending", "running"}
     \/ d.status = "running" /\ e.status \in {"pending", "completed"}
  /\ e.attempts = d.attempts /\ e.maxAttempts = d.maxAttempts

Failed(d, e) ==
  /\ d.status = "running"
  /\ e.status = IF d.attempts + 1 = d.maxAttempts THEN "dlq" ELSE "pending"
  /\ e.attempts = d.attempts + 1 /\ e.maxAttempts = d.maxAttempts

Progress(d, e) == Submitted(d, e) \/ Moved(d, e) \/ Failed(d, e)

(* What the history notes of a move: the claim, the sweep, the retry. *)
Noted(j) ==
  LET swept == docs'[j].status = "pending" /\ docs[j].status \in Sweepable
               /\ docs'[j].attempts = docs[j].attempts
      retried == docs'[j].status = "pending" /\ docs'[j].attempts # docs[j].attempts
  IN
  /\ ledger'[j].claims = ledger[j].claims + Bit(docs'[j].status = "queued")
  /\ ledger'[j].sweeps = ledger[j].sweeps + Bit(swept)
  /\ swept => Reap(j)
  /\ ledger'[j].retries = ledger[j].retries + Bit(retried)
  /\ docs'[j].status = "queued" => docs'[j].idle = 0

(* One document moves, and the others stay as they are. *)
OneMoves(j) ==
  /\ Progress(docs[j], docs'[j]) /\ Noted(j)
  /\ \A k \in Jobs \ {j} : docs'[k] = docs[k] /\ ledger'[k] = ledger[k]

NoneMoves == ledger' = ledger /\ \A j \in Jobs : Same(docs[j], docs'[j])

(* Time changes no status and no count. *)
LEMMA TickMoves ==
  ASSUME HoldInv, Tick
  PROVE  NoneMoves
<1>1. \A j \in Jobs : docs[j] \in Document
  BY DEF HoldInv, TypeOK, StoreTypeOK
<1> QED
  BY <1>1 DEF Tick, Elapse, NoneMoves, Same, Document

(* The updates of the API, the schedulers and the reaper. *)
LEMMA OthersMove ==
  ASSUME HoldInv,
         \/ \E j \in Jobs : CreateJob(j) \/ Reap(j)
         \/ \E s \in Schedulers : SchedulerStep(s) \/ SchedulerDies(s)
         \/ \E s \in Schedulers, j \in Jobs : SpawnInstance(s, j)
  PROVE  \/ UNCHANGED store
         \/ \E j \in Jobs : OneMoves(j) /\ docs'[j].status \in {"pending", "queued"}
<1>0. StoreTypeOK /\ \A j \in Jobs : Budgeted(docs[j]) /\ docs[j] \in Document /\ ledger[j] \in Entry
  BY DEF HoldInv, TypeOK, StoreTypeOK
<1>n. /\ ledger \in [Jobs -> Entry]
      /\ \A j \in Jobs : ledger[j].claims \in Nat /\ ledger[j].sweeps \in Nat /\ ledger[j].retries \in Nat
  BY <1>0, StoreAssumption DEF StoreTypeOK, Entry
<1>1. ASSUME NEW j \in Jobs, NEW status \in {"pending", "queued"}, NEW requested \in RequestedAttempts,
             NEW delay \in Nat, Insert(j, status, requested, delay)
      PROVE  Submitted(docs[j], docs'[j]) /\ docs'[j].status = status /\ docs'[j].idle = 0
             /\ \A k \in Jobs \ {j} : docs'[k] = docs[k]
  <2>1. Budget(requested) \in Nat \ {0}
    BY StoreAssumption DEF Budget, DefaultMaxAttempts
  <2> QED
    BY <1>0, <1>1, <2>1 DEF Insert, StoreTypeOK, Budgeted, Submitted
<1>2. ASSUME NEW j \in Jobs, ClaimDueJob(j)
      PROVE  OneMoves(j) /\ docs'[j].status \in {"pending", "queued"}
  <2>1. Moved(docs[j], docs'[j]) /\ docs'[j].status = "queued" /\ docs'[j].idle = 0
        /\ \A k \in Jobs \ {j} : docs'[k] = docs[k]
    BY <1>0, <1>2, StatusSet DEF ClaimDueJob, First, Due, Moved, Statuses
  <2> QED
    BY <1>n, <1>2, <2>1 DEF ClaimDueJob, OneMoves, Progress, Noted, Bit
<1>3. ASSUME NEW j \in Jobs, Reap(j)
      PROVE  OneMoves(j) /\ docs'[j].status \in {"pending", "queued"}
  <2>1. Moved(docs[j], docs'[j]) /\ docs'[j].status = "pending" /\ docs[j].status \in Sweepable
        /\ docs'[j].attempts = docs[j].attempts
        /\ \A k \in Jobs \ {j} : docs'[k] = docs[k]
    BY <1>0, <1>3, StatusSet DEF Reap, SweepStuckJobs, SweepStuckQueuedJobs, Sweep, Moved,
                                 Statuses, Sweepable
  <2>2. ledger' = [ledger EXCEPT ![j].sweeps = @ + 1]
    BY <1>3 DEF Reap, SweepStuckJobs, SweepStuckQueuedJobs, Sweep
  <2> QED
    BY <1>n, <1>3, <2>1, <2>2 DEF OneMoves, Progress, Noted, Bit
<1>5. ASSUME NEW j \in Jobs, CreateJob(j)
      PROVE  OneMoves(j) /\ docs'[j].status \in {"pending", "queued"}
  <2>1. Submitted(docs[j], docs'[j]) /\ docs'[j].status = "pending" /\ ledger' = ledger
        /\ \A k \in Jobs \ {j} : docs'[k] = docs[k]
    <3>1. PICK requested \in RequestedAttempts, delay \in FirstDelays : Create(j, requested, delay)
      BY <1>5 DEF CreateJob
    <3>2. Insert(j, "pending", requested, delay) /\ delay \in Nat
      BY <3>1, StoreAssumption DEF Create
    <3> QED
      BY <1>1, <3>1, <3>2 DEF Create
  <2>2. docs[j].status = "absent" /\ docs'[j].attempts = docs[j].attempts
    BY <2>1 DEF Submitted
  <2> QED
    BY <1>n, <2>1, <2>2 DEF OneMoves, Progress, Noted, Bit, Sweepable
<1>6. ASSUME NEW s \in Schedulers, SchedulerStep(s) \/ SchedulerDies(s)
      PROVE  \/ UNCHANGED store
             \/ \E j \in Jobs : OneMoves(j) /\ docs'[j].status \in {"pending", "queued"}
  BY <1>2, <1>6 DEF SchedulerStep, SchedulerDies, ClaimNext, DispatchBatch, ClaimFails, Publish
<1>7. ASSUME NEW s \in Schedulers, NEW j \in Jobs, SpawnInstance(s, j)
      PROVE  OneMoves(j) /\ docs'[j].status \in {"pending", "queued"}
  <2>1. PICK requested \in RequestedAttempts : SpawnCronInstance(j, requested)
    BY <1>7 DEF SpawnInstance
  <2>2. Submitted(docs[j], docs'[j]) /\ docs'[j].status = "queued" /\ docs'[j].idle = 0
        /\ \A k \in Jobs \ {j} : docs'[k] = docs[k]
    BY <1>1, <2>1 DEF SpawnCronInstance
  <2> QED
    BY <1>n, <2>1, <2>2 DEF SpawnCronInstance, OneMoves, Progress, Noted, Bit
<1> QED
  BY <1>3, <1>5, <1>6, <1>7

(* The updates of an executor, at the job it holds. *)
LEMMA WorkersMove ==
  ASSUME HoldInv, NEW w \in Workers, WorkerStep(w) \/ ExecutorDies(w)
  PROVE  UNCHANGED store \/ (JobOf(w) \in Jobs /\ OneMoves(JobOf(w)))
<1> DEFINE j == JobOf(w)
<1>n. /\ ledger \in [Jobs -> Entry]
      /\ \A k \in Jobs : ledger[k].claims \in Nat /\ ledger[k].sweeps \in Nat /\ ledger[k].retries \in Nat
  BY StoreAssumption DEF HoldInv, TypeOK, StoreTypeOK, Entry
<1>s. ASSUME NEW s \in Statuses \ {"pending", "queued"}, SetStatus(j, s), j \in Jobs,
             Moved(docs[j], [docs[j] EXCEPT !.status = s]),
             ledger' = ledger \/ ledger' = [ledger EXCEPT ![j].starts = @ + 1]
      PROVE  OneMoves(j)
  <2>0. StoreTypeOK /\ docs[j] \in Document
    BY <1>s DEF HoldInv, TypeOK, StoreTypeOK
  <2>1. /\ \A k \in Jobs \ {j} : docs'[k] = docs[k]
        /\ docs'[j].status = s
        /\ docs'[j].attempts = docs[j].attempts /\ docs'[j].maxAttempts = docs[j].maxAttempts
    BY <1>s, <2>0, StatusSet
  <2>2. Moved(docs[j], docs'[j])
    BY <1>s, <2>0, <2>1 DEF Moved, Document
  <2>3. /\ ledger'[j].claims = ledger[j].claims /\ ledger'[j].sweeps = ledger[j].sweeps
        /\ ledger'[j].retries = ledger[j].retries
        /\ \A k \in Jobs \ {j} : ledger'[k] = ledger[k]
    BY <1>s, <1>n DEF Entry
  <2> QED
    BY <1>s, <1>n, <2>1, <2>2, <2>3 DEF OneMoves, Progress, Noted, Bit
<1>0. /\ TypeOK /\ StoreTypeOK /\ Held(w) /\ Recalls(w)
      /\ \A k \in Jobs : Budgeted(docs[k]) /\ docs[k] \in Document
  BY DEF HoldInv, TypeOK, StoreTypeOK
<1>1. CASE \/ \E r \in topic : Poll(w, r)
           \/ Fetch(w) \/ HandlerSucceeds(w) \/ HandlerFails(w) \/ MarkFailedRead(w)
           \/ PublishDLQ(w) \/ Commit(w) \/ ExecutorDies(w)
  BY <1>1 DEF Poll, Fetch, HandlerSucceeds, HandlerFails, MarkFailedRead, PublishDLQ,
              Commit, ExecutorDies, store
<1>2. CASE ExecMarkClaimed(w)
  <2>1. j \in Jobs
    BY <1>0, <1>2, JobOfType DEF ExecMarkClaimed
  <2>2. ASSUME MarkClaimed(j)
        PROVE  OneMoves(j)
    BY <1>0, <1>s, <2>1, <2>2 DEF MarkClaimed, Moved, Statuses, Document
  <2> QED
    BY <1>2, <2>1, <2>2 DEF ExecMarkClaimed, store
<1>3. CASE ExecMarkRunning(w)
  <2>1. j \in Jobs /\ docs[j].status = "claimed"
    BY <1>0, <1>3, JobOfType DEF ExecMarkRunning, Held, Engaged, InCall
  <2>2. ASSUME MarkRunning(j)
        PROVE  OneMoves(j)
    BY <1>0, <1>s, <2>1, <2>2 DEF MarkRunning, Moved, Statuses, Document
  <2> QED
    BY <1>3, <2>1, <2>2 DEF ExecMarkRunning, store
<1>4. CASE ExecMarkCompleted(w)
  <2>1. j \in Jobs /\ docs[j].status = "running"
    BY <1>0, <1>4, JobOfType DEF ExecMarkCompleted, Held, Engaged, InCall
  <2>2. ASSUME MarkCompleted(j)
        PROVE  OneMoves(j)
    BY <1>0, <1>s, <2>1, <2>2 DEF MarkCompleted, Moved, Statuses, Document
  <2> QED
    BY <1>4, <2>1, <2>2 DEF ExecMarkCompleted, store
<1>5. CASE MarkFailedWrite(w)
  <2>1. j \in Jobs /\ docs[j].status = "running" /\ exec[w].next = docs[j].attempts + 1
    BY <1>0, <1>5, JobOfType DEF MarkFailedWrite, Held, Recalls, Engaged, InCall
  <2>2. ASSUME MarkFailed(j, exec[w].next, Backoff(exec[w].seen))
        PROVE  OneMoves(j)
    <3>1. \A k \in Jobs \ {j} : docs'[k] = docs[k]
      BY <1>0, <2>2 DEF MarkFailed, StoreTypeOK
    <3>2. /\ docs'[j].attempts = docs[j].attempts + 1
          /\ docs'[j].maxAttempts = docs[j].maxAttempts
          /\ docs'[j].status = IF docs[j].attempts + 1 >= docs[j].maxAttempts THEN "dlq" ELSE "pending"
      BY <1>0, <2>1, <2>2 DEF MarkFailed, Updated, StoreTypeOK, Document
    <3>3. (docs[j].attempts + 1 >= docs[j].maxAttempts) <=> (docs[j].attempts + 1 = docs[j].maxAttempts)
      BY <1>0, <2>1 DEF Budgeted, Document
    <3>4. Failed(docs[j], docs'[j])
      BY <2>1, <3>2, <3>3 DEF Failed
    <3>5. /\ ledger'[j].claims = ledger[j].claims /\ ledger'[j].sweeps = ledger[j].sweeps
          /\ ledger'[j].retries = ledger[j].retries + Bit(docs'[j].status = "pending")
          /\ \A k \in Jobs \ {j} : ledger'[k] = ledger[k]
      <4>1. CASE docs[j].attempts + 1 >= docs[j].maxAttempts
        <5>1. ledger' = [ledger EXCEPT ![j].dead = TRUE] /\ docs'[j].status = "dlq"
          BY <2>1, <2>2, <3>2, <4>1 DEF MarkFailed
        <5> QED
          BY <1>n, <2>1, <5>1 DEF Entry, Bit
      <4>2. CASE ~(docs[j].attempts + 1 >= docs[j].maxAttempts)
        <5>1. ledger' = [ledger EXCEPT ![j].retries = @ + 1] /\ docs'[j].status = "pending"
          BY <2>1, <2>2, <3>2, <4>2 DEF MarkFailed
        <5> QED
          BY <1>n, <2>1, <5>1 DEF Entry, Bit
      <4> QED
        BY <4>1, <4>2
    <3>6. docs'[j].attempts # docs[j].attempts /\ docs'[j].status # "queued"
      BY <1>0, <2>1, <3>2 DEF Document
    <3> QED
      BY <1>n, <2>1, <3>1, <3>4, <3>5, <3>6 DEF OneMoves, Progress, Noted, Bit
  <2> QED
    BY <1>5, <2>1, <2>2 DEF MarkFailedWrite, store
<1> QED
  BY <1>1, <1>2, <1>3, <1>4, <1>5 DEF WorkerStep

(* Every step moves at most one job, by one of the moves its owner expects. *)
LEMMA StepMoves ==
  ASSUME HoldInv, Step
  PROVE  UNCHANGED store \/ \E j \in Jobs : OneMoves(j)
<1>1. ASSUME NEW w \in Workers, WorkerStep(w) \/ ExecutorDies(w)
      PROVE  UNCHANGED store \/ \E j \in Jobs : OneMoves(j)
  BY <1>1, WorkersMove
<1> QED
  BY <1>1, OthersMove DEF Step

(* The same with the passing of time. *)
LEMMA JobsMove ==
  ASSUME HoldInv, [PunctualNext]_vars
  PROVE  NoneMoves \/ \E j \in Jobs : OneMoves(j)
<1>1. CASE UNCHANGED store
  BY <1>1 DEF store, NoneMoves, Same
<1>2. CASE UNCHANGED vars
  BY <1>1, <1>2 DEF vars, store
<1> QED
  BY <1>1, <1>2, StepMoves, TickMoves DEF PunctualNext

(* "completed" and "dlq" stay: the updates that match by _id alone            *)
(* (jobs_repo.go:137-181) only ever meet a job whose executor holds it.       *)
THEOREM VerdictsFinal == PunctualSpec => Final
<1>1. HoldInv /\ [PunctualNext]_vars =>
        [\A j \in Jobs : docs[j].status \in Terminal => docs'[j].status = docs[j].status]_vars
  <2> SUFFICES ASSUME HoldInv, [PunctualNext]_vars, NEW k \in Jobs, docs[k].status \in Terminal
               PROVE  docs'[k].status = docs[k].status
    OBVIOUS
  <2>1. ASSUME NEW j \in Jobs, OneMoves(j)
        PROVE  docs'[k].status = docs[k].status
    BY <2>1 DEF OneMoves, Progress, Submitted, Moved, Failed, Terminal
  <2> QED
    BY <2>1, JobsMove DEF NoneMoves, Same
<1> QED
  BY <1>1, HoldCorrect, PTL DEF PunctualSpec, Final

(* The functions the contract speaks of, after a step that moves job j. *)
LEMMA MappedStep ==
  ASSUME NEW j \in Jobs, \A k \in Jobs \ {j} : docs'[k] = docs[k]
  PROVE  /\ Phase' = [Phase EXCEPT ![j] = PhaseOf(docs'[j].status)]
         /\ [k \in Jobs |-> docs[k].attempts]'
              = [[k \in Jobs |-> docs[k].attempts] EXCEPT ![j] = docs'[j].attempts]
         /\ [k \in Jobs |-> docs[k].maxAttempts]'
              = [[k \in Jobs |-> docs[k].maxAttempts] EXCEPT ![j] = docs'[j].maxAttempts]
BY DEF Phase

(* Whatever the machinery of schedulers, topic, executors and reaper does to  *)
(* a job, its owner sees one of the moves JobContract lists.                  *)
THEOREM ContractImplemented == PunctualSpec => ContractSpec
<1>1. Init => Contract!Init
  BY DEF Init, StoreInit, Contract!Init, Phase, PhaseOf
<1>2. HoldInv /\ [PunctualNext]_vars => [Contract!Next]_Contract!cvars
  <2> SUFFICES ASSUME HoldInv, [PunctualNext]_vars
               PROVE  [Contract!Next]_Contract!cvars
    OBVIOUS
  <2> DEFINE F == [k \in Jobs |-> docs[k].attempts]
             B == [k \in Jobs |-> docs[k].maxAttempts]
  <2>1. CASE NoneMoves
    <3>1. Phase' = Phase /\ F' = F /\ B' = B
      BY <2>1 DEF NoneMoves, Same, Phase
    <3> QED
      BY <3>1 DEF Contract!cvars
  <2>2. ASSUME NEW j \in Jobs, OneMoves(j)
        PROVE  [Contract!Next]_Contract!cvars
    <3> DEFINE from == docs[j].status
               to == docs'[j].status
    <3>1. /\ Phase' = [Phase EXCEPT ![j] = PhaseOf(to)] /\ Phase[j] = PhaseOf(from)
          /\ F' = [F EXCEPT ![j] = docs'[j].attempts] /\ F[j] = docs[j].attempts
          /\ B' = [B EXCEPT ![j] = docs'[j].maxAttempts] /\ B[j] = docs[j].maxAttempts
          /\ B'[j] = docs'[j].maxAttempts
      BY <2>2, MappedStep DEF OneMoves, Phase
    <3>2. /\ docs'[j].attempts = docs[j].attempts => F' = F
          /\ docs'[j].maxAttempts = docs[j].maxAttempts => B' = B
          /\ PhaseOf(to) = PhaseOf(from) => Phase' = Phase
      BY <3>1 DEF Phase
    <3> HIDE DEF F, B
    <3>3. CASE Submitted(docs[j], docs'[j])
      <4>1. PhaseOf(from) = "absent" /\ PhaseOf(to) = "waiting"
        BY <3>3 DEF Submitted, PhaseOf
      <4>2. Contract!Submit(j)
        BY <3>1, <3>2, <3>3, <4>1 DEF Submitted, Contract!Submit, Contract!Move, F, B
      <4> QED
        BY <4>2 DEF Contract!Next
    <3>4. CASE Moved(docs[j], docs'[j])
      <4>0. F' = F /\ B' = B
        BY <3>2, <3>4 DEF Moved
      <4>1. \/ PhaseOf(to) = PhaseOf(from)
            \/ PhaseOf(from) = "waiting" /\ PhaseOf(to) = "active"
            \/ PhaseOf(from) = "active" /\ PhaseOf(to) \in {"waiting", "done"}
        BY <3>4 DEF Moved, PhaseOf
      <4>2. \/ UNCHANGED Phase
            \/ Contract!Start(j) \/ Contract!Abandon(j) \/ Contract!Succeed(j)
        BY <3>1, <3>2, <4>0, <4>1
           DEF Contract!Start, Contract!Abandon, Contract!Succeed, Contract!Move, F, B
      <4> QED
        BY <4>0, <4>2 DEF Contract!Next, Contract!cvars, F, B
    <3>5. CASE Failed(docs[j], docs'[j])
      <4>1. /\ PhaseOf(from) = "active"
            /\ PhaseOf(to) = IF docs[j].attempts + 1 = docs[j].maxAttempts THEN "dead" ELSE "waiting"
        BY <3>5 DEF Failed, PhaseOf
      <4>2. Contract!Fail(j)
        BY <3>1, <3>2, <3>5, <4>1 DEF Failed, Contract!Fail, Contract!Move, F, B
      <4> QED
        BY <4>2 DEF Contract!Next
    <3> QED
      BY <2>2, <3>3, <3>4, <3>5 DEF OneMoves, Progress
  <2> QED
    BY <2>1, <2>2, JobsMove
<1> QED
  BY <1>1, <1>2, HoldCorrect, PTL DEF PunctualSpec, ContractSpec, Contract!Spec

-----------------------------------------------------------------------------
(* A verdict is there to stay, whatever the step. *)
LEMMA VerdictKept ==
  ASSUME HoldInv, [PunctualNext]_vars, NEW k \in Jobs, docs[k].status \in Terminal
  PROVE  Same(docs[k], docs'[k])
<1>1. ASSUME NEW j \in Jobs, OneMoves(j)
      PROVE  docs'[k] = docs[k]
  BY <1>1 DEF OneMoves, Progress, Submitted, Moved, Failed, Terminal
<1> QED
  BY <1>1, JobsMove DEF NoneMoves, Same

(* What no step but an executor's touches. *)
LEMMA OthersFrame ==
  ASSUME HoldInv, [PunctualNext]_vars,
         ~ \E w \in Workers : WorkerStep(w) \/ ExecutorDies(w)
  PROVE  /\ exec' = exec /\ handled' = handled /\ dlqTopic' = dlqTopic /\ committed' = committed
         /\ \A j \in Jobs : docs'[j].attempts = docs[j].attempts
<1>1. exec' = exec /\ handled' = handled /\ dlqTopic' = dlqTopic /\ committed' = committed
  BY DEF PunctualNext, Step, Tick, CreateJob, Reap, SchedulerStep, SchedulerDies, ClaimNext,
         DispatchBatch, ClaimFails, Publish, SpawnInstance, kafka, vars
<1>2. ASSUME NEW j \in Jobs
      PROVE  docs'[j].attempts = docs[j].attempts
  <2>0. docs[j] \in Document /\ StoreTypeOK /\ \A k \in Jobs : Budgeted(docs[k])
    BY DEF HoldInv, TypeOK, StoreTypeOK
  <2>1. ASSUME NEW k \in Jobs, NEW s \in Statuses, SetStatus(k, s)
        PROVE  docs'[j].attempts = docs[j].attempts
    BY <2>0, <2>1, StatusSet
  <2>2. ASSUME NEW k \in Jobs, NEW s, NEW requested, NEW delay, Insert(k, s, requested, delay)
        PROVE  docs'[j].attempts = docs[j].attempts
    BY <2>0, <2>2 DEF Insert, Budgeted, StoreTypeOK
  <2>3. ASSUME NEW k \in Jobs, CreateJob(k) \/ Reap(k)
        PROVE  docs'[j].attempts = docs[j].attempts
    BY <2>1, <2>2, <2>3
       DEF CreateJob, Create, Reap, SweepStuckJobs, SweepStuckQueuedJobs, Sweep, Statuses
  <2>4. ASSUME NEW s \in Schedulers, SchedulerStep(s) \/ SchedulerDies(s)
        PROVE  docs'[j].attempts = docs[j].attempts
    BY <2>1, <2>4 DEF SchedulerStep, SchedulerDies, ClaimNext, DispatchBatch, ClaimFails, Publish,
                      ClaimDueJob, First, Due, store, Statuses
  <2>5. ASSUME NEW s \in Schedulers, NEW k \in Jobs, SpawnInstance(s, k)
        PROVE  docs'[j].attempts = docs[j].attempts
    BY <2>2, <2>5 DEF SpawnInstance, SpawnCronInstance
  <2>6. CASE Tick
    BY <2>0, <2>6 DEF Tick, Elapse, Document
  <2> QED
    BY <2>3, <2>4, <2>5, <2>6 DEF PunctualNext, Step, vars
<1> QED
  BY <1>1, <1>2

(* Runner.fail decides from the document fetched before the claim             *)
(* (runner.go:79-95): its count is at most the one MarkFailed reads, so it    *)
(* publishes only what MarkFailed has made "dlq".                             *)
THEOREM DeadLettersSound == PunctualSpec => []DeadLetterTopicSound
<1> DEFINE Sound(j) == j \in dlqTopic \/ (\E w \in Workers : exec[w].pc = "deadLetter" /\ JobOf(w) = j)
                         => docs[j].status = "dlq"
           Inv == \A j \in Jobs : Sound(j)
<1>1. Init => Inv
  BY DEF Init, Waiting
<1>2. HoldInv /\ Inv /\ [PunctualNext]_vars => Inv'
  <2> SUFFICES ASSUME HoldInv, Inv, [PunctualNext]_vars, NEW j \in Jobs
               PROVE  Sound(j)'
    OBVIOUS
  <2>0. Sound(j) /\ (docs[j].status = "dlq" => docs'[j].status = "dlq")
    BY VerdictKept DEF Same, Terminal
  <2>1. ASSUME NEW w \in Workers, WorkerStep(w) \/ ExecutorDies(w)
        PROVE  Sound(j)'
    <3>0. exec[w] \in Execution /\ exec \in [Workers -> Execution] /\ StoreTypeOK
      BY DEF HoldInv, TypeOK
    <3>1. ASSUME NEW v \in Workers \ {w}
          PROVE  exec'[v] = exec[v] /\ JobOf(v)' = JobOf(v)
      BY <2>1, <3>1, WorkersFrame DEF HoldInv, JobOf
    <3>2. ASSUME dlqTopic' # dlqTopic, j \in dlqTopic'
          PROVE  Sound(j)'
      <4>1. PublishDLQ(w) /\ (j \in dlqTopic \/ j = JobOf(w))
        BY <2>1, <3>2 DEF WorkerStep, ExecutorDies, Poll, Fetch, ExecMarkClaimed,
             ExecMarkRunning, HandlerSucceeds, HandlerFails, ExecMarkCompleted, MarkFailedRead,
             MarkFailedWrite, PublishDLQ, Commit, kafka
      <4>2. exec[w].pc = "deadLetter"
        BY <4>1 DEF PublishDLQ
      <4> QED
        BY <2>0, <4>1, <4>2
    <3>3. ASSUME exec'[w].pc = "deadLetter", JobOf(w)' = j
          PROVE  docs'[j].status = "dlq"
      <4>1. MarkFailedWrite(w) /\ JobOf(w) = j
        <5>1. MarkFailedWrite(w)
          BY <2>1, <3>3, Turns DEF HoldInv
        <5> QED
          BY <2>1, <3>3, <5>1, WorkersFrame DEF HoldInv
      <4>2. exec[w].pc = "failWrite" /\ exec'[w].pc # "commit"
        BY <3>3, <4>1 DEF MarkFailedWrite
      <4>3. MarkFailed(j, exec[w].next, Backoff(exec[w].seen)) /\ Exhausted(w)
        BY <3>0, <4>1, <4>2 DEF MarkFailedWrite, Return, Execution
      <4>4. exec[w].next >= docs[j].maxAttempts
        <5>1. /\ exec[w].seen <= docs[j].attempts /\ exec[w].next = docs[j].attempts + 1
          BY <4>1, <4>2 DEF HoldInv, Recalls, Engaged, InCall
        <5>2. exec[w].seen \in Nat /\ docs[j].attempts \in Nat /\ docs[j].maxAttempts \in Nat
          BY <3>0 DEF Execution, StoreTypeOK, Document
        <5> QED
          BY <4>1, <4>3, <5>1, <5>2 DEF Exhausted
      <4> QED
        BY <3>0, <4>3, <4>4 DEF MarkFailed, Updated, StoreTypeOK, Document
    <3> QED
      BY <2>0, <3>1, <3>2, <3>3
  <2>2. ASSUME ~ \E w \in Workers : WorkerStep(w) \/ ExecutorDies(w)
        PROVE  Sound(j)'
    BY <2>0, <2>2, OthersFrame DEF JobOf
  <2> QED
    BY <2>1, <2>2
<1>3. Inv => DeadLetterTopicSound
  BY DEF DeadLetterTopicSound, WorkersAt
<1> QED
  BY <1>1, <1>2, <1>3, HoldCorrect, PTL DEF PunctualSpec

-----------------------------------------------------------------------------
(* Some executor is at one of the stages with job j. *)
At(stages, j) == \E w \in Workers : exec[w].pc \in stages /\ JobOf(w) = j
Failing == {"failRead", "failWrite"}

(* What the handlers of a job did, against its document. *)
FailuresKept(j) == handled[j].failed <= docs[j].attempts + faults + Bit(At(Failing, j))
SuccessKept(j) == handled[j].ok <= faults + Bit(docs[j].status = "completed" \/ At({"complete"}, j))
RunInv == \A j \in Jobs : FailuresKept(j) /\ SuccessKept(j)

(* The executors at a stage, after a step that does not bring one there or    *)
(* take one away.                                                             *)
LEMMA AtKept ==
  ASSUME HoldInv, NEW w \in Workers, WorkerStep(w) \/ ExecutorDies(w),
         NEW j \in Jobs, NEW stages \in SUBSET Engaged,
         (exec[w].pc \in stages /\ JobOf(w) = j) <=> (exec'[w].pc \in stages /\ JobOf(w)' = j)
  PROVE  At(stages, j)' <=> At(stages, j)
<1>1. \A v \in Workers \ {w} : exec'[v] = exec[v] /\ JobOf(v)' = JobOf(v)
  BY WorkersFrame DEF HoldInv, JobOf
<1> QED
  BY <1>1 DEF At

(* A step that counts nothing and changes no count, or pays with a fault. *)
LEMMA RunKept ==
  ASSUME HoldInv, TypeOK', NEW j \in Jobs, FailuresKept(j), SuccessKept(j),
         handled'[j] = handled[j], docs'[j].attempts = docs[j].attempts,
         docs[j].status = "completed" => docs'[j].status = "completed",
         \/ /\ faults' \in {faults, faults + 1}
            /\ At(Failing, j) => At(Failing, j)'
            /\ At({"complete"}, j) => At({"complete"}, j)' \/ docs'[j].status = "completed"
         \/ faults' = faults + 1
  PROVE  FailuresKept(j)' /\ SuccessKept(j)'
<1>1. /\ faults \in Nat /\ handled[j].ok \in Nat /\ handled[j].failed \in Nat
      /\ docs[j].attempts \in Nat
  BY DEF HoldInv, TypeOK, StoreTypeOK, Document
<1> QED
  BY <1>1 DEF FailuresKept, SuccessKept, Bit

(* What an executor's handler did shows in the document, or a fault hid it. *)
LEMMA RunStepWorker ==
  ASSUME HoldInv, HoldInv', RunInv, [PunctualNext]_vars,
         NEW w \in Workers, WorkerStep(w) \/ ExecutorDies(w)
  PROVE  RunInv'
<1> SUFFICES ASSUME NEW j \in Jobs
             PROVE  FailuresKept(j)' /\ SuccessKept(j)'
  BY DEF RunInv
<1>0. /\ FailuresKept(j) /\ SuccessKept(j) /\ TypeOK /\ TypeOK' /\ StoreTypeOK
      /\ faults \in Nat /\ handled[j] \in [ok: Nat, failed: Nat] /\ docs[j] \in Document
      /\ handled \in [Jobs -> [ok: Nat, failed: Nat]]
      /\ Held(w) /\ Recalls(w)
  BY DEF RunInv, HoldInv, TypeOK, StoreTypeOK
<1>v. docs[j].status = "completed" => docs'[j].status = "completed"
  BY VerdictKept DEF Same, Terminal
<1>f. /\ \A k \in Jobs \ {JobOf(w)} : docs'[k] = docs[k] /\ handled'[k] = handled[k]
      /\ exec'[w].pc \notin {"poll", "fetch"} => JobOf(w)' = JobOf(w)
      /\ faults' \in {faults, faults + 1}
      /\ \A v \in Workers \ {w} : exec'[v] = exec[v]
  BY <1>0, WorkersFrame
<1>k. ASSUME NEW stages \in SUBSET Engaged, j # JobOf(w) \/ (exec[w].pc \in stages <=> exec'[w].pc \in stages)
      PROVE  At(stages, j)' <=> At(stages, j)
  <2>1. exec'[w].pc \in stages => JobOf(w)' = JobOf(w)
    BY <1>f DEF Engaged, InCall
  <2>2. CASE j # JobOf(w)
    BY <2>1, <2>2, AtKept
  <2>3. CASE exec[w].pc \in stages <=> exec'[w].pc \in stages
    <3>1. exec[w].pc \in stages => JobOf(w)' = JobOf(w)
      BY <2>1, <2>3
    <3> QED
      BY <2>1, <2>3, <3>1, AtKept
  <2> QED
    BY <1>k, <2>2, <2>3
<1>s. {"complete"} \in SUBSET Engaged /\ Failing \in SUBSET Engaged
  BY DEF Engaged, InCall, Failing
<1>1. CASE j # JobOf(w)
  BY <1>0, <1>1, <1>f, <1>k, <1>s, <1>v, RunKept
<1>2. CASE j = JobOf(w) /\ (\/ \E r \in topic : Poll(w, r)
                           \/ Fetch(w) \/ ExecMarkClaimed(w) \/ ExecMarkRunning(w)
                           \/ PublishDLQ(w) \/ Commit(w))
  <2>1. exec[w].pc \notin Failing \cup {"complete"}
    BY <1>2 DEF Poll, Fetch, ExecMarkClaimed, ExecMarkRunning, PublishDLQ, Commit, Failing
  <2>2. handled' = handled
    BY <1>2 DEF Poll, Fetch, ExecMarkClaimed, ExecMarkRunning, PublishDLQ, Commit
  <2>3. docs'[j].attempts = docs[j].attempts
    <3>1. CASE ExecMarkClaimed(w) \/ ExecMarkRunning(w)
      BY <1>0, <1>2, <3>1, StatusSet
         DEF ExecMarkClaimed, ExecMarkRunning, MarkClaimed, MarkRunning, store, Statuses
    <3>2. CASE ~(ExecMarkClaimed(w) \/ ExecMarkRunning(w))
      BY <1>2, <3>2 DEF Poll, Fetch, PublishDLQ, Commit, store
    <3> QED
      BY <3>1, <3>2
  <2>4. exec'[w].pc \notin Failing \cup {"complete"}
    BY <1>0, <1>2, <2>1, Turns DEF Failing, Poll, Fetch, ExecMarkClaimed, ExecMarkRunning,
         PublishDLQ, Commit, HandlerSucceeds, HandlerFails, MarkFailedRead
  <2>5. (At(Failing, j)' <=> At(Failing, j)) /\ (At({"complete"}, j)' <=> At({"complete"}, j))
    BY <1>k, <1>s, <2>1, <2>4 DEF Failing
  <2> QED
    BY <1>0, <1>f, <1>v, <2>2, <2>3, <2>5, RunKept
<1>3. CASE j = JobOf(w) /\ ExecutorDies(w)
  BY <1>0, <1>3, <1>v, RunKept DEF ExecutorDies, Fault, store
<1>4. CASE j = JobOf(w) /\ HandlerSucceeds(w)
  <2>1. exec[w].pc = "handle" /\ exec'[w].pc = "complete" /\ JobOf(w)' = j
    BY <1>0, <1>4, <1>f, Moves DEF HandlerSucceeds, Stages
  <2>2. docs[j].status = "running" /\ ~At({"complete"}, j)
    BY <1>4, <2>1 DEF HoldInv, Held, Apart, At, Engaged, InCall
  <2>3. handled[j].ok <= faults /\ faults' = faults /\ At({"complete"}, j)' /\ docs' = docs
    BY <1>0, <1>4, <2>1, <2>2 DEF SuccessKept, Bit, At, HandlerSucceeds, store
  <2>4. handled'[j].ok = handled[j].ok + 1 /\ handled'[j].failed = handled[j].failed
    BY <1>0, <1>4 DEF HandlerSucceeds
  <2>5. At(Failing, j)' <=> At(Failing, j)
    BY <1>k, <1>s, <2>1 DEF Failing
  <2> QED
    BY <1>0, <2>3, <2>4, <2>5 DEF FailuresKept, SuccessKept, Bit
<1>5. CASE j = JobOf(w) /\ HandlerFails(w)
  <2>1. exec[w].pc = "handle" /\ exec'[w].pc = "failRead" /\ JobOf(w)' = j
    BY <1>0, <1>5, <1>f, Moves DEF HandlerFails, Stages
  <2>2. ~At(Failing, j)
    BY <1>5, <2>1 DEF HoldInv, Apart, At, Engaged, InCall, Failing
  <2>3. At(Failing, j)' /\ docs' = docs /\ faults' = faults
    BY <1>5, <2>1 DEF At, Failing, HandlerFails, store
  <2>4. handled'[j].ok = handled[j].ok /\ handled'[j].failed = handled[j].failed + 1
    BY <1>0, <1>5 DEF HandlerFails
  <2>5. At({"complete"}, j)' <=> At({"complete"}, j)
    BY <1>k, <1>s, <2>1
  <2> QED
    <3>1. FailuresKept(j)'
      BY <1>0, <2>2, <2>3, <2>4 DEF FailuresKept, Bit, Document
    <3>2. SuccessKept(j)'
      BY <1>0, <2>3, <2>4, <2>5 DEF SuccessKept
    <3> QED
      BY <3>1, <3>2
<1>6. CASE j = JobOf(w) /\ ExecMarkCompleted(w)
  <2>1. exec[w].pc = "complete" /\ exec'[w].pc = "commit"
    BY <1>0, <1>6, Moves DEF ExecMarkCompleted
  <2>2. At(Failing, j)' <=> At(Failing, j)
    BY <1>k, <1>s, <2>1 DEF Failing
  <2>3. /\ handled' = handled /\ docs'[j].attempts = docs[j].attempts
        /\ faults' = faults + 1 \/ docs'[j].status = "completed"
    BY <1>0, <1>6, StatusSet DEF ExecMarkCompleted, MarkCompleted, Fault, store, Statuses
  <2> QED
    BY <1>0, <1>f, <1>v, <2>2, <2>3, RunKept
<1>7. CASE j = JobOf(w) /\ MarkFailedRead(w)
  <2>1. exec[w].pc = "failRead" /\ handled' = handled /\ docs' = docs
    BY <1>7 DEF MarkFailedRead, store
  <2>2. exec'[w].pc = "failWrite" \/ faults' = faults + 1
    <3>1. exec[w] \in Execution /\ exec \in [Workers -> Execution]
      BY <1>0 DEF TypeOK
    <3> QED
      BY <1>7, <3>1 DEF MarkFailedRead, Fault, Execution
  <2>3. CASE exec'[w].pc = "failWrite"
    <3>1. (At(Failing, j)' <=> At(Failing, j)) /\ (At({"complete"}, j)' <=> At({"complete"}, j))
      BY <1>k, <1>s, <2>1, <2>3 DEF Failing
    <3> QED
      BY <1>0, <1>f, <2>1, <3>1, RunKept
  <2>4. CASE faults' = faults + 1
    BY <1>0, <2>1, <2>4, RunKept
  <2> QED
    BY <2>2, <2>3, <2>4
<1>8. CASE j = JobOf(w) /\ MarkFailedWrite(w)
  <2>1. /\ exec[w].pc = "failWrite" /\ exec[w].next = docs[j].attempts + 1
        /\ docs[j].status = "running" /\ handled' = handled
    BY <1>0, <1>8 DEF MarkFailedWrite, Recalls, Held, Engaged, InCall
  <2>2. exec'[w].pc # "complete" /\ (At({"complete"}, j)' <=> At({"complete"}, j))
    BY <1>0, <1>8, <1>k, <1>s, <2>1, Turns DEF HandlerSucceeds
  <2>3. CASE MarkFailed(j, exec[w].next, Backoff(exec[w].seen))
    <3>1. docs'[j].attempts = docs[j].attempts + 1
      BY <1>0, <2>1, <2>3 DEF MarkFailed, StoreTypeOK, Updated, Document
    <3> QED
      BY <1>0, <1>f, <2>1, <2>2, <3>1 DEF FailuresKept, SuccessKept, Bit, Document
  <2>4. CASE faults' = faults + 1 /\ docs' = docs
    BY <1>0, <2>1, <2>4, RunKept
  <2> QED
    BY <1>8, <2>3, <2>4 DEF MarkFailedWrite, Fault, store
<1> QED
  BY <1>1, <1>2, <1>3, <1>4, <1>5, <1>6, <1>7, <1>8 DEF WorkerStep

(* Every failure of a handler is counted once and only a fault loses one; a   *)
(* handler that succeeded runs to success again only after a fault; and no    *)
(* job fails more often than its budget allows.                               *)
THEOREM BudgetKept == PunctualSpec => []RunsWithinBudget
<1>1. Init => RunInv
  <2> SUFFICES ASSUME Init, NEW j \in Jobs
               PROVE  FailuresKept(j) /\ SuccessKept(j)
    BY DEF RunInv
  <2>1. /\ handled[j].ok = 0 /\ handled[j].failed = 0 /\ faults = 0
        /\ docs[j].attempts = 0 /\ docs[j].status = "absent"
    BY DEF Init, StoreInit
  <2>2. ~At({"complete"}, j)
    BY DEF Init, Waiting, At
  <2> QED
    BY <2>1, <2>2 DEF FailuresKept, SuccessKept, Bit
<1>2. HoldInv /\ HoldInv' /\ RunInv /\ [PunctualNext]_vars => RunInv'
  <2> SUFFICES ASSUME HoldInv, HoldInv', RunInv, [PunctualNext]_vars,
                      ~ \E w \in Workers : WorkerStep(w) \/ ExecutorDies(w), NEW j \in Jobs
               PROVE  FailuresKept(j)' /\ SuccessKept(j)'
    BY RunStepWorker DEF RunInv
  <2>1. /\ exec' = exec /\ handled' = handled
        /\ docs'[j].attempts = docs[j].attempts
    BY OthersFrame
  <2>2. (At(Failing, j)' <=> At(Failing, j)) /\ (At({"complete"}, j)' <=> At({"complete"}, j))
    BY <2>1 DEF At, JobOf
  <2>3. faults' \in {faults, faults + 1}
    BY DEF PunctualNext, Step, Tick, CreateJob, Reap, SchedulerStep, SchedulerDies, ClaimNext,
           DispatchBatch, ClaimFails, Publish, SpawnInstance, Fault, vars
  <2>4. docs[j].status = "completed" => docs'[j].status = "completed"
    BY VerdictKept DEF Same, Terminal
  <2>5. FailuresKept(j) /\ SuccessKept(j) /\ TypeOK'
    BY DEF RunInv, HoldInv
  <2> QED
    BY <2>1, <2>2, <2>3, <2>4, <2>5, RunKept
<1>3. HoldInv /\ RunInv => RunsWithinBudget
  <2> SUFFICES ASSUME HoldInv, RunInv, NEW j \in Jobs
               PROVE  /\ handled[j].failed
                           <= docs[j].attempts + Cardinality(WorkersAt(Failing, j)) + faults
                      /\ docs[j].attempts <= docs[j].maxAttempts
                      /\ handled[j].ok <= 1 + faults
    BY DEF RunsWithinBudget, Failing
  <2>0. /\ docs[j] \in Document /\ handled[j] \in [ok: Nat, failed: Nat] /\ faults \in Nat
        /\ FailuresKept(j) /\ SuccessKept(j) /\ Budgeted(docs[j])
    BY DEF HoldInv, RunInv, TypeOK, StoreTypeOK
  <2>1. Cardinality(WorkersAt(Failing, j)) = Bit(At(Failing, j))
    <3>1. CASE At(Failing, j)
      <4>1. PICK w \in Workers : WorkersAt(Failing, j) = {w}
        BY <3>1 DEF At, WorkersAt, HoldInv, Apart, Failing, Engaged, InCall
      <4> QED
        BY <3>1, <4>1, FS_Singleton DEF Bit
    <3>2. CASE ~At(Failing, j)
      <4>1. WorkersAt(Failing, j) = {}
        BY <3>2 DEF At, WorkersAt
      <4> QED
        BY <3>2, <4>1, FS_EmptySet DEF Bit
    <3> QED
      BY <3>1, <3>2
  <2> QED
    BY <2>0, <2>1 DEF FailuresKept, SuccessKept, Budgeted, Bit, Document
<1> QED
  BY <1>1, <1>2, <1>3, HoldCorrect, PTL DEF PunctualSpec
=============================================================================
