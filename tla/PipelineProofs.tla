--------------------------- MODULE PipelineProofs ---------------------------
(***************************************************************************)
(* Theorems about the pipeline under arbitrary stalls and faults.          *)
(***************************************************************************)
EXTENDS Pipeline, StoreProofs, FiniteSetTheorems

(* Away from "poll" an executor holds a record, hence a job. *)
LEMMA JobOfType ==
  ASSUME TypeOK, NEW w \in Workers, exec[w].pc # "poll"
  PROVE  JobOf(w) \in Jobs
BY DEF TypeOK, JobOf, Records

(* exponentialBackoff stays within its cap, whatever 2^attempt is. *)
LEMMA BackoffType ==
  ASSUME NEW attempt
  PROVE  Backoff(attempt) \in Nat
BY StoreAssumption DEF Backoff

(* No action touches the collection but through one of its methods. *)
LEMMA StoreOnly ==
  ASSUME TypeOK, [Next]_vars
  PROVE  StoreStep \/ UNCHANGED store
<1> USE DEF store
<1>1. CASE UNCHANGED vars
  BY <1>1 DEF vars
<1>2. CASE Tick
  BY <1>2 DEF Tick, StoreStep
<1>3. ASSUME NEW j \in Jobs, CreateJob(j) \/ Reap(j)
      PROVE  StoreStep \/ UNCHANGED store
  BY <1>3 DEF CreateJob, Reap, StoreStep
<1>4. ASSUME NEW s \in Schedulers, SchedulerStep(s) \/ SchedulerDies(s)
      PROVE  StoreStep \/ UNCHANGED store
  BY <1>4 DEF SchedulerStep, SchedulerDies, ClaimNext, DispatchBatch, ClaimFails, Publish,
              StoreStep
<1>s. ASSUME NEW s \in Schedulers, NEW j \in Jobs, SpawnInstance(s, j)
      PROVE  StoreStep \/ UNCHANGED store
  BY <1>s DEF SpawnInstance, StoreStep
<1>5. ASSUME NEW w \in Workers, WorkerStep(w) \/ ExecutorDies(w)
      PROVE  StoreStep \/ UNCHANGED store
  <2>1. CASE \/ \E r \in topic : Poll(w, r)
             \/ Fetch(w) \/ HandlerSucceeds(w) \/ HandlerFails(w) \/ MarkFailedRead(w)
             \/ PublishDLQ(w) \/ Commit(w) \/ ExecutorDies(w)
    BY <2>1 DEF Poll, Fetch, HandlerSucceeds, HandlerFails, MarkFailedRead, PublishDLQ,
                Commit, ExecutorDies
  <2>2. CASE ExecMarkClaimed(w) \/ ExecMarkRunning(w) \/ ExecMarkCompleted(w)
    <3>1. JobOf(w) \in Jobs
      BY <2>2, JobOfType DEF ExecMarkClaimed, ExecMarkRunning, ExecMarkCompleted
    <3> QED
      BY <2>2, <3>1 DEF ExecMarkClaimed, ExecMarkRunning, ExecMarkCompleted, StoreStep
  <2>3. CASE MarkFailedWrite(w)
    <3>1. JobOf(w) \in Jobs
      BY <2>3, JobOfType DEF MarkFailedWrite
    <3>2. exec[w].next \in Nat /\ Backoff(exec[w].seen) \in Nat
      BY BackoffType DEF TypeOK, Execution
    <3>3. MarkFailed(JobOf(w), exec[w].next, Backoff(exec[w].seen)) \/ UNCHANGED store
      BY <2>3 DEF MarkFailedWrite
    <3> QED
      BY <3>1, <3>2, <3>3 DEF StoreStep
  <2> QED
    BY <1>5, <2>1, <2>2, <2>3 DEF WorkerStep
<1> QED
  BY <1>1, <1>2, <1>3, <1>4, <1>s, <1>5 DEF Next, Step

-----------------------------------------------------------------------------
(* The part of TypeOK about the executors. *)
ExecTypeOK ==
  /\ exec \in [Workers -> Execution]
  /\ \A w \in Workers : exec[w].pc # "poll" => exec[w].rec \in Records

(* An executor that moves on keeps its record, and its type. *)
LEMMA MoveType ==
  ASSUME ExecTypeOK, NEW w \in Workers, exec[w].pc # "poll",
         NEW p \in Stages, NEW a \in Nat, NEW b \in Nat,
         exec' = [exec EXCEPT ![w] = [@ EXCEPT !.pc = p, !.seen = a, !.next = b]]
  PROVE  ExecTypeOK'
<1>1. exec[w] \in Execution /\ exec[w].rec \in Records
  BY DEF ExecTypeOK
<1> DEFINE e == [exec[w] EXCEPT !.pc = p, !.seen = a, !.next = b]
<1>2. e \in Execution /\ e.rec = exec[w].rec
  BY <1>1 DEF Execution
<1>3. exec' = [exec EXCEPT ![w] = e]
  OBVIOUS
<1> HIDE DEF e
<1> QED
  BY <1>1, <1>2, <1>3 DEF ExecTypeOK

(* Every step of an executor keeps the types of the executors. *)
LEMMA WorkerStepExecType ==
  ASSUME TypeOK, NEW w \in Workers, WorkerStep(w) \/ ExecutorDies(w)
  PROVE  ExecTypeOK'
<1>0. /\ ExecTypeOK
      /\ exec[w] \in Execution
      /\ exec[w].seen \in Nat /\ exec[w].next \in Nat
      /\ topic \subseteq Records
  BY DEF TypeOK, ExecTypeOK, Execution
<1>a. ASSUME NEW p \in Stages, exec[w].pc # "poll", Goto(w, p)
      PROVE  ExecTypeOK'
  <2>1. exec' = [exec EXCEPT ![w] =
                   [@ EXCEPT !.pc = p, !.seen = exec[w].seen, !.next = exec[w].next]]
    <3>1. [exec[w] EXCEPT !.pc = p]
            = [exec[w] EXCEPT !.pc = p, !.seen = exec[w].seen, !.next = exec[w].next]
      BY <1>0 DEF Execution
    <3>2. exec' = [exec EXCEPT ![w] = [exec[w] EXCEPT !.pc = p]]
      BY <1>a, <1>0 DEF Goto, ExecTypeOK
    <3> QED
      BY <3>1, <3>2
  <2> QED
    BY <1>0, <1>a, <2>1, MoveType
<1>b. ASSUME exec[w].pc # "poll", Return(w)
      PROVE  ExecTypeOK'
  BY <1>0, <1>b, MoveType DEF Return, Stages
<1>1. ASSUME NEW r \in topic, Poll(w, r)
      PROVE  ExecTypeOK'
  <2> DEFINE e == [exec[w] EXCEPT !.pc = "fetch", !.rec = r]
  <2>1. e \in Execution /\ e.rec \in Records
    BY <1>0 DEF Execution, Stages
  <2>2. exec' = [exec EXCEPT ![w] = e]
    BY <1>1 DEF Poll
  <2> HIDE DEF e
  <2> QED
    BY <1>0, <2>1, <2>2 DEF ExecTypeOK
<1>2. CASE Fetch(w)
  <2>1. docs[JobOf(w)].attempts \in Nat
    BY <1>2, JobOfType DEF Fetch, TypeOK, StoreTypeOK, Document
  <2>2. CASE exec' = [exec EXCEPT ![w] =
               [@ EXCEPT !.pc = "claim", !.seen = docs[JobOf(w)].attempts]]
    <3>1. [exec[w] EXCEPT !.pc = "claim", !.seen = docs[JobOf(w)].attempts]
            = [exec[w] EXCEPT !.pc = "claim", !.seen = docs[JobOf(w)].attempts,
                              !.next = exec[w].next]
      BY <1>0 DEF Execution
    <3> QED
      BY <1>0, <1>2, <2>1, <2>2, <3>1, MoveType DEF Fetch, Stages
  <2>3. CASE Return(w)
    BY <1>2, <1>b, <2>3 DEF Fetch
  <2> QED
    BY <1>2, <2>2, <2>3 DEF Fetch
<1>3. CASE ExecMarkClaimed(w) \/ ExecMarkRunning(w) \/ HandlerSucceeds(w) \/ HandlerFails(w)
           \/ ExecMarkCompleted(w) \/ PublishDLQ(w)
  BY <1>3, <1>a, <1>b
     DEF ExecMarkClaimed, ExecMarkRunning, HandlerSucceeds, HandlerFails, ExecMarkCompleted,
         PublishDLQ, Stages
<1>4. CASE MarkFailedRead(w)
  <2>1. docs[JobOf(w)].attempts + 1 \in Nat
    BY <1>4, JobOfType DEF MarkFailedRead, TypeOK, StoreTypeOK, Document
  <2>2. CASE exec' = [exec EXCEPT ![w] =
               [@ EXCEPT !.pc = "failWrite", !.next = docs[JobOf(w)].attempts + 1]]
    <3>1. [exec[w] EXCEPT !.pc = "failWrite", !.next = docs[JobOf(w)].attempts + 1]
            = [exec[w] EXCEPT !.pc = "failWrite", !.seen = exec[w].seen,
                              !.next = docs[JobOf(w)].attempts + 1]
      BY <1>0 DEF Execution
    <3> QED
      BY <1>0, <1>4, <2>1, <2>2, <3>1, MoveType DEF MarkFailedRead, Stages
  <2>3. CASE Return(w)
    BY <1>4, <1>b, <2>3 DEF MarkFailedRead
  <2> QED
    BY <1>4, <2>2, <2>3 DEF MarkFailedRead
<1>5. CASE MarkFailedWrite(w)
  <2>1. CASE exec' = [exec EXCEPT ![w] =
               [@ EXCEPT !.pc = "deadLetter", !.seen = 0, !.next = 0]]
    BY <1>0, <1>5, <2>1, MoveType DEF MarkFailedWrite, Stages
  <2>2. CASE Return(w)
    BY <1>5, <1>b, <2>2 DEF MarkFailedWrite
  <2> QED
    BY <1>5, <2>1, <2>2 DEF MarkFailedWrite
<1>6. CASE Commit(w) \/ ExecutorDies(w)
  BY <1>0, <1>6 DEF Commit, ExecutorDies, Waiting, ExecTypeOK, Execution, Stages
<1> QED
  BY <1>1, <1>2, <1>3, <1>4, <1>5, <1>6 DEF WorkerStep

(* What an executor's moves do to it and to the others. *)
LEMMA Moves ==
  ASSUME TypeOK, NEW w \in Workers
  PROVE  /\ \A p \in Stages : Goto(w, p) =>
              /\ exec'[w].pc = p /\ exec'[w].rec = exec[w].rec
              /\ exec'[w].seen = exec[w].seen /\ exec'[w].next = exec[w].next
         /\ Return(w) => exec'[w].pc = "commit" /\ exec'[w].rec = exec[w].rec
         /\ Return(w) \/ (\E p \in Stages : Goto(w, p)) =>
              \A v \in Workers \ {w} : exec'[v] = exec[v]
<1>1. exec[w] \in Execution /\ exec \in [Workers -> Execution]
  BY DEF TypeOK
<1> QED
  BY <1>1 DEF Goto, Return, Execution

(* The updates by _id alone and the compare-and-set ones change one document. *)
LEMMA StatusSet ==
  ASSUME StoreTypeOK, NEW j \in Jobs, NEW s \in Statuses, SetStatus(j, s)
  PROVE  /\ \A k \in Jobs \ {j} : docs'[k] = docs[k]
         /\ docs'[j].status = s /\ docs'[j].idle = 0
         /\ docs'[j].attempts = docs[j].attempts
         /\ docs'[j].maxAttempts = docs[j].maxAttempts
<1>1. docs[j] \in Document /\ docs \in [Jobs -> Document]
  BY DEF StoreTypeOK
<1> QED
  BY <1>1 DEF SetStatus, Updated, Document

(* Where an executor's step may take it, and that it keeps its record. *)
LEMMA Turns ==
  ASSUME TypeOK, NEW w \in Workers, WorkerStep(w) \/ ExecutorDies(w)
  PROVE  /\ exec'[w].pc \notin {"poll", "fetch"} => exec'[w].rec = exec[w].rec
         /\ exec'[w].pc = "fetch" => \E r \in topic : Poll(w, r)
         /\ exec'[w].pc = "mark" => ExecMarkClaimed(w)
         /\ exec'[w].pc = "handle" => ExecMarkRunning(w)
         /\ exec'[w].pc = "complete" => HandlerSucceeds(w)
         /\ exec'[w].pc = "failRead" => HandlerFails(w)
         /\ exec'[w].pc = "failWrite" => MarkFailedRead(w)
         /\ exec'[w].pc = "deadLetter" => MarkFailedWrite(w)
<1> DEFINE Turn(targets) == exec'[w].pc \in targets /\ exec'[w].rec = exec[w].rec
<1>0. exec[w] \in Execution /\ exec \in [Workers -> Execution]
  BY DEF TypeOK
<1>1. ASSUME NEW r \in topic, Poll(w, r)
      PROVE  exec'[w].pc = "fetch"
  BY <1>0, <1>1 DEF Poll, Execution
<1>2. Fetch(w) => Turn({"claim", "commit"})
  BY <1>0 DEF Fetch, Return, Execution
<1>3. ExecMarkClaimed(w) => Turn({"mark", "commit"})
  BY <1>0 DEF ExecMarkClaimed, Goto, Return, Execution
<1>4. ExecMarkRunning(w) => Turn({"handle", "commit"})
  BY <1>0 DEF ExecMarkRunning, Goto, Return, Execution
<1>5. HandlerSucceeds(w) => Turn({"complete"})
  BY <1>0 DEF HandlerSucceeds, Goto, Execution
<1>6. HandlerFails(w) => Turn({"failRead"})
  BY <1>0 DEF HandlerFails, Goto, Execution
<1>7. MarkFailedRead(w) => Turn({"failWrite", "commit"})
  BY <1>0 DEF MarkFailedRead, Return, Execution
<1>8. MarkFailedWrite(w) => Turn({"deadLetter", "commit"})
  BY <1>0 DEF MarkFailedWrite, Return, Execution
<1>9. ExecMarkCompleted(w) \/ PublishDLQ(w) => Turn({"commit"})
  BY <1>0 DEF ExecMarkCompleted, PublishDLQ, Return, Execution
<1>10. Commit(w) \/ ExecutorDies(w) => exec'[w].pc = "poll"
  BY <1>0 DEF Commit, ExecutorDies, Waiting
<1> QED
  BY <1>1, <1>2, <1>3, <1>4, <1>5, <1>6, <1>7, <1>8, <1>9, <1>10 DEF WorkerStep

(* What an executor's step leaves alone: the other executors and their jobs. *)
LEMMA WorkersFrame ==
  ASSUME TypeOK, NEW w \in Workers, WorkerStep(w) \/ ExecutorDies(w)
  PROVE  /\ \A v \in Workers \ {w} : exec'[v] = exec[v]
         /\ \A k \in Jobs \ {JobOf(w)} : docs'[k] = docs[k] /\ handled'[k] = handled[k]
         /\ exec'[w].pc \notin {"poll", "fetch"} => JobOf(w)' = JobOf(w)
         /\ faults' \in {faults, faults + 1}
<1>0. exec \in [Workers -> Execution] /\ exec[w] \in Execution /\ TypeOK
      /\ handled \in [Jobs -> [ok: Nat, failed: Nat]] /\ docs \in [Jobs -> Document]
  BY DEF TypeOK, StoreTypeOK
<1>1. \A v \in Workers \ {w} : exec'[v] = exec[v]
  BY <1>0 DEF WorkerStep, ExecutorDies, Poll, Fetch, ExecMarkClaimed, ExecMarkRunning,
              HandlerSucceeds, HandlerFails, ExecMarkCompleted, MarkFailedRead,
              MarkFailedWrite, PublishDLQ, Commit, Goto, Return
<1>2. \A k \in Jobs \ {JobOf(w)} : docs'[k] = docs[k]
  BY <1>0 DEF WorkerStep, ExecutorDies, Poll, Fetch, ExecMarkClaimed, ExecMarkRunning,
              HandlerSucceeds, HandlerFails, ExecMarkCompleted, MarkFailedRead,
              MarkFailedWrite, PublishDLQ, Commit, MarkClaimed, MarkRunning, MarkCompleted,
              MarkFailed, SetStatus, store
<1>3. \A k \in Jobs \ {JobOf(w)} : handled'[k] = handled[k]
  BY <1>0 DEF WorkerStep, ExecutorDies, Poll, Fetch, ExecMarkClaimed, ExecMarkRunning,
              HandlerSucceeds, HandlerFails, ExecMarkCompleted, MarkFailedRead,
              MarkFailedWrite, PublishDLQ, Commit
<1>4. exec'[w].pc \notin {"poll", "fetch"} => exec'[w].rec = exec[w].rec
  BY <1>0, Turns
<1>5. faults' \in {faults, faults + 1}
  BY DEF WorkerStep, ExecutorDies, Poll, Fetch, ExecMarkClaimed, ExecMarkRunning,
         HandlerSucceeds, HandlerFails, ExecMarkCompleted, MarkFailedRead,
         MarkFailedWrite, PublishDLQ, Commit, Fault
<1> QED
  BY <1>1, <1>2, <1>3, <1>4, <1>5 DEF JobOf

-----------------------------------------------------------------------------
(* The processes start idle, on an empty collection and empty topics. *)
LEMMA TypeInit == Init => TypeOK
<1> SUFFICES ASSUME Init
             PROVE  TypeOK
  OBVIOUS
<1>1. StoreTypeOK
  BY StoreAssumption DEF Init, StoreInit, StoreTypeOK, Document, Entry, Statuses
<1> QED
  BY <1>1, PipelineAssumption DEF Init, TypeOK, Execution, Waiting, Stages

(* Every call of a scheduler, an executor or the reaper keeps the types. *)
LEMMA TypeStep == TypeOK /\ [Next]_vars => TypeOK'
<1> SUFFICES ASSUME TypeOK, [Next]_vars
             PROVE  TypeOK'
  OBVIOUS
<1> DEFINE RestOK == /\ batch \in [Schedulers -> SUBSET Records]
                     /\ outbox \in [Schedulers -> SUBSET Records]
                     /\ topic \in SUBSET Records
                     /\ committed \in SUBSET Records
                     /\ dlqTopic \in SUBSET Jobs
                     /\ handled \in [Jobs -> [ok: Nat, failed: Nat]]
                     /\ faults \in 0..MaxFaults
<1>1. StoreTypeOK'
  BY StoreOnly, StoreStepType DEF TypeOK, store, StoreTypeOK
<1>0. RestOK /\ ExecTypeOK
  BY DEF TypeOK, ExecTypeOK
<1>f. ASSUME Fault \/ UNCHANGED faults
      PROVE  faults' \in 0..MaxFaults
  BY <1>0, <1>f, PipelineAssumption DEF Fault
<1>2. CASE UNCHANGED vars
  BY <1>0, <1>1, <1>2 DEF vars, TypeOK, ExecTypeOK
<1>3. CASE Tick
  BY <1>0, <1>1, <1>3 DEF Tick, sched, kafka, TypeOK, ExecTypeOK
<1>4. ASSUME NEW j \in Jobs, CreateJob(j) \/ Reap(j)
      PROVE  TypeOK'
  BY <1>0, <1>1, <1>4 DEF CreateJob, Reap, sched, kafka, TypeOK, ExecTypeOK
<1>5. ASSUME NEW s \in Schedulers, SchedulerStep(s) \/ SchedulerDies(s)
      PROVE  TypeOK'
  <2>1. exec' = exec /\ handled' = handled /\ dlqTopic' = dlqTopic /\ committed' = committed
    BY <1>5 DEF SchedulerStep, SchedulerDies, ClaimNext, DispatchBatch, ClaimFails, Publish,
                kafka, sched
  <2>2. faults' \in 0..MaxFaults
    BY <1>5, <1>f DEF SchedulerStep, SchedulerDies, ClaimNext, DispatchBatch, ClaimFails, Publish
  <2>3. /\ batch' \in [Schedulers -> SUBSET Records]
        /\ outbox' \in [Schedulers -> SUBSET Records]
        /\ topic' \in SUBSET Records
    <3>1. CASE ClaimNext(s)
      <4> PICK j \in Jobs : ClaimDueJob(j) /\ batch' = [batch EXCEPT ![s] =
                              @ \cup {[job |-> j, claim |-> ledger[j].claims + 1]}]
        BY <3>1 DEF ClaimNext
      <4>1. ledger[j].claims + 1 \in 1..MaxClaims
        BY StoreAssumption DEF ClaimDueJob, First, Due, TypeOK, StoreTypeOK, Entry
      <4>2. [job |-> j, claim |-> ledger[j].claims + 1] \in Records
        BY <4>1 DEF Records
      <4> QED
        BY <1>0, <3>1, <4>2 DEF ClaimNext, kafka
    <3>2. CASE DispatchBatch(s) \/ ClaimFails(s) \/ SchedulerDies(s)
      BY <1>0, <3>2 DEF DispatchBatch, ClaimFails, SchedulerDies, kafka
    <3>3. ASSUME NEW r \in outbox[s], Publish(s, r)
          PROVE  <2>3!:
      <4>1. outbox[s] \subseteq Records
        BY <1>0
      <4> QED
        BY <1>0, <3>3, <4>1 DEF Publish
    <3> QED
      BY <1>5, <3>1, <3>2, <3>3 DEF SchedulerStep
  <2> QED
    BY <1>0, <1>1, <2>1, <2>2, <2>3 DEF TypeOK, ExecTypeOK
<1>s. ASSUME NEW s \in Schedulers, NEW j \in Jobs, SpawnInstance(s, j)
      PROVE  TypeOK'
  <2>1. ledger[j].claims + 1 \in 1..MaxClaims
    BY <1>s, StoreAssumption DEF SpawnInstance, SpawnCronInstance, TypeOK, StoreTypeOK, Entry
  <2>2. [job |-> j, claim |-> ledger[j].claims + 1] \in Records
    BY <2>1 DEF Records
  <2>3. outbox' \in [Schedulers -> SUBSET Records]
    BY <1>0, <1>s, <2>2 DEF SpawnInstance
  <2>4. faults' \in 0..MaxFaults
    BY <1>f, <1>s DEF SpawnInstance
  <2> QED
    BY <1>0, <1>1, <1>s, <2>3, <2>4 DEF SpawnInstance, kafka, TypeOK, ExecTypeOK
<1>6. ASSUME NEW w \in Workers, WorkerStep(w) \/ ExecutorDies(w)
      PROVE  TypeOK'
  <2>1. ExecTypeOK'
    BY <1>6, WorkerStepExecType
  <2>2. batch' = batch /\ outbox' = outbox /\ topic' = topic
    BY <1>6 DEF WorkerStep, ExecutorDies, Poll, Fetch, ExecMarkClaimed, ExecMarkRunning,
                HandlerSucceeds, HandlerFails, ExecMarkCompleted, MarkFailedRead,
                MarkFailedWrite, PublishDLQ, Commit, kafka, sched
  <2>3. faults' \in 0..MaxFaults
    BY <1>6, <1>f DEF WorkerStep, ExecutorDies, Poll, Fetch, ExecMarkClaimed, ExecMarkRunning,
                HandlerSucceeds, HandlerFails, ExecMarkCompleted, MarkFailedRead,
                MarkFailedWrite, PublishDLQ, Commit
  <2>4. handled' \in [Jobs -> [ok: Nat, failed: Nat]]
    <3>1. CASE handled' = handled
      BY <1>0, <3>1
    <3>2. CASE HandlerSucceeds(w) \/ HandlerFails(w)
      <4>1. handled[JobOf(w)] \in [ok: Nat, failed: Nat]
        BY <1>0, <3>2, JobOfType DEF HandlerSucceeds, HandlerFails
      <4>2. /\ [handled[JobOf(w)] EXCEPT !.ok = @ + 1] \in [ok: Nat, failed: Nat]
            /\ [handled[JobOf(w)] EXCEPT !.failed = @ + 1] \in [ok: Nat, failed: Nat]
        BY <4>1
      <4> QED
        BY <1>0, <3>2, <4>2 DEF HandlerSucceeds, HandlerFails
    <3> QED
      BY <1>6, <3>1, <3>2 DEF WorkerStep, ExecutorDies, Poll, Fetch, ExecMarkClaimed,
           ExecMarkRunning, ExecMarkCompleted, MarkFailedRead, MarkFailedWrite, PublishDLQ, Commit
  <2>5. committed' \in SUBSET Records
    <3>1. CASE Commit(w)
      <4>1. exec[w].rec \in Records
        BY <1>0, <3>1 DEF Commit, ExecTypeOK
      <4> QED
        BY <1>0, <3>1, <4>1 DEF Commit
    <3> QED
      BY <1>0, <1>6, <3>1 DEF WorkerStep, ExecutorDies, Poll, Fetch, ExecMarkClaimed,
           ExecMarkRunning, HandlerSucceeds, HandlerFails, ExecMarkCompleted, MarkFailedRead,
           MarkFailedWrite, PublishDLQ, kafka
  <2>6. dlqTopic' \in SUBSET Jobs
    <3>1. CASE PublishDLQ(w)
      BY <1>0, <3>1, JobOfType DEF PublishDLQ
    <3> QED
      BY <1>0, <1>6, <3>1 DEF WorkerStep, ExecutorDies, Poll, Fetch, ExecMarkClaimed,
           ExecMarkRunning, HandlerSucceeds, HandlerFails, ExecMarkCompleted, MarkFailedRead,
           MarkFailedWrite, Commit, kafka
  <2> QED
    BY <1>0, <1>1, <2>1, <2>2, <2>3, <2>4, <2>5, <2>6 DEF TypeOK, ExecTypeOK
<1> QED
  BY <1>2, <1>3, <1>4, <1>5, <1>s, <1>6 DEF Next, Step

(* Every reachable state has the declared types (all of Pipeline's actions): *)
(* in particular the executor never works without a record, and claims stay  *)
(* within their bound.                                                       *)
THEOREM TypeCorrect == Spec => []TypeOK
BY TypeInit, TypeStep, PTL DEF Spec

(* Whatever messages are lost, repeated or late, whoever stalls, and however *)
(* many schedulers claim: ClaimDueJobs and MarkClaimed (jobs_repo.go:85-135) *)
(* start a job at most once more than it was retried and swept.              *)
THEOREM StartsBounded == Spec => []StartsWithinRecoveries
<1>1. Init => StartsWithinRecoveries
  BY StartsWithinRecoveriesInit DEF Init
<1>2. TypeOK /\ StartsWithinRecoveries /\ [Next]_vars => StartsWithinRecoveries'
  <2> SUFFICES ASSUME TypeOK, StartsWithinRecoveries, [Next]_vars
               PROVE  StartsWithinRecoveries'
    OBVIOUS
  <2>1. CASE StoreStep
    BY <2>1, StartsWithinRecoveriesStep DEF TypeOK
  <2>2. CASE UNCHANGED store
    BY <2>2 DEF store, StartsWithinRecoveries
  <2> QED
    BY <2>1, <2>2, StoreOnly
<1> QED
  BY <1>1, <1>2, TypeCorrect, PTL DEF Spec

-----------------------------------------------------------------------------
(* The failures of job j that MarkFailed has still to read. *)
Unread(j) == Cardinality(WorkersAt({"failRead"}, j))
Reading(w, j) == exec[w].pc = "failRead" /\ JobOf(w) = j

Counted(j) ==
  /\ docs[j].attempts + Unread(j) <= handled[j].failed
  /\ \A w \in Workers :
       exec[w].pc = "failWrite" /\ JobOf(w) = j => exec[w].next + Unread(j) <= handled[j].failed

Earned(j) ==
  /\ docs[j].status = "completed" => handled[j].ok > 0
  /\ docs[j].status = "dlq" => handled[j].failed >= docs[j].maxAttempts

(* An executor about to write "completed" has seen the handler succeed. *)
Succeeded(w) == exec[w].pc = "complete" => handled[JobOf(w)].ok > 0

EarnedInv ==
  /\ \A j \in Jobs : Counted(j) /\ Earned(j)
  /\ \A w \in Workers : Succeeded(w)

(* A step of one executor changes the number of unread failures by its own. *)
LEMMA UnreadStep ==
  ASSUME NEW w \in Workers, \A v \in Workers \ {w} : exec'[v] = exec[v], NEW j
  PROVE  /\ Unread(j) \in Nat
         /\ Unread(j)' = Unread(j) + Bit(Reading(w, j)') - Bit(Reading(w, j))
<1> DEFINE Rest == {v \in Workers \ {w} : Reading(v, j)}
<1>1. IsFiniteSet(Rest) /\ Cardinality(Rest) \in Nat /\ w \notin Rest
  BY PipelineAssumption, FS_Subset, FS_CardinalityType
<1>2. Cardinality(Rest \cup {w}) = Cardinality(Rest) + 1
  BY <1>1, FS_AddElement
<1>3. WorkersAt({"failRead"}, j) = IF Reading(w, j) THEN Rest \cup {w} ELSE Rest
  BY DEF WorkersAt, Reading
<1>4. WorkersAt({"failRead"}, j)' = IF Reading(w, j)' THEN Rest \cup {w} ELSE Rest
  BY DEF WorkersAt, Reading, JobOf
<1> HIDE DEF Rest
<1>5. Unread(j) = Cardinality(Rest) + Bit(Reading(w, j))
  BY <1>1, <1>2, <1>3 DEF Unread, Bit
<1>6. Unread(j)' = Cardinality(Rest) + Bit(Reading(w, j)')
  BY <1>1, <1>2, <1>4 DEF Unread, Bit
<1> QED
  BY <1>1, <1>5, <1>6 DEF Bit

(* Whoever is not an executor leaves the counts alone: only an insert sets    *)
(* them, and it sets them to zero.                                            *)
LEMMA OthersEarn ==
  ASSUME TypeOK, EarnedInv, [Next]_vars,
         ~ \E w \in Workers : WorkerStep(w) \/ ExecutorDies(w)
  PROVE  EarnedInv'
<1>0. StoreTypeOK /\ \A j \in Jobs : docs[j] \in Document
  BY DEF TypeOK, StoreTypeOK
<1>1. exec' = exec /\ handled' = handled
  BY DEF Next, Step, Tick, CreateJob, Reap, SchedulerStep, SchedulerDies, ClaimNext,
         DispatchBatch, ClaimFails, Publish, SpawnInstance, vars
<1>2. ASSUME NEW j \in Jobs
      PROVE  /\ docs'[j].attempts \in {docs[j].attempts, 0}
             /\ docs'[j].status \in {"completed", "dlq"} =>
                  docs'[j].status = docs[j].status /\ docs'[j].maxAttempts = docs[j].maxAttempts
  <2> DEFINE Kept == /\ docs'[j].attempts \in {docs[j].attempts, 0}
                     /\ docs'[j].status \in {"completed", "dlq"} =>
                          docs'[j].status = docs[j].status /\ docs'[j].maxAttempts = docs[j].maxAttempts
  <2>1. ASSUME NEW k \in Jobs, NEW s \in {"pending", "queued"}, SetStatus(k, s)
        PROVE  Kept
    BY <1>0, <2>1, StatusSet DEF Statuses
  <2>2. ASSUME NEW k \in Jobs, NEW s \in {"pending", "queued"}, NEW requested, NEW delay,
               Insert(k, s, requested, delay)
        PROVE  Kept
    BY <1>0, <2>2 DEF Insert, StoreTypeOK
  <2> HIDE DEF Kept
  <2>3. ASSUME NEW k \in Jobs, CreateJob(k) \/ Reap(k)
        PROVE  Kept
    BY <2>1, <2>2, <2>3 DEF CreateJob, Create, Reap, SweepStuckJobs, SweepStuckQueuedJobs, Sweep
  <2>4. ASSUME docs' = docs
        PROVE  Kept
    BY <2>4 DEF Kept
  <2>5. ASSUME NEW s \in Schedulers, SchedulerStep(s) \/ SchedulerDies(s)
        PROVE  Kept
    <3>1. docs' = docs \/ \E k \in Jobs : ClaimDueJob(k)
      BY <2>5 DEF SchedulerStep, SchedulerDies, ClaimNext, DispatchBatch, ClaimFails, Publish, store
    <3>2. ASSUME NEW k \in Jobs, ClaimDueJob(k)
          PROVE  Kept
      BY <2>1, <3>2 DEF ClaimDueJob
    <3> QED
      BY <2>4, <3>1, <3>2
  <2>6. ASSUME NEW s \in Schedulers, NEW k \in Jobs, SpawnInstance(s, k)
        PROVE  Kept
    BY <2>2, <2>6 DEF SpawnInstance, SpawnCronInstance
  <2>7. ASSUME Tick
        PROVE  Kept
    <3>1. docs[j] \in Document
      BY <1>0
    <3>2. /\ docs'[j].attempts = docs[j].attempts /\ docs'[j].status = docs[j].status
          /\ docs'[j].maxAttempts = docs[j].maxAttempts
      BY <2>7, <3>1 DEF Tick, Elapse, Document
    <3> QED
      BY <3>2 DEF Kept
  <2>8. Kept
    BY <2>3, <2>4, <2>5, <2>6, <2>7 DEF Next, Step, vars
  <2> QED
    BY <2>8 DEF Kept
<1>3. ASSUME NEW j \in Jobs
      PROVE  Counted(j)' /\ Earned(j)'
  <2>1. Unread(j)' = Unread(j) /\ Counted(j) /\ Earned(j) /\ docs[j].attempts \in Nat
    BY <1>0, <1>1 DEF EarnedInv, Unread, WorkersAt, JobOf, Document
  <2>2. Unread(j) \in Nat
    <3>1. IsFiniteSet(WorkersAt({"failRead"}, j))
      BY PipelineAssumption, FS_Subset DEF WorkersAt
    <3> QED
      BY <3>1, FS_CardinalityType DEF Unread
  <2>3. handled[j].failed \in Nat
    BY DEF TypeOK
  <2> QED
    BY <1>1, <1>2, <2>1, <2>2, <2>3 DEF Counted, Earned, JobOf
<1>4. \A w \in Workers : Succeeded(w)'
  BY <1>1 DEF EarnedInv, Succeeded, JobOf
<1> QED
  BY <1>3, <1>4 DEF EarnedInv

(* An executor's step: a failure is unread, then read, then written. *)
LEMMA WorkersCount ==
  ASSUME TypeOK, EarnedInv, NEW w \in Workers, WorkerStep(w) \/ ExecutorDies(w), NEW j \in Jobs
  PROVE  Counted(j)'
<1>0. /\ docs[j] \in Document /\ docs[j].attempts \in Nat /\ StoreTypeOK
      /\ handled \in [Jobs -> [ok: Nat, failed: Nat]] /\ handled[j].failed \in Nat
      /\ exec \in [Workers -> Execution] /\ \A v \in Workers : exec[v].next \in Nat
      /\ Counted(j)
  BY DEF TypeOK, StoreTypeOK, EarnedInv, Document, Execution
<1>1. /\ \A v \in Workers \ {w} : exec'[v] = exec[v] /\ JobOf(v)' = JobOf(v)
      /\ exec'[w].pc \in {"failRead", "failWrite"} => JobOf(w)' = JobOf(w)
  BY WorkersFrame DEF JobOf
<1>2. Unread(j) \in Nat /\ Unread(j)' = Unread(j) + Bit(Reading(w, j)') - Bit(Reading(w, j))
  BY <1>1, UnreadStep
(* It neither adds to the failures nor to what was counted of them. *)
<1>a. ASSUME handled'[j].failed = handled[j].failed, docs'[j].attempts = docs[j].attempts,
             Reading(w, j)' => Reading(w, j),
             exec'[w].pc = "failWrite" /\ JobOf(w)' = j => exec[w].pc = "failWrite" /\ JobOf(w) = j
                                                         /\ exec'[w].next = exec[w].next
      PROVE  Counted(j)'
  <2>1. Unread(j)' \in Int /\ Unread(j)' <= Unread(j)
    BY <1>2, <1>a DEF Bit
  <2> QED
    BY <1>0, <1>1, <1>2, <1>a, <2>1 DEF Counted
<1>3. CASE j # JobOf(w)
  <2>1. docs'[j] = docs[j] /\ handled'[j] = handled[j]
    BY <1>3, WorkersFrame
  <2> QED
    BY <1>1, <1>3, <1>a, <2>1 DEF Reading
<1>4. CASE j = JobOf(w) /\ HandlerFails(w)
  <2>1. exec[w].pc = "handle" /\ exec'[w].pc = "failRead" /\ docs' = docs
    BY <1>4, Moves DEF HandlerFails, Stages, store
  <2>2. handled'[j].failed = handled[j].failed + 1
    BY <1>0, <1>4 DEF HandlerFails
  <2>3. Unread(j)' = Unread(j) + 1
    BY <1>1, <1>2, <1>4, <2>1 DEF Reading, Bit
  <2> QED
    BY <1>0, <1>1, <1>2, <2>1, <2>2, <2>3 DEF Counted
<1>5. CASE j = JobOf(w) /\ MarkFailedRead(w)
  <2>1. exec[w].pc = "failRead" /\ docs' = docs /\ handled' = handled
    BY <1>5 DEF MarkFailedRead, store
  <2>2. \/ exec'[w].pc = "failWrite" /\ exec'[w].next = docs[j].attempts + 1
        \/ exec'[w].pc = "commit"
    <3>1. exec[w] \in Execution
      BY <1>0
    <3>2. CASE Return(w)
      BY <3>2, Moves
    <3>3. CASE exec' = [exec EXCEPT ![w] =
                 [@ EXCEPT !.pc = "failWrite", !.next = docs[JobOf(w)].attempts + 1]]
      BY <1>0, <1>5, <3>1, <3>3 DEF Execution
    <3> QED
      BY <1>5, <3>2, <3>3 DEF MarkFailedRead
  <2>3. Unread(j)' = Unread(j) - 1
    BY <1>2, <1>5, <2>1, <2>2 DEF Reading, Bit
  <2> QED
    BY <1>0, <1>1, <1>2, <2>1, <2>2, <2>3 DEF Counted
<1>6. CASE j = JobOf(w) /\ MarkFailedWrite(w)
  <2>1. exec[w].pc = "failWrite" /\ handled' = handled
    BY <1>6 DEF MarkFailedWrite
  <2>2. exec'[w].pc \notin {"failRead", "failWrite"}
    BY <1>6, <2>1, Turns DEF HandlerFails, MarkFailedRead
  <2>3. docs'[j].attempts \in {docs[j].attempts, exec[w].next}
    <3>1. ASSUME MarkFailed(j, exec[w].next, Backoff(exec[w].seen))
          PROVE  docs'[j].attempts = exec[w].next
      BY <1>0, <3>1 DEF MarkFailed, Updated, StoreTypeOK, Document
    <3> QED
      BY <1>6, <3>1 DEF MarkFailedWrite, store
  <2>4. Unread(j)' = Unread(j)
    BY <1>2, <2>1, <2>2 DEF Reading, Bit
  <2> QED
    BY <1>0, <1>1, <1>2, <1>6, <2>1, <2>2, <2>3, <2>4 DEF Counted
<1>7. CASE ~(HandlerFails(w) \/ MarkFailedRead(w) \/ MarkFailedWrite(w))
  <2>1. exec'[w].pc \notin {"failRead", "failWrite"}
    BY <1>7, Turns
  <2>2. handled'[j].failed = handled[j].failed
    BY <1>0, <1>7 DEF WorkerStep, ExecutorDies, Poll, Fetch, ExecMarkClaimed, ExecMarkRunning,
              HandlerSucceeds, ExecMarkCompleted, PublishDLQ, Commit
  <2>3. docs'[j].attempts = docs[j].attempts
    <3>1. ASSUME NEW k \in Jobs, MarkClaimed(k) \/ MarkRunning(k) \/ MarkCompleted(k)
          PROVE  docs'[j].attempts = docs[j].attempts
      BY <1>0, <3>1, StatusSet DEF MarkClaimed, MarkRunning, MarkCompleted, Statuses
    <3> QED
      BY <1>7, <3>1, JobOfType DEF WorkerStep, ExecutorDies, Poll, Fetch, ExecMarkClaimed,
         ExecMarkRunning, HandlerSucceeds, ExecMarkCompleted, PublishDLQ, Commit, store
  <2> QED
    BY <1>a, <2>1, <2>2, <2>3 DEF Reading
<1> QED
  BY <1>3, <1>4, <1>5, <1>6, <1>7

(* What an executor writes, its handler has earned. *)
LEMMA WorkersEarn ==
  ASSUME TypeOK, EarnedInv, NEW w \in Workers, WorkerStep(w) \/ ExecutorDies(w)
  PROVE  /\ \A j \in Jobs : Earned(j)'
         /\ \A v \in Workers : Succeeded(v)'
<1>0. /\ StoreTypeOK /\ handled \in [Jobs -> [ok: Nat, failed: Nat]]
      /\ \A j \in Jobs : docs[j] \in Document /\ handled[j].ok \in Nat /\ handled[j].failed \in Nat
  BY DEF TypeOK, StoreTypeOK
<1>1. ASSUME NEW j \in Jobs
      PROVE  /\ handled'[j].ok \in Nat /\ handled'[j].ok >= handled[j].ok
             /\ handled'[j].failed \in Nat /\ handled'[j].failed >= handled[j].failed
  <2>1. CASE handled' = handled
    BY <1>0, <2>1
  <2>2. CASE HandlerSucceeds(w) \/ HandlerFails(w)
    BY <1>0, <2>2 DEF HandlerSucceeds, HandlerFails
  <2> QED
    BY <2>1, <2>2 DEF WorkerStep, ExecutorDies, Poll, Fetch, ExecMarkClaimed, ExecMarkRunning,
         ExecMarkCompleted, MarkFailedRead, MarkFailedWrite, PublishDLQ, Commit
<1>2. ASSUME NEW j \in Jobs
      PROVE  Earned(j)'
  <2>0. Earned(j) /\ docs[j].maxAttempts \in Nat
    BY <1>0 DEF EarnedInv, Document
  <2>1. CASE docs'[j].status = docs[j].status /\ docs'[j].maxAttempts = docs[j].maxAttempts
    BY <1>0, <1>1, <2>0, <2>1 DEF Earned
  <2>2. CASE docs'[j].status \notin {"completed", "dlq"}
    BY <2>2 DEF Earned
  <2>3. ASSUME NEW s \in {"claimed", "running"}, NEW k \in Jobs, SetStatus(k, s)
        PROVE  Earned(j)'
    BY <1>0, <2>1, <2>2, <2>3, StatusSet DEF Statuses
  <2>4. CASE ExecMarkClaimed(w) \/ ExecMarkRunning(w)
    BY <2>1, <2>3, <2>4, JobOfType DEF ExecMarkClaimed, ExecMarkRunning, MarkClaimed, MarkRunning,
                                      store
  <2>5. CASE ExecMarkCompleted(w)
    <3>1. JobOf(w) \in Jobs /\ handled[JobOf(w)].ok > 0 /\ handled' = handled
      BY <2>5, JobOfType DEF ExecMarkCompleted, EarnedInv, Succeeded
    <3>2. ASSUME SetStatus(JobOf(w), "completed")
          PROVE  Earned(j)'
      <4>1. CASE j = JobOf(w)
        BY <1>0, <3>1, <3>2, <4>1, StatusSet DEF Statuses, Earned
      <4>2. CASE j # JobOf(w)
        BY <1>0, <2>1, <3>1, <3>2, <4>2, StatusSet DEF Statuses
      <4> QED
        BY <4>1, <4>2
    <3> QED
      BY <2>1, <2>5, <3>2 DEF ExecMarkCompleted, MarkCompleted, store
  <2>6. CASE MarkFailedWrite(w)
    <3>1. JobOf(w) \in Jobs /\ exec[w].pc = "failWrite" /\ handled' = handled
      BY <2>6, JobOfType DEF MarkFailedWrite
    <3>2. exec[w].next \in Nat /\ exec[w].next <= handled[JobOf(w)].failed
      <4>1. Unread(JobOf(w)) \in Nat
        <5>1. IsFiniteSet(WorkersAt({"failRead"}, JobOf(w)))
          BY PipelineAssumption, FS_Subset DEF WorkersAt
        <5> QED
          BY <5>1, FS_CardinalityType DEF Unread
      <4>2. exec[w].next \in Nat
        BY DEF TypeOK, Execution
      <4>3. exec[w].next + Unread(JobOf(w)) <= handled[JobOf(w)].failed
        BY <3>1 DEF EarnedInv, Counted
      <4> QED
        BY <1>0, <3>1, <4>1, <4>2, <4>3
    <3>3. ASSUME MarkFailed(JobOf(w), exec[w].next, Backoff(exec[w].seen)), j = JobOf(w)
          PROVE  Earned(j)'
      <4>1. /\ docs'[j].maxAttempts = docs[j].maxAttempts
            /\ docs'[j].status = IF exec[w].next >= docs[j].maxAttempts THEN "dlq" ELSE "pending"
        BY <1>0, <3>3 DEF MarkFailed, Updated, StoreTypeOK, Document
      <4> QED
        BY <1>0, <2>0, <3>1, <3>2, <3>3, <4>1 DEF Earned
    <3>4. CASE j # JobOf(w)
      BY <2>1, <3>4, WorkersFrame
    <3> QED
      BY <2>1, <2>6, <3>3, <3>4 DEF MarkFailedWrite, store
  <2> QED
    BY <2>1, <2>4, <2>5, <2>6
       DEF WorkerStep, ExecutorDies, Poll, Fetch, HandlerSucceeds, HandlerFails, MarkFailedRead,
           PublishDLQ, Commit, store
<1>3. ASSUME NEW v \in Workers, exec'[v].pc = "complete"
      PROVE  handled'[JobOf(v)'].ok > 0
  <2>1. CASE v = w
    <3>1. HandlerSucceeds(w) /\ JobOf(w)' = JobOf(w)
      BY <1>3, <2>1, Turns DEF JobOf
    <3>2. JobOf(w) \in Jobs
      BY <3>1, JobOfType DEF HandlerSucceeds
    <3>3. handled'[JobOf(w)].ok = handled[JobOf(w)].ok + 1
      BY <1>0, <3>1, <3>2 DEF HandlerSucceeds
    <3> QED
      BY <1>0, <2>1, <3>1, <3>2, <3>3
  <2>2. CASE v # w
    <3>1. exec'[v] = exec[v] /\ JobOf(v)' = JobOf(v)
      BY <2>2, WorkersFrame DEF JobOf
    <3>2. JobOf(v) \in Jobs /\ handled[JobOf(v)].ok > 0
      BY <1>3, <3>1, JobOfType DEF EarnedInv, Succeeded
    <3> QED
      BY <1>0, <1>1, <3>1, <3>2
  <2> QED
    BY <2>1, <2>2
<1> QED
  BY <1>2, <1>3 DEF Succeeded

(* The counts and the verdicts hold together in every reachable state. *)
LEMMA EarnedCorrect == Spec => []EarnedInv
<1>1. Init => EarnedInv
  <2> SUFFICES ASSUME Init
               PROVE  EarnedInv
    OBVIOUS
  <2>1. \A w \in Workers : exec[w].pc = "poll"
    BY DEF Init, Waiting
  <2>2. ASSUME NEW j \in Jobs
        PROVE  Unread(j) = 0
    <3>1. WorkersAt({"failRead"}, j) = {}
      BY <2>1 DEF WorkersAt
    <3> QED
      BY <3>1, FS_EmptySet DEF Unread
  <2>3. ASSUME NEW j \in Jobs
        PROVE  Counted(j) /\ Earned(j)
    BY <2>1, <2>2 DEF Init, StoreInit, Counted, Earned
  <2> QED
    BY <2>1, <2>3 DEF EarnedInv, Succeeded
<1>2. TypeOK /\ EarnedInv /\ [Next]_vars => EarnedInv'
  BY WorkersCount, WorkersEarn, OthersEarn DEF EarnedInv
<1> QED
  BY <1>1, <1>2, TypeCorrect, PTL DEF Spec

(* MarkFailed reads and writes in two calls (jobs_repo.go:158-181), so counts *)
(* are lost under stalls and overlaps, but none is ever made up.              *)
THEOREM FailuresCountedOnce == Spec => []FailuresCounted
<1>1. EarnedInv => FailuresCounted
  BY DEF EarnedInv, Counted, FailuresCounted, Unread, WorkersAt
<1> QED
  BY <1>1, EarnedCorrect, PTL

(* Therefore no verdict comes early, whoever stalls and writes late: a job is *)
(* "completed" only after a success and "dlq" only after maxAttempts failures *)
(* of its handler (runner.go:58-76, jobs_repo.go:149-181).                    *)
THEOREM VerdictsNotEarly == Spec => []VerdictsEarned
<1>1. EarnedInv => VerdictsEarned
  BY DEF EarnedInv, Earned, VerdictsEarned
<1> QED
  BY <1>1, EarnedCorrect, PTL
=============================================================================
