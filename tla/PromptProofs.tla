---------------------------- MODULE PromptProofs ----------------------------
(***************************************************************************)
(* Theorems about the pipeline when delivery is prompt too: the reaper     *)
(* acts on lost work only.                                                 *)
(***************************************************************************)
EXTENDS PunctualProofs

(* Records a scheduler has claimed and not published. *)
Out(s) == batch[s] \cup outbox[s]

Issued(r) == r.claim <= ledger[r.job].claims

(* A record is in one place until it is published, and a claim makes a new   *)
(* one.                                                                      *)
RecordsInv ==
  /\ \A s \in Schedulers : \A r \in Out(s) : Issued(r) /\ r \notin topic
  /\ \A r \in topic : Issued(r)
  /\ \A s \in Schedulers : batch[s] \cap outbox[s] = {}
  /\ \A s, t \in Schedulers : s # t => Out(s) \cap Out(t) = {}
  /\ committed \subseteq topic
  /\ \A w \in Workers : exec[w].pc # "poll" => exec[w].rec \in topic

(* No update takes a claim back. *)
LEMMA ClaimsGrow ==
  ASSUME StoreTypeOK, StoreStep \/ UNCHANGED store, NEW k \in Jobs
  PROVE  ledger'[k].claims \in Nat /\ ledger[k].claims <= ledger'[k].claims
<1>0. ledger \in [Jobs -> Entry] /\ ledger[k] \in Entry /\ ledger[k].claims \in Nat
  BY StoreAssumption DEF StoreTypeOK, Entry
<1>1. CASE ledger' = ledger
  BY <1>0, <1>1
<1>2. ASSUME NEW j \in Jobs,
             \/ ledger' = [ledger EXCEPT ![j].claims = @ + 1]
             \/ ledger' = [ledger EXCEPT ![j].starts = @ + 1]
             \/ ledger' = [ledger EXCEPT ![j].retries = @ + 1]
             \/ ledger' = [ledger EXCEPT ![j].sweeps = @ + 1]
             \/ ledger' = [ledger EXCEPT ![j].dead = TRUE]
      PROVE  ledger'[k].claims \in Nat /\ ledger[k].claims <= ledger'[k].claims
  BY <1>0, <1>2 DEF Entry
<1> QED
  BY <1>1, <1>2 DEF StoreStep, Create, SpawnCronInstance, ClaimDueJob, MarkClaimed, MarkRunning,
     MarkCompleted, MarkFailed, SweepStuckJobs, SweepStuckQueuedJobs, Sweep, Elapse, store

(* A claim issues a record that is nowhere yet. *)
LEMMA NewRecord ==
  ASSUME TypeOK, RecordsInv, NEW j \in Jobs
  PROVE  LET n == [job |-> j, claim |-> ledger[j].claims + 1] IN
         n \notin topic /\ \A s \in Schedulers : n \notin Out(s)
<1>1. ledger[j].claims \in Nat
  BY StoreAssumption DEF TypeOK, StoreTypeOK, Entry
<1> QED
  BY <1>1 DEF RecordsInv, Issued

(* Nothing is published at the start. *)
LEMMA RecordsInit == Init => RecordsInv
BY DEF Init, RecordsInv, Out, Waiting

(* The producers and consumers move records without ever doubling one. *)
LEMMA RecordsStep == TypeOK /\ RecordsInv /\ [Next]_vars => RecordsInv'
<1> SUFFICES ASSUME TypeOK, RecordsInv, [Next]_vars
             PROVE  RecordsInv'
  OBVIOUS
<1>0. /\ batch \in [Schedulers -> SUBSET Records] /\ outbox \in [Schedulers -> SUBSET Records]
      /\ topic \in SUBSET Records /\ exec \in [Workers -> Execution] /\ StoreTypeOK
  BY DEF TypeOK
<1>i. ASSUME NEW r \in Records, Issued(r)
      PROVE  Issued(r)'
  <2>1. r.job \in Jobs /\ r.claim \in Nat
    BY StoreAssumption DEF Records
  <2>2. /\ ledger'[r.job].claims \in Nat /\ ledger[r.job].claims <= ledger'[r.job].claims
        /\ ledger[r.job].claims \in Nat
    BY <1>0, <2>1, StoreOnly, ClaimsGrow, StoreAssumption DEF StoreTypeOK, Entry
  <2> QED
    BY <1>i, <2>1, <2>2 DEF Issued
<1>o. ASSUME NEW s \in Schedulers, NEW r \in Out(s)
      PROVE  r \in Records
  BY <1>0 DEF Out
(* What an executor does. *)
<1>w. ASSUME NEW w \in Workers, WorkerStep(w) \/ ExecutorDies(w)
      PROVE  RecordsInv'
  <2>1. batch' = batch /\ outbox' = outbox /\ topic' = topic
    BY <1>w DEF WorkerStep, ExecutorDies, Poll, Fetch, ExecMarkClaimed, ExecMarkRunning,
                HandlerSucceeds, HandlerFails, ExecMarkCompleted, MarkFailedRead,
                MarkFailedWrite, PublishDLQ, Commit, kafka, sched
  <2>2. committed' \subseteq topic
    BY <1>w DEF RecordsInv, WorkerStep, ExecutorDies, Poll, Fetch, ExecMarkClaimed,
                ExecMarkRunning, HandlerSucceeds, HandlerFails, ExecMarkCompleted,
                MarkFailedRead, MarkFailedWrite, PublishDLQ, Commit, kafka
  <2>3. \A v \in Workers \ {w} : exec'[v] = exec[v]
    BY <1>0, <1>w DEF WorkerStep, ExecutorDies, Poll, Fetch, ExecMarkClaimed, ExecMarkRunning,
                HandlerSucceeds, HandlerFails, ExecMarkCompleted, MarkFailedRead,
                MarkFailedWrite, PublishDLQ, Commit, Goto, Return
  <2>4. exec'[w].pc # "poll" => exec'[w].rec \in topic
    <3>1. ASSUME NEW r \in topic, Poll(w, r)
          PROVE  exec'[w].rec \in topic
      BY <1>0, <3>1 DEF Poll, Execution
    <3>2. ASSUME ~ \E r \in topic : Poll(w, r)
          PROVE  exec[w].pc # "poll" /\ exec'[w].pc # "fetch"
      BY <1>w, <3>2, Turns DEF WorkerStep, ExecutorDies, Fetch, ExecMarkClaimed, ExecMarkRunning,
           HandlerSucceeds, HandlerFails, ExecMarkCompleted, MarkFailedRead, MarkFailedWrite,
           PublishDLQ, Commit
    <3> QED
      BY <1>w, <3>1, <3>2, Turns DEF RecordsInv
  <2>5. ASSUME NEW s \in Schedulers
        PROVE  Out(s)' = Out(s)
    BY <2>1 DEF Out
  <2>6. \A s \in Schedulers : \A r \in Out(s)' : Issued(r)' /\ r \notin topic'
    BY <1>i, <1>o, <2>1, <2>5 DEF RecordsInv
  <2>7. \A r \in topic' : Issued(r)'
    BY <1>0, <1>i, <2>1 DEF RecordsInv
  <2> QED
    BY <2>1, <2>2, <2>3, <2>4, <2>5, <2>6, <2>7 DEF RecordsInv
(* Everyone else leaves executors and offsets alone. *)
<1>e. ASSUME ~ \E w \in Workers : WorkerStep(w) \/ ExecutorDies(w)
      PROVE  exec' = exec /\ committed' = committed
  BY <1>e DEF Next, Step, Tick, CreateJob, Reap, SchedulerStep, SchedulerDies, ClaimNext,
     DispatchBatch, ClaimFails, Publish, SpawnInstance, kafka, vars
(* Records are handed on, within a scheduler, or dropped. *)
<1>1. ASSUME NEW s \in Schedulers, exec' = exec, committed' = committed, topic' = topic,
             \A t \in Schedulers \ {s} : Out(t)' = Out(t) /\ batch'[t] \cap outbox'[t] = {},
             Out(s)' \subseteq Out(s), batch'[s] \cap outbox'[s] = {}
      PROVE  RecordsInv'
  <2>1. \A t \in Schedulers : Out(t)' \subseteq Out(t) /\ batch'[t] \cap outbox'[t] = {}
    BY <1>1
  <2>2. \A t \in Schedulers : \A r \in Out(t)' : Issued(r)' /\ r \notin topic'
    BY <1>i, <1>o, <1>1, <2>1 DEF RecordsInv
  <2>3. \A r \in topic' : Issued(r)'
    BY <1>0, <1>i, <1>1 DEF RecordsInv
  <2> QED
    BY <1>1, <2>1, <2>2, <2>3 DEF RecordsInv
(* A claim adds a new record to those of a scheduler. *)
<1>2. ASSUME NEW s \in Schedulers, NEW j \in Jobs, NEW n,
             n = [job |-> j, claim |-> ledger[j].claims + 1],
             ledger' = [ledger EXCEPT ![j].claims = @ + 1], ledger[j].claims < MaxClaims,
             exec' = exec, committed' = committed, topic' = topic,
             \/ batch' = [batch EXCEPT ![s] = @ \cup {n}] /\ outbox' = outbox
             \/ outbox' = [outbox EXCEPT ![s] = @ \cup {n}] /\ batch' = batch
      PROVE  RecordsInv'
  <2>1. n \notin topic /\ \A t \in Schedulers : n \notin Out(t)
    BY <1>2, NewRecord
  <2>2. /\ \A t \in Schedulers \ {s} : Out(t)' = Out(t) /\ batch'[t] \cap outbox'[t] = {}
        /\ Out(s)' = Out(s) \cup {n} /\ batch'[s] \cap outbox'[s] = {}
    BY <1>0, <1>2, <2>1 DEF Out, RecordsInv
  <2>3. Issued(n)'
    BY <1>0, <1>2, StoreAssumption DEF Issued, StoreTypeOK, Entry
  <2>4. \A t \in Schedulers : \A r \in Out(t)' : Issued(r)' /\ r \notin topic'
    BY <1>i, <1>o, <1>2, <2>1, <2>2, <2>3 DEF RecordsInv
  <2>5. \A r \in topic' : Issued(r)'
    BY <1>0, <1>i, <1>2 DEF RecordsInv
  <2> QED
    BY <1>2, <2>1, <2>2, <2>4, <2>5 DEF RecordsInv
<1>3. ASSUME NEW s \in Schedulers, ClaimNext(s)
      PROVE  RecordsInv'
  <2> PICK j \in Jobs : ClaimDueJob(j) /\ batch' = [batch EXCEPT ![s] =
                              @ \cup {[job |-> j, claim |-> ledger[j].claims + 1]}]
    BY <1>3 DEF ClaimNext
  <2> QED
    BY <1>2, <1>3 DEF ClaimNext, ClaimDueJob, First, Due, kafka
<1>4. ASSUME NEW s \in Schedulers, DispatchBatch(s) \/ ClaimFails(s) \/ SchedulerDies(s)
      PROVE  RecordsInv'
  <2>1. exec' = exec /\ committed' = committed /\ topic' = topic
    BY <1>4 DEF DispatchBatch, ClaimFails, SchedulerDies, kafka
  <2>2. /\ \A t \in Schedulers \ {s} : Out(t)' = Out(t) /\ batch'[t] \cap outbox'[t] = {}
        /\ Out(s)' \subseteq Out(s) /\ batch'[s] \cap outbox'[s] = {}
    BY <1>0, <1>4 DEF DispatchBatch, ClaimFails, SchedulerDies, Out, RecordsInv
  <2> QED
    BY <1>1, <2>1, <2>2
<1>5. ASSUME NEW s \in Schedulers, NEW r \in outbox[s], Publish(s, r)
      PROVE  RecordsInv'
  <2>0. exec' = exec /\ committed' = committed /\ batch' = batch
        /\ outbox' = [outbox EXCEPT ![s] = @ \ {r}]
        /\ (topic' = topic \/ topic' = topic \cup {r}) /\ r \in Out(s) /\ r \in Records
    BY <1>0, <1>5 DEF Publish, Out
  <2>1. /\ \A t \in Schedulers \ {s} : Out(t)' = Out(t) /\ batch'[t] \cap outbox'[t] = {}
        /\ Out(s)' = Out(s) \ {r} /\ batch'[s] \cap outbox'[s] = {}
    BY <1>0, <1>5, <2>0 DEF Out, RecordsInv
  <2>2. \A t \in Schedulers : r \notin Out(t)'
    BY <2>0, <2>1 DEF RecordsInv
  <2>3. \A t \in Schedulers : \A q \in Out(t)' : Issued(q)' /\ q \notin topic'
    BY <1>i, <1>o, <2>0, <2>1, <2>2 DEF RecordsInv
  <2>4. \A q \in topic' : Issued(q)'
    BY <1>0, <1>i, <2>0 DEF RecordsInv
  <2> QED
    BY <2>0, <2>1, <2>3, <2>4 DEF RecordsInv
<1>6. ASSUME NEW s \in Schedulers, NEW j \in Jobs, SpawnInstance(s, j)
      PROVE  RecordsInv'
  <2>0. exec' = exec /\ committed' = committed /\ topic' = topic /\ batch' = batch
    BY <1>6 DEF SpawnInstance, kafka
  <2>1. CASE outbox' = [outbox EXCEPT ![s] = @ \cup {[job |-> j, claim |-> ledger[j].claims + 1]}]
    BY <1>2, <1>6, <2>0, <2>1 DEF SpawnInstance, SpawnCronInstance
  <2>2. CASE outbox' = outbox
    BY <1>1, <2>0, <2>2 DEF Out, RecordsInv
  <2> QED
    BY <1>6, <2>1, <2>2 DEF SpawnInstance
<1>7. ASSUME UNCHANGED <<batch, outbox, topic>>, exec' = exec, committed' = committed
      PROVE  RecordsInv'
  <2>1. \A s \in Schedulers : \A r \in Out(s)' : Issued(r)' /\ r \notin topic'
    BY <1>i, <1>o, <1>7 DEF RecordsInv, Out
  <2>2. \A r \in topic' : Issued(r)'
    BY <1>0, <1>i, <1>7 DEF RecordsInv
  <2> QED
    BY <1>7, <2>1, <2>2 DEF RecordsInv, Out
<1>8. CASE Tick \/ UNCHANGED vars \/ \E j \in Jobs : CreateJob(j) \/ Reap(j)
  BY <1>7, <1>8 DEF Tick, CreateJob, Reap, kafka, sched, vars
<1> QED
  BY <1>w, <1>3, <1>4, <1>5, <1>6, <1>8 DEF Next, Step, SchedulerStep

-----------------------------------------------------------------------------
(* The record that stands for the latest claim of job j. *)
Current(j) == [job |-> j, claim |-> ledger[j].claims]

(* An executor is done with the record of job j's latest claim. *)
Dismissed(j) == \E w \in Workers : exec[w].pc = "commit" /\ exec[w].rec = Current(j)

(* Nobody is going to do anything for job j until the reaper does. *)
Lost(j) ==
  \/ docs[j].status = "queued" /\ (~Live(j) \/ Dismissed(j))
  \/ docs[j].status \in {"claimed", "running"} /\ ~At(Engaged, j)

SweptForFaults(j) == ledger[j].sweeps + Bit(Lost(j)) <= faults
Young(j) == docs[j].status = "queued" /\ Live(j) => docs[j].idle + Skew < QueuedTimeout
Retried(j) == ledger[j].retries + Bit(docs[j].status = "dlq") = docs[j].attempts

PromptInv == \A j \in Jobs : SweptForFaults(j) /\ Young(j) /\ Retried(j)

(* The types the next proofs keep needing. *)
LEMMA Counts ==
  ASSUME TypeOK, NEW j \in Jobs
  PROVE  /\ ledger[j].claims \in Nat /\ ledger[j].sweeps \in Nat /\ ledger[j].retries \in Nat
         /\ docs[j].attempts \in Nat /\ docs[j].maxAttempts \in Nat /\ docs[j].idle \in Nat
         /\ docs[j].status \in Statuses /\ faults \in Nat
BY StoreAssumption DEF TypeOK, StoreTypeOK, Entry, Document

(* A record that reaches no executor any more stays out of reach: a new one   *)
(* takes a new claim.                                                         *)
LEMMA LiveOnce ==
  ASSUME HoldInv, RecordsInv, [PunctualNext]_vars, NEW k \in Jobs,
         ledger'[k].claims = ledger[k].claims, Live(k)'
  PROVE  Live(k)
<1> DEFINE r == [job |-> k, claim |-> ledger[k].claims]
<1>0. /\ batch \in [Schedulers -> SUBSET Records] /\ outbox \in [Schedulers -> SUBSET Records]
      /\ ledger[k].claims \in Nat /\ ledger \in [Jobs -> Entry]
  BY Counts DEF HoldInv, TypeOK, StoreTypeOK
<1>1. r \in topic' \ committed' \/ \E s \in Schedulers : r \in batch'[s] \cup outbox'[s]
  BY DEF Live
<1>n. ASSUME NEW j \in Jobs, ledger' = [ledger EXCEPT ![j].claims = @ + 1]
      PROVE  r # [job |-> j, claim |-> ledger[j].claims + 1]
  BY <1>0, <1>n
<1>c. ASSUME UNCHANGED <<batch, outbox, topic>>, committed \subseteq committed'
      PROVE  Live(k)
  BY <1>1, <1>c DEF Live
<1>2. ASSUME NEW w \in Workers, WorkerStep(w) \/ ExecutorDies(w)
      PROVE  Live(k)
  BY <1>2, <1>c DEF WorkerStep, ExecutorDies, Poll, Fetch, ExecMarkClaimed, ExecMarkRunning,
                HandlerSucceeds, HandlerFails, ExecMarkCompleted, MarkFailedRead,
                MarkFailedWrite, PublishDLQ, Commit, kafka, sched
<1>3. ASSUME NEW s \in Schedulers, ClaimNext(s)
      PROVE  Live(k)
  <2>1. PICK j \in Jobs : ClaimDueJob(j) /\ batch' = [batch EXCEPT ![s] =
                              @ \cup {[job |-> j, claim |-> ledger[j].claims + 1]}]
    BY <1>3 DEF ClaimNext
  <2>2. r # [job |-> j, claim |-> ledger[j].claims + 1]
    BY <1>n, <2>1 DEF ClaimDueJob
  <2> QED
    BY <1>0, <1>1, <1>3, <2>1, <2>2 DEF ClaimNext, Live, kafka
<1>4. ASSUME NEW s \in Schedulers, DispatchBatch(s) \/ ClaimFails(s) \/ SchedulerDies(s)
      PROVE  Live(k)
  BY <1>0, <1>1, <1>4 DEF DispatchBatch, ClaimFails, SchedulerDies, Live, kafka
<1>5. ASSUME NEW s \in Schedulers, NEW q \in outbox[s], Publish(s, q)
      PROVE  Live(k)
  BY <1>0, <1>1, <1>5 DEF Publish, Live
<1>6. ASSUME NEW s \in Schedulers, NEW j \in Jobs, SpawnInstance(s, j)
      PROVE  Live(k)
  <2>1. r # [job |-> j, claim |-> ledger[j].claims + 1]
    BY <1>n, <1>6 DEF SpawnInstance, SpawnCronInstance
  <2> QED
    BY <1>0, <1>1, <1>6, <2>1 DEF SpawnInstance, Live, kafka
<1>7. CASE Tick \/ UNCHANGED vars \/ \E j \in Jobs : CreateJob(j) \/ Reap(j)
  BY <1>7, <1>c DEF Tick, CreateJob, Reap, kafka, sched, vars
<1> QED
  BY <1>2, <1>3, <1>4, <1>5, <1>6, <1>7 DEF PunctualNext, Step, SchedulerStep

(* Without a fault a record stays within reach until an executor commits it. *)
LEMMA LiveStays ==
  ASSUME HoldInv, RecordsInv, [PunctualNext]_vars, NEW k \in Jobs, faults' = faults,
         ledger'[k].claims = ledger[k].claims, Live(k), ~Dismissed(k)
  PROVE  Live(k)'
<1> DEFINE r == [job |-> k, claim |-> ledger[k].claims]
<1>0. /\ batch \in [Schedulers -> SUBSET Records] /\ outbox \in [Schedulers -> SUBSET Records]
      /\ faults \in Nat
  BY DEF HoldInv, TypeOK
<1>1. r \in topic \ committed \/ \E s \in Schedulers : r \in batch[s] \cup outbox[s]
  BY DEF Live
<1>f. ~Fault
  BY <1>0 DEF Fault
<1>c. ASSUME UNCHANGED <<batch, outbox, topic>>, r \notin committed' \/ r \in committed
      PROVE  Live(k)'
  BY <1>1, <1>c DEF Live
<1>2. ASSUME NEW w \in Workers, WorkerStep(w) \/ ExecutorDies(w)
      PROVE  Live(k)'
  <2>1. UNCHANGED <<batch, outbox, topic>>
    BY <1>2 DEF WorkerStep, ExecutorDies, Poll, Fetch, ExecMarkClaimed, ExecMarkRunning,
                HandlerSucceeds, HandlerFails, ExecMarkCompleted, MarkFailedRead,
                MarkFailedWrite, PublishDLQ, Commit, kafka, sched
  <2>2. CASE committed' = committed
    BY <1>c, <2>1, <2>2
  <2>3. CASE Commit(w)
    BY <1>c, <2>1, <2>3 DEF Commit, Dismissed, Current
  <2> QED
    BY <1>2, <2>2, <2>3 DEF WorkerStep, ExecutorDies, Poll, Fetch, ExecMarkClaimed,
       ExecMarkRunning, HandlerSucceeds, HandlerFails, ExecMarkCompleted, MarkFailedRead,
       MarkFailedWrite, PublishDLQ, kafka
<1>3. ASSUME NEW s \in Schedulers, ClaimNext(s) \/ DispatchBatch(s)
      PROVE  Live(k)'
  BY <1>0, <1>1, <1>3 DEF ClaimNext, DispatchBatch, Live, kafka
<1>4. ASSUME NEW s \in Schedulers, ClaimFails(s) \/ SchedulerDies(s)
      PROVE  FALSE
  BY <1>f, <1>4 DEF ClaimFails, SchedulerDies
<1>5. ASSUME NEW s \in Schedulers, NEW q \in outbox[s], Publish(s, q)
      PROVE  Live(k)'
  <2>1. q \notin committed
    BY <1>5 DEF RecordsInv, Out
  <2>2. /\ topic' = topic \cup {q} /\ outbox' = [outbox EXCEPT ![s] = @ \ {q}]
        /\ batch' = batch /\ committed' = committed
    BY <1>f, <1>5 DEF Publish
  <2> QED
    BY <1>0, <1>1, <2>1, <2>2 DEF Live
<1>6. ASSUME NEW s \in Schedulers, NEW j \in Jobs, SpawnInstance(s, j)
      PROVE  Live(k)'
  BY <1>0, <1>1, <1>6 DEF SpawnInstance, Live, kafka
<1>7. CASE Tick \/ UNCHANGED vars \/ \E j \in Jobs : CreateJob(j) \/ Reap(j)
  BY <1>7, <1>c DEF Tick, CreateJob, Reap, kafka, sched, vars
<1> QED
  BY <1>2, <1>3, <1>4, <1>5, <1>6, <1>7 DEF PunctualNext, Step, SchedulerStep

-----------------------------------------------------------------------------
(* Prompt delivery is one more restriction on the same pipeline. *)
LEMMA Restricted ==
  /\ [PromptNext]_vars => [PunctualNext]_vars
  /\ [PunctualNext]_vars => [Next]_vars
BY DEF PromptNext, PromptTick, PunctualNext, Next

(* Faults come one at a time. *)
LEMMA FaultsStep ==
  ASSUME HoldInv, [PunctualNext]_vars
  PROVE  faults' \in {faults, faults + 1}
<1>1. ASSUME NEW w \in Workers, WorkerStep(w) \/ ExecutorDies(w)
      PROVE  faults' \in {faults, faults + 1}
  BY <1>1, WorkersFrame DEF HoldInv
<1> QED
  BY <1>1
     DEF PunctualNext, Step, Tick, CreateJob, Reap, SchedulerStep, SchedulerDies, ClaimNext,
         DispatchBatch, ClaimFails, Publish, SpawnInstance, Fault, vars

(* A job that is not the one that moves. *)
LEMMA OtherJob ==
  ASSUME NEW j \in Jobs, OneMoves(j), NEW k \in Jobs \ {j}
  PROVE  docs'[k] = docs[k] /\ ledger'[k] = ledger[k]
BY DEF OneMoves

(* MarkFailed counts an attempt and retries, or counts it and gives up. *)
LEMMA RetriedStep ==
  ASSUME HoldInv, [PunctualNext]_vars, NEW k \in Jobs, Retried(k)
  PROVE  Retried(k)'
<1>0. TypeOK /\ Budgeted(docs[k])
  BY DEF HoldInv
<1>1. CASE NoneMoves
  BY <1>1 DEF NoneMoves, Same, Retried
<1>2. CASE OneMoves(k)
  <2>1. ledger'[k].retries = ledger[k].retries
          + Bit(docs'[k].status = "pending" /\ docs'[k].attempts # docs[k].attempts)
    BY <1>2 DEF OneMoves, Noted
  <2>2. CASE docs'[k].attempts = docs[k].attempts
    <3>1. docs[k].status # "dlq" /\ docs'[k].status # "dlq"
      BY <1>0, <1>2, <2>2, Counts DEF OneMoves, Progress, Submitted, Moved, Failed
    <3> QED
      BY <1>0, <2>1, <2>2, <3>1, Counts DEF Retried, Bit
  <2>3. CASE docs'[k].attempts # docs[k].attempts
    <3>1. /\ docs[k].status = "running" /\ docs'[k].attempts = docs[k].attempts + 1
          /\ docs'[k].status \in {"dlq", "pending"}
      BY <1>2, <2>3 DEF OneMoves, Progress, Submitted, Moved, Failed
    <3> QED
      BY <1>0, <2>1, <2>3, <3>1, Counts DEF Retried, Bit
  <2> QED
    BY <2>2, <2>3
<1>3. ASSUME NEW j \in Jobs, j # k, OneMoves(j)
      PROVE  Retried(k)'
  BY <1>3, OtherJob DEF Retried
<1> QED
  BY <1>1, <1>2, <1>3, JobsMove

(* What is queued and under way is young: it became queued just now, or time  *)
(* passed as Prompt lets it.                                                  *)
LEMMA YoungStep ==
  ASSUME HoldInv, RecordsInv, [PromptNext]_vars, NEW k \in Jobs, Young(k)
  PROVE  Young(k)'
<1> SUFFICES ASSUME docs'[k].status = "queued", Live(k)'
             PROVE  docs'[k].idle + Skew < QueuedTimeout
  BY DEF Young
<1>0. TypeOK /\ [PunctualNext]_vars
  BY Restricted DEF HoldInv
<1>1. ASSUME docs'[k] = docs[k], ledger'[k] = ledger[k]
      PROVE  docs'[k].idle + Skew < QueuedTimeout
  BY <1>0, <1>1, LiveOnce DEF Young
<1>2. CASE UNCHANGED store \/ UNCHANGED vars
  BY <1>1, <1>2 DEF store, vars
<1>3. CASE PromptTick
  <2>1. docs[k].status = "queued" /\ ledger' = ledger
    BY <1>3, TickMoves DEF PromptTick, NoneMoves, Same
  <2>2. docs[k].idle + 1 + Skew < QueuedTimeout
    BY <1>0, <1>3, <2>1, LiveOnce DEF PromptTick, Prompt
  <2>3. docs'[k].idle \in {docs[k].idle, docs[k].idle + 1}
    <3>1. docs[k] \in Document
      BY <1>0 DEF TypeOK, StoreTypeOK
    <3> QED
      BY <1>3, <3>1 DEF PromptTick, Tick, Elapse, Document
  <2> QED
    BY <1>0, <2>2, <2>3, Counts, StoreAssumption
<1>4. CASE OneMoves(k)
  BY <1>4, StoreAssumption, TimeoutAssumption DEF OneMoves, Noted
<1>5. ASSUME NEW j \in Jobs, j # k, OneMoves(j)
      PROVE  docs'[k].idle + Skew < QueuedTimeout
  BY <1>1, <1>5, OtherJob
<1> QED
  BY <1>2, <1>3, <1>4, <1>5, StepMoves DEF PromptNext

(* An executor that takes a job, or has it, goes on with it unless a call     *)
(* fails or the document says it is done.                                     *)
LEMMA EngagedStay ==
  ASSUME HoldInv, NEW w \in Workers, WorkerStep(w) \/ ExecutorDies(w), faults' = faults,
         JobOf(w) \in Jobs, docs'[JobOf(w)].status \in {"claimed", "running"},
         exec[w].pc \in Engaged \/ docs' # docs
  PROVE  exec'[w].pc \in Engaged /\ JobOf(w)' = JobOf(w)
<1> DEFINE j == JobOf(w)
<1>0. TypeOK /\ StoreTypeOK /\ ~Fault
  BY DEF HoldInv, TypeOK, Fault
<1>1. ASSUME NEW p \in Engaged, exec'[w].pc = p
      PROVE  exec'[w].pc \in Engaged /\ JobOf(w)' = JobOf(w)
  BY <1>0, <1>1, Turns DEF Engaged, InCall, JobOf
<1>2. CASE ExecMarkClaimed(w) \/ ExecMarkRunning(w)
  <2>1. CASE ExecMarkClaimed(w)
    <3>1. exec[w].pc \notin Engaged
      BY <2>1 DEF ExecMarkClaimed, Engaged, InCall
    <3>2. Goto(w, "mark")
      BY <1>0, <2>1, <3>1 DEF ExecMarkClaimed, store
    <3> QED
      BY <1>0, <1>1, <3>2, Moves DEF Stages, Engaged, InCall
  <2>2. CASE ExecMarkRunning(w)
    BY <1>0, <1>1, <2>2, Moves DEF ExecMarkRunning, Stages, Engaged, InCall
  <2> QED
    BY <1>2, <2>1, <2>2
<1>3. CASE HandlerSucceeds(w) \/ HandlerFails(w)
  BY <1>0, <1>1, <1>3, Moves DEF HandlerSucceeds, HandlerFails, Stages, Engaged, InCall
<1>4. CASE MarkFailedRead(w)
  <2>1. exec[w] \in Execution /\ exec \in [Workers -> Execution]
    BY <1>0 DEF TypeOK
  <2>2. exec'[w].pc = "failWrite"
    BY <1>0, <1>4, <2>1 DEF MarkFailedRead, Execution
  <2> QED
    BY <1>1, <2>2 DEF Engaged, InCall
<1>5. CASE ExecMarkCompleted(w)
  <2>1. docs'[j].status = "completed"
    BY <1>0, <1>5, StatusSet DEF ExecMarkCompleted, MarkCompleted, Statuses
  <2> QED
    BY <2>1
<1>6. CASE MarkFailedWrite(w)
  <2>1. MarkFailed(j, exec[w].next, Backoff(exec[w].seen))
    BY <1>0, <1>6 DEF MarkFailedWrite
  <2>2. docs'[j].status \in {"dlq", "pending"}
    BY <1>0, <2>1 DEF MarkFailed, Updated, StoreTypeOK, Document
  <2> QED
    BY <2>2
<1>7. CASE \/ \E r \in topic : Poll(w, r)
           \/ Fetch(w) \/ PublishDLQ(w) \/ Commit(w)
  BY <1>7 DEF Poll, Fetch, PublishDLQ, Commit, store, Engaged, InCall
<1>8. ~ExecutorDies(w)
  BY <1>0 DEF ExecutorDies
<1> QED
  BY <1>2, <1>3, <1>4, <1>5, <1>6, <1>7, <1>8 DEF WorkerStep

(* An executor is not done with a record while its job is still "queued",     *)
(* unless a call fails.                                                       *)
LEMMA ReturnsSettled ==
  ASSUME HoldInv, DeadLetterTopicSound, NEW w \in Workers,
         WorkerStep(w) \/ ExecutorDies(w), faults' = faults,
         exec'[w].pc = "commit"
  PROVE  docs[JobOf(w)].status # "queued"
<1>0. /\ TypeOK /\ ~Fault /\ Held(w)
      /\ exec[w] \in Execution /\ exec \in [Workers -> Execution]
  BY DEF HoldInv, TypeOK, Fault
<1>1. CASE exec[w].pc \in Engaged
  BY <1>0, <1>1 DEF Held
<1>2. CASE PublishDLQ(w)
  BY <1>0, <1>2, JobOfType DEF PublishDLQ, DeadLetterTopicSound, WorkersAt
<1>3. CASE ExecMarkClaimed(w)
  BY <1>0, <1>3, Moves DEF ExecMarkClaimed, Stages
<1>4. CASE \/ ExecMarkRunning(w) \/ HandlerSucceeds(w) \/ HandlerFails(w)
           \/ ExecMarkCompleted(w) \/ MarkFailedRead(w) \/ MarkFailedWrite(w)
  BY <1>1, <1>4 DEF ExecMarkRunning, HandlerSucceeds, HandlerFails, ExecMarkCompleted,
                    MarkFailedRead, MarkFailedWrite, Engaged, InCall
<1>5. ASSUME NEW r \in topic, Poll(w, r)
      PROVE  FALSE
  BY <1>0, <1>5 DEF Poll, Execution
<1>6. ~Fetch(w)
  BY <1>0 DEF Fetch, Execution
<1>7. ~Commit(w) /\ ~ExecutorDies(w)
  BY <1>0 DEF Commit, ExecutorDies, Waiting
<1> QED
  BY <1>2, <1>3, <1>4, <1>5, <1>6, <1>7 DEF WorkerStep

(* Without a fault a claim leaves a record on its way.  *)
LEMMA ClaimsIssue ==
  ASSUME HoldInv, [PunctualNext]_vars, NEW k \in Jobs, faults' = faults,
         ledger'[k].claims # ledger[k].claims
  PROVE  exec' = exec /\ topic' = topic /\ Live(k)'
<1>0. /\ batch \in [Schedulers -> SUBSET Records] /\ outbox \in [Schedulers -> SUBSET Records]
      /\ ledger \in [Jobs -> Entry] /\ TypeOK /\ ~Fault
  BY DEF HoldInv, TypeOK, StoreTypeOK, Fault
<1>1. ASSUME NEW j \in Jobs, ledger' = [ledger EXCEPT ![j].claims = @ + 1]
      PROVE  j = k /\ ledger'[k].claims = ledger[k].claims + 1
  BY <1>0, <1>1 DEF Entry
<1>2. ASSUME NEW j \in Jobs,
             \/ ledger' = [ledger EXCEPT ![j].starts = @ + 1]
             \/ ledger' = [ledger EXCEPT ![j].retries = @ + 1]
             \/ ledger' = [ledger EXCEPT ![j].sweeps = @ + 1]
             \/ ledger' = [ledger EXCEPT ![j].dead = TRUE]
      PROVE  FALSE
  BY <1>0, <1>2 DEF Entry
<1>3. ledger' # ledger
  OBVIOUS
<1>4. ASSUME NEW s \in Schedulers, ClaimNext(s)
      PROVE  exec' = exec /\ topic' = topic /\ Live(k)'
  <2>1. PICK j \in Jobs : ClaimDueJob(j) /\ batch' = [batch EXCEPT ![s] =
                              @ \cup {[job |-> j, claim |-> ledger[j].claims + 1]}]
    BY <1>4 DEF ClaimNext
  <2>2. j = k /\ ledger'[k].claims = ledger[k].claims + 1
    BY <1>1, <2>1 DEF ClaimDueJob
  <2>3. [job |-> k, claim |-> ledger'[k].claims] \in batch'[s]
    BY <1>0, <2>1, <2>2
  <2> QED
    BY <1>4, <2>3 DEF ClaimNext, kafka, Live
<1>5. ASSUME NEW s \in Schedulers, NEW j \in Jobs, SpawnInstance(s, j)
      PROVE  exec' = exec /\ topic' = topic /\ Live(k)'
  <2>1. j = k /\ ledger'[k].claims = ledger[k].claims + 1
    BY <1>1, <1>5 DEF SpawnInstance, SpawnCronInstance
  <2>2. [job |-> k, claim |-> ledger'[k].claims] \in outbox'[s]
    BY <1>0, <1>5, <2>1 DEF SpawnInstance
  <2> QED
    BY <1>5, <2>2 DEF SpawnInstance, kafka, Live
<1>6. ASSUME NEW s \in Schedulers,
             DispatchBatch(s) \/ ClaimFails(s) \/ SchedulerDies(s) \/ \E r \in outbox[s] : Publish(s, r)
      PROVE  FALSE
  BY <1>0, <1>3, <1>6 DEF DispatchBatch, ClaimFails, SchedulerDies, Publish, store
<1>7. ASSUME NEW j \in Jobs, CreateJob(j) \/ Reap(j)
      PROVE  FALSE
  BY <1>2, <1>3, <1>7 DEF CreateJob, Create, Reap, SweepStuckJobs, SweepStuckQueuedJobs, Sweep
<1>8. ~(Tick \/ UNCHANGED vars)
  BY <1>3 DEF Tick, Elapse, vars
<1>9. ASSUME NEW w \in Workers, WorkerStep(w) \/ ExecutorDies(w)
      PROVE  FALSE
  <2>1. CASE ExecMarkClaimed(w)
    BY <1>0, <1>2, <1>3, <2>1, JobOfType DEF ExecMarkClaimed, MarkClaimed, store
  <2>2. CASE MarkFailedWrite(w)
    BY <1>0, <1>2, <1>3, <2>2, JobOfType DEF MarkFailedWrite, MarkFailed, store
  <2> QED
    BY <1>3, <1>9, <2>1, <2>2
       DEF WorkerStep, ExecutorDies, Poll, Fetch, ExecMarkRunning, HandlerSucceeds, HandlerFails,
           ExecMarkCompleted, MarkFailedRead, PublishDLQ, Commit, MarkRunning, MarkCompleted, store
<1> QED
  BY <1>4, <1>5, <1>6, <1>7, <1>8, <1>9 DEF PunctualNext, Step, SchedulerStep

(* A job that this step does not move is not lost by it, unless a call fails. *)
LEMMA LostBefore ==
  ASSUME HoldInv, DeadLetterTopicSound, RecordsInv, [PunctualNext]_vars, faults' = faults,
         NEW k \in Jobs, Same(docs[k], docs'[k]), ledger'[k] = ledger[k], Lost(k)'
  PROVE  Lost(k)
<1>0. TypeOK /\ docs'[k].status = docs[k].status /\ Current(k)' = Current(k)
  BY DEF HoldInv, Same, Current
<1>1. CASE docs[k].status = "queued"
  <2> SUFFICES ASSUME Live(k), ~Dismissed(k)
               PROVE  FALSE
    BY <1>1 DEF Lost
  <2>1. Live(k)'
    BY LiveStays
  <2>2. PICK w \in Workers : exec'[w].pc = "commit" /\ exec'[w].rec = Current(k)
    BY <1>0, <1>1, <2>1 DEF Lost, Dismissed
  <2>3. exec'[w] # exec[w]
    BY <2>2 DEF Dismissed
  <2>4. WorkerStep(w) \/ ExecutorDies(w)
    <3>1. PICK v \in Workers : WorkerStep(v) \/ ExecutorDies(v)
      BY <2>3, OthersFrame
    <3> QED
      BY <1>0, <2>3, <3>1, WorkersFrame
  <2>5. JobOf(w) = k
    BY <1>0, <2>2, <2>4, Turns DEF JobOf, Current
  <2> QED
    BY <1>1, <2>2, <2>4, <2>5, ReturnsSettled
<1>2. CASE docs[k].status \in {"claimed", "running"}
  <2> SUFFICES ASSUME NEW w \in Workers, exec[w].pc \in Engaged, JobOf(w) = k
               PROVE  FALSE
    BY <1>2 DEF Lost, At
  <2>1. ~(exec'[w].pc \in Engaged /\ JobOf(w)' = k)
    BY <1>0, <1>2 DEF Lost, At
  <2>2. WorkerStep(w) \/ ExecutorDies(w)
    <3>1. exec'[w] # exec[w]
      BY <2>1 DEF JobOf
    <3>2. PICK v \in Workers : WorkerStep(v) \/ ExecutorDies(v)
      BY <3>1, OthersFrame
    <3> QED
      BY <1>0, <3>1, <3>2, WorkersFrame
  <2> QED
    BY <1>0, <1>2, <2>1, <2>2, EngagedStay
<1> QED
  BY <1>0, <1>1, <1>2 DEF Lost

(* The reaper takes only what was lost: what is under way is younger than the *)
(* timeouts it compares with.                                                 *)
LEMMA ReapsLost ==
  ASSUME HoldInv, NEW k \in Jobs, Young(k), Reap(k)
  PROVE  Lost(k) /\ faults' = faults
<1>0. TypeOK /\ docs[k].idle \in Nat
  BY Counts DEF HoldInv
<1>1. ASSUME SweepStuckQueuedJobs(k)
      PROVE  Lost(k)
  BY <1>0, <1>1, StoreAssumption DEF SweepStuckQueuedJobs, Sweep, Young, Lost
<1>2. ASSUME SweepStuckJobs(k)
      PROVE  Lost(k)
  <2>1. docs[k].status \in {"claimed", "running"} /\ docs[k].idle + Skew >= ClaimTimeout
    BY <1>2 DEF SweepStuckJobs, Sweep
  <2>2. ~At(Engaged, k)
    BY <1>0, <2>1, StoreAssumption DEF At, HoldInv, Held
  <2> QED
    BY <2>1, <2>2 DEF Lost
<1>3. faults' = faults
  BY DEF Reap
<1> QED
  BY <1>1, <1>2, <1>3 DEF Reap

(* A job that this step moves is under way after it, unless a call fails.     *)
LEMMA MovedNotLost ==
  ASSUME HoldInv, RecordsInv, [PunctualNext]_vars, faults' = faults,
         NEW k \in Jobs, OneMoves(k)
  PROVE  ~Lost(k)'
<1>0. TypeOK /\ docs[k] \in Document /\ docs'[k] # docs[k]
  <2>1. TypeOK /\ docs[k] \in Document
    BY DEF HoldInv, TypeOK, StoreTypeOK
  <2>2. ~Same(docs[k], docs'[k])
    BY <2>1 DEF OneMoves, Progress, Submitted, Moved, Failed, Same, Document
  <2> QED
    BY <2>1, <2>2 DEF Same
<1>1. CASE docs'[k].status = "queued"
  <2>1. ledger'[k].claims = ledger[k].claims + 1
    BY <1>1 DEF OneMoves, Noted, Bit
  <2>2. exec' = exec /\ topic' = topic /\ Live(k)'
    BY <1>0, <2>1, ClaimsIssue, Counts
  <2>3. ~Dismissed(k)'
    <3> SUFFICES ASSUME NEW w \in Workers, exec[w].pc = "commit", exec[w].rec = Current(k)'
                 PROVE  FALSE
      BY <2>2 DEF Dismissed
    <3>1. Issued(exec[w].rec)
      BY DEF RecordsInv
    <3>2. ledger[k].claims + 1 <= ledger[k].claims
      BY <2>1, <3>1 DEF Issued, Current
    <3> QED
      BY <1>0, <3>2, Counts
  <2> QED
    BY <1>1, <2>2, <2>3 DEF Lost
<1>2. CASE docs'[k].status \in {"claimed", "running"}
  <2>1. PICK w \in Workers : WorkerStep(w) \/ ExecutorDies(w)
    <3> SUFFICES ASSUME ~ \E w \in Workers : WorkerStep(w) \/ ExecutorDies(w)
                 PROVE  FALSE
      OBVIOUS
    <3>1. CASE Tick
      BY <1>0, <3>1, TickMoves DEF NoneMoves, OneMoves, Progress, Submitted, Moved, Failed, Same,
         Document
    <3>2. CASE UNCHANGED vars
      BY <1>0, <3>2 DEF vars
    <3>3. ASSUME NEW j \in Jobs, OneMoves(j), docs'[j].status \in {"pending", "queued"}
          PROVE  FALSE
      BY <1>0, <1>2, <3>3, OtherJob
    <3> QED
      BY <1>0, <3>1, <3>2, <3>3, OthersMove DEF PunctualNext, Step, store
  <2>2. JobOf(w) \in Jobs /\ JobOf(w) = k
    BY <1>0, <2>1, WorkersMove, OtherJob DEF store
  <2>3. exec'[w].pc \in Engaged /\ JobOf(w)' = k
    BY <1>0, <1>2, <2>1, <2>2, EngagedStay
  <2> QED
    BY <1>2, <2>3 DEF Lost, At
<1> QED
  BY <1>1, <1>2 DEF Lost

(* Every sweep is paid for by a fault. *)
LEMMA SweptStep ==
  ASSUME HoldInv, DeadLetterTopicSound, RecordsInv, [PunctualNext]_vars,
         NEW k \in Jobs, Young(k), SweptForFaults(k)
  PROVE  SweptForFaults(k)'
<1>0. TypeOK /\ faults' \in {faults, faults + 1} /\ ledger[k].sweeps \in Nat /\ faults \in Nat
  BY FaultsStep, Counts DEF HoldInv
<1>1. ASSUME Same(docs[k], docs'[k]), ledger'[k] = ledger[k]
      PROVE  SweptForFaults(k)'
  BY <1>0, <1>1, LostBefore DEF SweptForFaults, Bit
<1>2. CASE OneMoves(k)
  <2> DEFINE swept == docs'[k].status = "pending" /\ docs[k].status \in Sweepable
                        /\ docs'[k].attempts = docs[k].attempts
  <2>1. ledger'[k].sweeps = ledger[k].sweeps + Bit(swept) /\ (swept => Reap(k))
    BY <1>2 DEF OneMoves, Noted
  <2>2. CASE swept
    <3>1. Lost(k) /\ faults' = faults
      BY <2>1, <2>2, ReapsLost
    <3>2. ~Lost(k)'
      BY <2>2 DEF Lost
    <3>3. ledger'[k].sweeps = ledger[k].sweeps + 1
      BY <2>1, <2>2 DEF Bit
    <3> QED
      BY <1>0, <3>1, <3>2, <3>3 DEF SweptForFaults, Bit
  <2>3. CASE ~swept
    <3>1. ledger'[k].sweeps = ledger[k].sweeps
      BY <1>0, <2>1, <2>3 DEF Bit
    <3>2. faults' = faults => ~Lost(k)'
      BY <1>2, MovedNotLost
    <3> QED
      BY <1>0, <3>1, <3>2 DEF SweptForFaults, Bit
  <2> QED
    BY <2>2, <2>3
<1>3. ASSUME NEW j \in Jobs, j # k, OneMoves(j)
      PROVE  SweptForFaults(k)'
  BY <1>1, <1>3, OtherJob DEF Same
<1> QED
  BY <1>1, <1>2, <1>3, JobsMove DEF NoneMoves

(* With prompt delivery the two sweeps (jobs_repo.go:183-196) only take back  *)
(* what a fault lost: without faults the reaper never acts, and a job is      *)
(* claimed at most maxAttempts times plus once per fault.                     *)
THEOREM SweepsBounded == PromptSpec => []SweepsAnswerFaults
<1>1. Init => RecordsInv /\ PromptInv
  <2> SUFFICES ASSUME Init
               PROVE  RecordsInv /\ PromptInv
    OBVIOUS
  <2>1. ASSUME NEW j \in Jobs
        PROVE  SweptForFaults(j) /\ Young(j) /\ Retried(j)
    BY DEF Init, StoreInit, SweptForFaults, Young, Retried, Lost, Bit
  <2> QED
    BY <2>1, RecordsInit DEF PromptInv
<1>2. PromptSpec => PunctualSpec /\ Spec
  BY Restricted, PTL DEF PromptSpec, PunctualSpec, Spec
<1>3. HoldInv /\ DeadLetterTopicSound /\ RecordsInv /\ PromptInv /\ [PromptNext]_vars
        => RecordsInv' /\ PromptInv'
  BY Restricted, RecordsStep, RetriedStep, YoungStep, SweptStep DEF PromptInv, HoldInv
<1>4. HoldInv /\ PromptInv /\ StartsWithinRecoveries => SweepsAnswerFaults
  <2> SUFFICES ASSUME HoldInv, PromptInv, StartsWithinRecoveries, NEW j \in Jobs
               PROVE  ledger[j].sweeps <= faults /\ ledger[j].claims <= docs[j].maxAttempts + faults
    BY DEF SweepsAnswerFaults
  <2>0. TypeOK /\ SweptForFaults(j) /\ Retried(j) /\ Budgeted(docs[j])
    BY DEF HoldInv, PromptInv
  <2>1. ledger[j].claims + Bit(docs[j].status = "pending")
          <= Bit(docs[j].status # "absent") + ledger[j].retries + ledger[j].sweeps
    BY DEF StartsWithinRecoveries
  <2> QED
    BY <2>0, <2>1, Counts DEF SweptForFaults, Retried, Budgeted, Bit
<1> QED
  BY <1>1, <1>2, <1>3, <1>4, HoldCorrect, DeadLettersSound, StartsBounded, PTL DEF PromptSpec
=============================================================================
