------------------------------ MODULE Pipeline ------------------------------
(***************************************************************************)
(* The path of a one-off job: the API inserts it (or a scheduler, as an    *)
(* instance of a recurring job), a scheduler loop claims it and publishes  *)
(* a dispatch message, a consumer of the executor group runs it, the       *)
(* reaper returns to pending what got stuck on the way.                    *)
(*                                                                         *)
(* Whether a scheduler leads is not represented: any of them may tick at   *)
(* any time, which covers every leadership pattern, two leaders included.  *)
(*                                                                         *)
(* A record is what one claim leads to: [job, claim], the claim counted by *)
(* the ledger.  It identifies the batch entry, the dispatch goroutine and  *)
(* the Kafka record; the code sees its job only.                           *)
(*                                                                         *)
(* Fault stands for what the environment may do to a call: a Mongo or      *)
(* Kafka call that returns an error, having taken effect or not, or a      *)
(* process that dies between two calls.  MaxFaults bounds how many happen. *)
(***************************************************************************)
EXTENDS JobStore, FiniteSets

CONSTANTS
  Schedulers,   \* scheduler processes
  Workers,      \* executor processes, each a member of the consumer group
  BatchSize,    \* the limit a tick passes to ClaimDueJobs (20 in the code)
  ExecTimeout,  \* the deadline of a handler's context (2 minutes in the code)
  MaxFaults,    \* bound: how many faults happen
  NoRecord      \* what an executor holds between two records

Records == [job: Jobs, claim: 1..MaxClaims]

ASSUME PipelineAssumption ==
  /\ IsFiniteSet(Workers)
  /\ BatchSize \in Nat \ {0}
  /\ ExecTimeout \in Nat
  /\ MaxFaults \in Nat
  /\ NoRecord \notin Records

VARIABLES
  batch,     \* per scheduler: claimed by the current tick, not yet handed on
  outbox,    \* per scheduler: dispatch goroutines that have not published yet
  topic,     \* records of the dispatch topic
  committed, \* those below the offset the consumer group committed
  dlqTopic,  \* jobs with a message on the dead-letter topic
  exec,      \* per executor: where it is, the record it handles, what it read
  handled,   \* history, per job: how often its handler succeeded and failed
  faults     \* faults so far

kafka == <<topic, committed, dlqTopic>>
sched == <<batch, outbox>>
vars == <<docs, ledger, batch, outbox, topic, committed, dlqTopic, exec, handled, faults>>

(* seen is the attempt count of the document the message handler fetched,   *)
(* next the new count MarkFailed computed from its own read.                *)
Stages == {"poll", "fetch", "claim", "mark", "handle", "complete",
           "failRead", "failWrite", "deadLetter", "commit"}
Execution == [pc: Stages, rec: Records \cup {NoRecord}, seen: Nat, next: Nat]
Waiting == [pc |-> "poll", rec |-> NoRecord, seen |-> 0, next |-> 0]

TypeOK ==
  /\ StoreTypeOK
  /\ batch \in [Schedulers -> SUBSET Records]
  /\ outbox \in [Schedulers -> SUBSET Records]
  /\ topic \in SUBSET Records
  /\ committed \in SUBSET Records
  /\ dlqTopic \in SUBSET Jobs
  /\ exec \in [Workers -> Execution]
  /\ \A w \in Workers : exec[w].pc # "poll" => exec[w].rec \in Records
  /\ handled \in [Jobs -> [ok: Nat, failed: Nat]]
  /\ faults \in 0..MaxFaults

Init ==
  /\ StoreInit
  /\ batch = [s \in Schedulers |-> {}]
  /\ outbox = [s \in Schedulers |-> {}]
  /\ topic = {} /\ committed = {}
  /\ dlqTopic = {}
  /\ exec = [w \in Workers |-> Waiting]
  /\ handled = [j \in Jobs |-> [ok |-> 0, failed |-> 0]]
  /\ faults = 0

Fault == faults < MaxFaults /\ faults' = faults + 1

-----------------------------------------------------------------------------
(* POST /jobs without a cron expression. *)
CreateJob(j) ==
  /\ \E requested \in RequestedAttempts, delay \in FirstDelays : Create(j, requested, delay)
  /\ UNCHANGED <<sched, kafka, exec, handled, faults>>

(* handleCronJob inserts an instance and starts its dispatch goroutine; the    *)
(* template is module Cron's.  It returns before the goroutine if the insert  *)
(* reports an error, or if the template's expression no longer parses.        *)
SpawnInstance(s, j) ==
  /\ \E requested \in RequestedAttempts : SpawnCronInstance(j, requested)
  /\ \/ /\ outbox' = [outbox EXCEPT ![s] = @ \cup {[job |-> j, claim |-> ledger[j].claims + 1]}]
        /\ UNCHANGED faults
     \/ Fault /\ UNCHANGED outbox
  /\ UNCHANGED <<batch, kafka, exec, handled>>

-----------------------------------------------------------------------------
(* The scheduler loop.  A tick claims documents one by one until none is due  *)
(* or the batch is full, then starts a dispatch goroutine for each.           *)
ClaimNext(s) ==
  /\ Cardinality(batch[s]) < BatchSize
  /\ \E j \in Jobs :
       /\ ClaimDueJob(j)
       /\ batch' = [batch EXCEPT ![s] = @ \cup {[job |-> j, claim |-> ledger[j].claims + 1]}]
  /\ UNCHANGED <<outbox, kafka, exec, handled, faults>>

DispatchBatch(s) ==
  /\ batch[s] # {}
  /\ Cardinality(batch[s]) = BatchSize \/ ~ \E j \in Jobs : Due(j)
  /\ outbox' = [outbox EXCEPT ![s] = @ \cup batch[s]]
  /\ batch' = [batch EXCEPT ![s] = {}]
  /\ UNCHANGED <<store, kafka, exec, handled, faults>>

(* ClaimDueJobs returns an error: the tick returns and drops what it had      *)
(* claimed so far, with or without one more document flipped by the lost call. *)
ClaimFails(s) ==
  /\ Fault
  /\ \/ \E j \in Jobs : ClaimDueJob(j)
     \/ batch[s] # {} /\ UNCHANGED store
  /\ batch' = [batch EXCEPT ![s] = {}]
  /\ UNCHANGED <<outbox, kafka, exec, handled>>

Publish(s, r) ==
  /\ r \in outbox[s]
  /\ outbox' = [outbox EXCEPT ![s] = @ \ {r}]
  /\ \/ topic' = topic \cup {r} /\ UNCHANGED faults
     \/ Fault /\ (topic' = topic \/ topic' = topic \cup {r})
  /\ UNCHANGED <<store, batch, committed, dlqTopic, exec, handled>>

SchedulerDies(s) ==
  /\ Fault
  /\ batch[s] \cup outbox[s] # {}
  /\ batch' = [batch EXCEPT ![s] = {}]
  /\ outbox' = [outbox EXCEPT ![s] = {}]
  /\ UNCHANGED <<store, kafka, exec, handled>>

-----------------------------------------------------------------------------
(* The executor, of the consumer group what module Delivery promises: after a *)
(* rebalance a second member may handle a record that the first handles too,  *)
(* or has committed since the second one polled it.                           *)
JobOf(w) == exec[w].rec.job
Goto(w, pc) == exec' = [exec EXCEPT ![w].pc = pc]
Return(w) == exec' = [exec EXCEPT ![w] = [@ EXCEPT !.pc = "commit", !.seen = 0, !.next = 0]]

Poll(w, r) ==
  /\ exec[w].pc = "poll"
  /\ r \in topic
  /\ exec' = [exec EXCEPT ![w] = [@ EXCEPT !.pc = "fetch", !.rec = r]]
  /\ UNCHANGED <<store, sched, kafka, handled, faults>>

(* The message handler of cmd/executor: GetByID; an error skips the message. *)
Fetch(w) ==
  /\ exec[w].pc = "fetch"
  /\ \/ /\ exec' = [exec EXCEPT ![w] =
               [@ EXCEPT !.pc = "claim", !.seen = docs[JobOf(w)].attempts]]
        /\ UNCHANGED faults
     \/ Fault /\ Return(w)
  /\ UNCHANGED <<store, sched, kafka, handled>>

(* Runner.Execute: MarkClaimed; any error, no match included, returns. *)
ExecMarkClaimed(w) ==
  /\ exec[w].pc = "claim"
  /\ \/ MarkClaimed(JobOf(w)) /\ Goto(w, "mark") /\ UNCHANGED faults
     \/ docs[JobOf(w)].status # "queued" /\ Return(w) /\ UNCHANGED <<store, faults>>
     \/ Fault /\ Return(w) /\ (MarkClaimed(JobOf(w)) \/ UNCHANGED store)
  /\ UNCHANGED <<sched, kafka, handled>>

ExecMarkRunning(w) ==
  /\ exec[w].pc = "mark"
  /\ \/ MarkRunning(JobOf(w)) /\ Goto(w, "handle") /\ UNCHANGED faults
     \/ Fault /\ Return(w) /\ (MarkRunning(JobOf(w)) \/ UNCHANGED store)
  /\ UNCHANGED <<sched, kafka, handled>>

(* The handler returns; a job type without a handler fails the same way. *)
HandlerSucceeds(w) ==
  /\ exec[w].pc = "handle"
  /\ handled' = [handled EXCEPT ![JobOf(w)].ok = @ + 1]
  /\ Goto(w, "complete")
  /\ UNCHANGED <<store, sched, kafka, faults>>

HandlerFails(w) ==
  /\ exec[w].pc = "handle"
  /\ handled' = [handled EXCEPT ![JobOf(w)].failed = @ + 1]
  /\ Goto(w, "failRead")
  /\ UNCHANGED <<store, sched, kafka, faults>>

ExecMarkCompleted(w) ==
  /\ exec[w].pc = "complete"
  /\ Return(w)
  /\ \/ MarkCompleted(JobOf(w)) /\ UNCHANGED faults
     \/ Fault /\ (MarkCompleted(JobOf(w)) \/ UNCHANGED store)
  /\ UNCHANGED <<sched, kafka, handled>>

(* MarkFailed reads the document ... *)
MarkFailedRead(w) ==
  /\ exec[w].pc = "failRead"
  /\ \/ /\ exec' = [exec EXCEPT ![w] =
               [@ EXCEPT !.pc = "failWrite", !.next = docs[JobOf(w)].attempts + 1]]
        /\ UNCHANGED faults
     \/ Fault /\ Return(w)
  /\ UNCHANGED <<store, sched, kafka, handled>>

(* exponentialBackoff: 2^attempt seconds, at most BackoffCap. *)
Backoff(attempt) == IF 2^attempt \in 1..BackoffCap THEN 2^attempt ELSE BackoffCap

(* Mutant: the last retry is taken for the last attempt. *)
ExhaustedOneEarly(w) == exec[w].seen + 2 >= docs[JobOf(w)].maxAttempts

(* Runner.fail decides from the document fetched before the claim whether to  *)
(* publish to the dead-letter topic (maxAttempts never changes).              *)
Exhausted(w) == exec[w].seen + 1 >= docs[JobOf(w)].maxAttempts

(* ... and writes it, with a backoff computed from the fetched document too.  *)
MarkFailedWrite(w) ==
  LET j == JobOf(w)
      Write == MarkFailed(j, exec[w].next, Backoff(exec[w].seen))
  IN
  /\ exec[w].pc = "failWrite"
  /\ \/ /\ Write
        /\ UNCHANGED faults
        /\ IF Exhausted(w)
           THEN exec' = [exec EXCEPT ![w] = [@ EXCEPT !.pc = "deadLetter", !.seen = 0, !.next = 0]]
           ELSE Return(w)
     \/ Fault /\ Return(w) /\ (Write \/ UNCHANGED store)
  /\ UNCHANGED <<sched, kafka, handled>>

PublishDLQ(w) ==
  /\ exec[w].pc = "deadLetter"
  /\ Return(w)
  /\ \/ dlqTopic' = dlqTopic \cup {JobOf(w)} /\ UNCHANGED faults
     \/ Fault /\ (dlqTopic' = dlqTopic \/ dlqTopic' = dlqTopic \cup {JobOf(w)})
  /\ UNCHANGED <<store, sched, topic, committed, handled>>

(* CommitUncommittedOffsets.  Without it (it failed, or the batch polled      *)
(* together goes on) the record stays up for redelivery.                      *)
Commit(w) ==
  /\ exec[w].pc = "commit"
  /\ exec' = [exec EXCEPT ![w] = Waiting]
  /\ \/ committed' = committed \cup {exec[w].rec} /\ UNCHANGED faults
     \/ Fault /\ UNCHANGED committed
  /\ UNCHANGED <<store, sched, topic, dlqTopic, handled>>

ExecutorDies(w) ==
  /\ Fault
  /\ exec[w].pc # "poll"
  /\ exec' = [exec EXCEPT ![w] = Waiting]
  /\ UNCHANGED <<store, sched, kafka, handled>>

-----------------------------------------------------------------------------
(* The reaper.  A sweep that fails changes nothing and is repeated. *)
Reap(j) ==
  /\ SweepStuckJobs(j) \/ SweepStuckQueuedJobs(j)
  /\ UNCHANGED <<sched, kafka, exec, handled, faults>>

Tick == Elapse /\ UNCHANGED <<sched, kafka, exec, handled, faults>>

SchedulerStep(s) ==
  ClaimNext(s) \/ DispatchBatch(s) \/ ClaimFails(s) \/ \E r \in outbox[s] : Publish(s, r)

WorkerStep(w) ==
  \/ \E r \in topic : Poll(w, r)
  \/ Fetch(w)
  \/ ExecMarkClaimed(w)
  \/ ExecMarkRunning(w)
  \/ HandlerSucceeds(w)
  \/ HandlerFails(w)
  \/ ExecMarkCompleted(w)
  \/ MarkFailedRead(w)
  \/ MarkFailedWrite(w)
  \/ PublishDLQ(w)
  \/ Commit(w)

Step ==
  \/ \E j \in Jobs : CreateJob(j) \/ Reap(j)
  \/ \E s \in Schedulers : SchedulerStep(s) \/ SchedulerDies(s)
  \/ \E s \in Schedulers, j \in Jobs : SpawnInstance(s, j)
  \/ \E w \in Workers : WorkerStep(w) \/ ExecutorDies(w)

Next == Step \/ Tick
Spec == Init /\ [][Next]_vars

-----------------------------------------------------------------------------
(* Executors working for job j at one of the given points. *)
WorkersAt(stages, j) == {w \in Workers : exec[w].pc \in stages /\ JobOf(w) = j}

(***************************************************************************)
(* A job is final for a reason: it is "completed" only if its handler      *)
(* succeeded, and "dlq" only if its handler failed maxAttempts times.      *)
(* MarkFailed (jobs_repo.go:158-181) reads and writes in two calls, and a  *)
(* swept executor may still write; the lost updates and late writes this   *)
(* allows never make a verdict come too early.                             *)
(***************************************************************************)
VerdictsEarned ==
  \A j \in Jobs :
    /\ docs[j].status = "completed" => handled[j].ok > 0
    /\ docs[j].status = "dlq" => handled[j].failed >= docs[j].maxAttempts

(***************************************************************************)
(* Why: a count that is written, or about to be, leaves out the failures   *)
(* whose read is still to come.                                            *)
(***************************************************************************)
FailuresCounted ==
  \A j \in Jobs :
    LET unread == Cardinality(WorkersAt({"failRead"}, j)) IN
    /\ docs[j].attempts + unread <= handled[j].failed
    /\ \A w \in WorkersAt({"failWrite"}, j) : exec[w].next + unread <= handled[j].failed

(***************************************************************************)
(* A job that was dead-lettered is not claimed again.  (The integration    *)
(* test retry_dlq_test.go:80 says so of the scheduler, README.md:193 of    *)
(* the system.)  MarkRunning and MarkFailed match by _id alone, so an      *)
(* executor the reaper gave up on can take the job out of "dlq".           *)
(***************************************************************************)
DeadLetteredNeverReclaimed ==
  \A j \in Jobs : docs[j].status = "queued" => ~ledger[j].dead

(***************************************************************************)
(* Once the executor that dead-lettered a job has moved on, the job is on  *)
(* the dead-letter topic, or some call failed on the way.  (topics.go:18,  *)
(* README.md:22.)  Runner.fail decides to publish from the document it was *)
(* handed, MarkFailed decides on "dlq" from the one it reads.              *)
(***************************************************************************)
DeadLettersPublished ==
  \A j \in Jobs :
    docs[j].status = "dlq" /\ WorkersAt({"deadLetter"}, j) = {} /\ faults = 0
      => j \in dlqTopic
=============================================================================
