# A formal model of the job scheduler

TLA+ modules, TLC configurations and TLAPS proofs for the distributed job
scheduler of this repository (Go; MongoDB, Kafka, etcd). The modules are
translated from the code; where a document or comment says something else, the
difference is a run that finds a counterexample (section 6).

Run inside this directory: `tlc -config stalls.cfg MCPipeline`, `tlapm
PipelineProofs.tla`, and so on. Every run's module is named in section 4.

## 1. The system

| Component | Source | State | Operations |
|---|---|---|---|
| Job store | `internal/store/jobs_repo.go`, `models/job.go` | the `jobs` collection: status, attempts, maxAttempts, scheduledAt, updatedAt | Create, ClaimDueJobs, MarkClaimed, MarkRunning, MarkCompleted, MarkFailed, two sweeps, SpawnCronInstance, RescheduleCronTemplate, MarkCronInvalid, reads |
| API | `cmd/api`, `internal/api/handlers` | requests under way | start with EnsureIndexes, POST /jobs, GET /jobs/{id}, list |
| Scheduler loop | `cmd/scheduler`, `internal/scheduler/loop.go` | the batch of the current tick, the dispatch goroutines | tick: claim a batch; dispatch each job, or handle a recurring one |
| Recurring jobs | `internal/scheduler/cron.go`, `loop.go` | template documents | spawn an instance, reschedule, dead-letter |
| Leader election | `internal/scheduler/election.go`, `cmd/scheduler` | one etcd session per process | campaign, lead, step down, resign |
| Dispatch | `internal/dispatch` | Kafka topics: dispatch per job type, dead letters; group offsets; per member its partitions, polled offsets and batch | publish, poll, handle the batch, commit, close |
| Executor | `cmd/executor`, `internal/executor` | the record being handled and the document fetched for it | fetch, claim, run, complete or fail |
| Reaper | `cmd/reaper` | none | sweep claimed/running, sweep queued |
| Seed | `cmd/seed` | none | EnsureIndexes, Create per job |
| Load driver | `cmd/loadtest` | goroutines, two semaphores, jobs created, errors, a results map | send at a rate; poll until all are finished or time is up |
| Configuration, metrics, deployment | `internal/config`, `internal/observability`, `deployments` | - | - |

How they interact. The API inserts a `pending` document. The leader's loop flips
due documents to `queued` (one atomic `findOneAndUpdate` each) and starts a
goroutine per job that publishes a message naming the job. An executor of the
consumer group reads the message, fetches the document, compares-and-sets
`queued` to `claimed`, writes `running`, calls the handler and writes `completed`,
or `pending` with a backoff, or `dlq` (and then publishes a dead letter). The
reaper returns to `pending` what stayed `queued`, `claimed` or `running` too long.
The processes share nothing but Mongo, Kafka and etcd.

What is hard here:

* *Only two updates compare and set* (`ClaimDueJobs`, `MarkClaimed`). All later
  writes of an executor match by `_id` alone, and so do the writes of the cron path.
* *`MarkFailed` is a read and a write*; `Runner.fail` decides from a third, older copy.
* *Everything may be lost, late or repeated*: a claim without a message, a message
  delivered twice (offsets are committed per polled batch), an executor that stalls
  past `CLAIM_TIMEOUT` and goes on, a process that dies between any two calls.
* *Two schedulers may tick at once*, because leadership ends at etcd before the
  process knows.
* *A recurring job is two documents* updated by separate calls.
* *Clients repeat requests* whose answer they did not get, and the service may still be
  working on the earlier try; a unique index is all that tells them apart.
* *The load driver's goroutines* share a map that one of its readers does not lock.

What makes each component correct:

* store and executor: a job is worked on by one executor at a time; a verdict is
  earned and final; failures are counted; starts are bounded by recoveries;
* whole pipeline: every accepted job is resolved; the reaper acts on lost work only;
* recurring jobs: one instance per occurrence and when it comes, up to failed calls
  and stalls, firing goes on, broken templates end dead-lettered;
* election: etcd recognises one leader; leadership settles;
* consumer group: offsets pass settled records only, and every record is handled;
* API: one document per key, true answers, a repeated request settles;
* load driver: a true report, and an end.

`PROJECT.json` lists, under `hazards`, each place where this can go wrong with the
properties that would notice.

## 2. Modules and plan

| Module | Models | Used by |
|---|---|---|
| `JobStore` | the collection and its single-document updates | `Pipeline` extends it |
| `Pipeline` | one-off jobs and spawned instances from insert to verdict, with faults | `Punctual` extends it |
| `Punctual` | the same, when the timeouts mean what they should; fairness; refinement | `MCPipeline` |
| `JobContract` | abstract: what the owner of a job is promised | implemented by `Punctual`, relied on by `Submission` |
| `ConsumerGroup` | one topic and its group of executors: partitions, batches, offsets, membership | `MCConsumerGroup` |
| `Delivery` | abstract: what a topic promises | implemented by `ConsumerGroup`; what `Pipeline` assumes |
| `Cron` | the life of a template | - |
| `Submission` | the API, clients that repeat requests, the seed | `LoadDriver` extends it |
| `LoadDriver` | `cmd/loadtest` against the API | `MCLoadDriver` |
| `Election` | scheduler processes and etcd | `MCElection` |
| `StoreProofs` | lemmas about the updates of `JobStore` | `PipelineProofs` |
| `PipelineProofs`, `PunctualProofs`, `PromptProofs` | theorems about `Spec`, `PunctualSpec`, `PromptSpec` of the pipeline; each extends the one before | - |
| `GroupProofs`, `CronProofs`, `SubmissionProofs`, `ElectionProofs` | theorems about `ConsumerGroup`, `Cron`, `LoadDriver` (and with it `Submission`), `Election` | - |

The modules meet at two abstract specifications. `ConsumerGroup` shows that Kafka as
it is used here gives `Delivery`; the pipeline is built on no more. `Punctual` shows
that the pipeline gives `JobContract`; the jobs that clients of `Submission` and `LoadDriver` look
at move as it says, at any speed.

Of the properties of the passing runs all that are invariants, action properties or
refinements are theorems (section 5). What is left is liveness, which stays with TLC.

## 3. How the models correspond to the code

`map` in `PROJECT.json` names the lines of every definition. The decisions behind it:

**Documents** (`JobStore`). A document keeps status, attempts, maxAttempts, and two
relative times: `wait`, left until `scheduledAt`, and `idle`, since `updatedAt`. `idle` saturates at
the larger timeout and is followed only in the statuses the reaper looks at, so
the state stays finite without changing what any filter sees. A document that does not
exist has status "absent". `StatusFailed` is declared in the code and never written; it is not a
status of the model. `ledger` is history: claims, starts, retries,
sweeps, and whether the job was ever dead-lettered. `ClaimDueJobs` takes due
documents by descending priority; between equal priorities any may come first
(the code orders them by `scheduledAt`).

**One call, one step** (`Pipeline`). Each Mongo or Kafka call of a scheduler or an
executor is an action, so that another process may act between any two. What an
executor keeps across calls is its state: the record, the attempt count of the
document fetched first (`seen`), the count `MarkFailed` computed (`next`). A
handler may take any time; a missing handler fails like a failing one.

**Faults.** A call may return an error with or without having taken effect, and a
process may die between two calls. `MaxFaults` bounds how many; `faults` counts
them. Sweeps that fail are not represented (they change nothing and are
repeated). A call that takes effect after its caller gave up on it is represented
as taking effect before.

**Records.** A record is a pair of a job and the number of its claim, so two messages for one
job are different records; the code sees only the job. `topic` is a log and never shrinks. A record may be
handed to any number of executors at any time: before it is committed after a crash or a rebalance, and afterwards
to a member that had polled it before. Publishing to the dead-letter topic adds the job to a set.

**The group** (`ConsumerGroup`). A record is its place in a partition. `polled` is what is left of a
batch, handled in the order of each partition and in any order across partitions; `position` is the polled
offset, which `CommitUncommittedOffsets` sends for the partitions that are still the member's. A rebalance may come at
any point of `Run`, since the client is not told to wait for the end of a batch. `joined` is
the coordinator's view: a member that is no longer in it goes on until it learns, and none of its commits counts. SIGTERM
cancels the one context of the poll, the handlers and the commit: remaining records of the batch may be cut short, and
the commit fails with them. A handler either works on a record, passes it over for a reason (`skipped`: malformed, an id or a fetch that fails)
or is cut short.

**Leadership** is absent from `Pipeline` and `Cron`: any scheduler may tick at any
time. Whatever holds there holds whoever leads, so `Election` is checked on its own.

**Recurring jobs** (`Cron`). Time is cyclic with one occurrence per turn, and every
template has the expression "when the clock is 0". `NextOccurrence` is strictly
later than now, as in the cron library. A scheduler remembers the expression it read with the
claim; `EditExpression` is the hand edit that the comment on `MarkCronInvalid`
expects. The order insert, parse, reschedule is the code's: a template that does
not parse any more has already spawned an instance. `SpawnInstance` of `Pipeline` is the same call seen from the
instance. A unit of time that passes while a tick is under way, or passes over a due template (nobody leads) or one that the
reaper should have swept by then (`Overdue`), is a fault (`Stall`), so that the queued sweep can overtake a slow tick. The reaper comes at any
time between `QUEUED_TIMEOUT` and one sweep interval later. `began` and `missed` are history: an occurrence is missed if the clock
leaves it and no instance was inserted, even if one comes later. An occurrence that passes while a template is `queued`, as after a lost
reschedule, counts like any other. Templates of the seed fire once when they are created, off schedule, because that is the `scheduledAt` they get.

**Submission.** A request under way is a try of a caller. A caller that gave up does not take its try
back: the handler may insert the document later, even after the next try, unless its context ends first (`Cancelled`). An id is
the try that inserted the document. `Create` refuses a key that is taken only if the index exists; the seed and the API
build it first. A request is abstracted to its key, whether its names are there, whether its expression
is absent, parses or not, and whether it has a time. `Work` lets the jobs of `Watched` callers move as `JobContract` allows.

**LoadDriver.** The goroutines of the send phase are callers that try once; `Unfinished` are those that have not returned,
and each holds a semaphore slot. The main goroutine and the pollers of the completion phase interleave. A map access takes two
steps (lookup: `BeginLookup`, `EndLookup`; write: `BeginWrite`, `EndWrite`), and writers exclude
each other by the mutex. When a lookup begins during a write the outcomes are Go's: the runtime ends the program (`MapRace`), or the lookup
may miss an entry that is there, which only costs another poll.

**Election.** A session is a process and the number of its start. `ahead[n]` is the
set of keys created before n's that still exist; `Campaign` returns when it is
empty and, as the client library does, without looking at its own key.
Etcd's consensus is external: a lease is live or not, transactions are
atomic. `Cut` lets a lease expire and `session.Done()` close in either order and
at any distance. `Terminate` and `Crash` happen only to a process that can be
started again within `MaxStarts`.

Definitions preceded by "Mutant:" are not part of any specification. Each is the form
a plausible bug would give the definition it stands before, kept to show that a
property notices it (`mutants` in `PROJECT.json`).

## 4. What is checked

Passing runs:

| Run | Module, specification | Properties | Question |
|---|---|---|---|
| `stalls` | `MCPipeline`, `Spec` | `TypeOK`, `StartsWithinRecoveries`, `VerdictsEarned`, `FailuresCounted` | What holds with no assumption on time at all? |
| `punctual` | `MCPipeline`, `PunctualSpec` | `ExclusiveExecution`, `RunsWithinBudget`, `DeadLetterTopicSound`, `Final`, `ContractSpec` | What do the timeouts buy, with two schedulers at work? |
| `resolved` | `MCPipeline`, `FairSpec` | `SweepsAnswerFaults`, `EventuallyResolved` | Does the reaper act on lost work only, and is every job resolved? |
| `consumer_group` | `MCConsumerGroup`, `FairSpec` | `TypeOK`, `DeliverySpec`, `EventuallyHandled` | Does no record get passed over, and none stay behind? |
| `recurring` | `Cron`, `FairSpec` | `TypeOK`, `DuplicatesAnswerFaults`, `MissesAnswerFaults`, `FiresAgain`, `InvalidDeadLettered` | Once per occurrence, on time, for ever; do broken templates end? |
| `clients` | `MCLoadDriver`, `FairSpec` | `TypeOK`, `AnswersTrue`, `ReportTrue`, `RetriesSettle`, `DriverEnds` | Can callers, and the driver's report, be believed? |
| `election` | `MCElection`, `FairSpec` | `TypeOK`, `OneRecognisedLeader`, `LeadershipSettles` | Does etcd recognise one leader, and does leadership settle? |

`ContractSpec` is the refinement: with `Phase`, attempts and maxAttempts as the
mapping, every behaviour of the punctual pipeline is one of `JobContract`. The
sweep of a claimed job maps to Abandon, that of a queued one to a stutter.
`DeliverySpec` is the other refinement: what was published, settled and passed by the committed offsets
follows `Delivery`; in particular committed offsets never go back.

Violations (findings, section 6): `reclaimed_dead_letter`,
`unpublished_dead_letter`, `split_brain`, `lost_sessions`, `map_race`.

### Bounds, and why they are enough

* `MaxClaims` (2 to 4) bounds how often one job is handed out. Three allow an attempt that
  is swept, one that fails and one that exhausts a budget of two. In
  `resolved` it is the largest maxAttempts + MaxFaults, which `SweepsAnswerFaults` shows is never
  exceeded there: under `PromptSpec` the bound cuts nothing off.
* Two executors: the hazards are about an executor and its replacement. `punctual` has two schedulers over one
  job, because two processes that tick meet at one document. `resolved` has two jobs of different priority and claims one per
  tick, because jobs meet only in the claim order and in executors.
* `MaxFaults` 1 or 2: one lets any single call fail anywhere, two (`punctual`) let the recovery of
  the first fail too.
* Timeouts: the runner's 1, `QUEUED_TIMEOUT` 1 or 2, `CLAIM_TIMEOUT` 2 or 3, the backoff up to 2; only their order matters. `Skew` is by how much
  the reaper's clock is ahead of the writers': 1 in `punctual`, whose `CLAIM_TIMEOUT` exceeds the runner's 1 by more than that. A clock that is
  behind only delays sweeps, which the models allow anyway.
* `Election`: three processes started twice, one cut while their process lives; a chain of waiting processes
  needs three. With as many cuts as processes nobody may be left to lead (`lost_sessions`).
* `recurring`: a period of 3, `QUEUED_TIMEOUT` 1 and a sweep interval of 2, which together are the period, as 30 s and 30 s are the minute of
  the shortest expression: the latest sweep that is still in time. Two templates, so that one waits
  in a batch while the other is handled; `MaxFired` saturates the history counters above what `MaxFaults` allows. One stall is enough for the
  sweep to overtake a scheduler, and for a scheduler to compute the occurrence after the one it should.
* `consumer_group`: two partitions of two records and two members, so that a partition changes hands with none, one or both of its records
  handled; one record is malformed. One disturbance; publishing goes on meanwhile, so it may hit a group without a committed offset.
* `clients`: a driver that sends two requests one at a time and polls one job at a time in up to two rounds (a poller and the scan still overlap),
  a client with three tries that may use the key of the driver's first request or of the seed's job, may err or want a recurring job. One
  fault, so the client tries once more than can fail, as `RetriesSettle` asks. Only the driver's first job moves on (`Watched`); the other one
  is never finished and stands for those left over.
* Symmetry: executors (and schedulers) in the safety runs of the pipeline, schedulers in `split_brain`; nothing in those cfgs
  distinguishes them. No liveness run uses it.
* Deadlock is not checked where the system may rightly stop: once the starts and cuts of `Election`, the records of
  `ConsumerGroup`, or the requests of `LoadDriver` are used up.

### Assumptions on time, and fairness

`Spec` assumes nothing about time. `PunctualSpec` lets time pass only while no
handler is past its deadline (`Runner.Timeout`, enforced by the context the handler gets) and no
executor is about to let `CLAIM_TIMEOUT` pass between two of its own calls. The code does not
enforce the second part, nor that `CLAIM_TIMEOUT` is configured above the runner's two minutes; the
defaults (5 and 2 minutes) satisfy it. `Prompt` adds that a record that
was not lost reaches an executor within `QUEUED_TIMEOUT` (30 s), which a backlog on a topic may break.
In `Cron` time that passes during a tick counts as a fault: a tick takes
milliseconds, the unit of cron is a minute. So does time that passes while the reaper is away for longer than its interval.
`SweepAssumption` says that `QUEUED_TIMEOUT` and the sweep interval together are no more than the period; with 30 s each
(`config.go:39`, `cmd/reaper/main.go:16`) they are exactly the minute of the shortest expression, and the code does not check it. With a longer
`QUEUED_TIMEOUT` one lost update of a template that fires every minute costs it more than one occurrence.

`FairSpec` of the pipeline: weak fairness of each scheduler, each executor, each
job's sweeps and the clock. Tickers, the poll loop and a handler with a deadline
keep going for as long as the process lives, and the deployments restart dead ones. Nothing obliges a
handler to succeed, a client to create a job, or a fault to happen or not; faults
are finitely many. A process's next step stays enabled until it takes
one, so weak fairness suffices, except that an executor could choose stale records for ever: it polls
uncommitted ones with strong fairness, because what it polled before others committed it is a finite batch, and
`EventuallyHandled` of `ConsumerGroup` shows that the rest is reached. `FairSpec` of `ConsumerGroup`: members run their loop, rejoin and are restarted; the coordinator
rebalances and gives up on dead members. `FairSpec` of `Election`: processes go on and are restarted,
an unattended lease expires, a closed session is noticed. `FairSpec` of
`Cron`: schedulers, sweeps and the clock. `FairSpec` of `LoadDriver`: the service restarts and answers, goroutines run, clients with tries left repeat
what failed; the rest of the system need not finish any job, as `-maxwait` ends the polling.

## 5. What is proved

For every value of the constants that satisfies the named assumptions. `StoreAssumption`, `PipelineAssumption`,
`GroupAssumption`, `CronAssumption`, `ElectionAssumption`, `SubmissionAssumption` and `DriverAssumption` say that counters,
timeouts and the skew are natural numbers, bounds and timeouts positive, that there are finitely many executors, that callers
have requests and tries, and that the values for "none" are none of the others. `TimeoutAssumption` (of `Punctual` alone) says
that the runner's timeout and the skew together are below `CLAIM_TIMEOUT`, and the skew below `QUEUED_TIMEOUT`: 2 minutes (`runner.go:15`)
against 5 minutes and 30 s (`config.go:38-39`). `SweepAssumption` (of `Cron`, section 4) is used by `MissedOnlyForFaults` alone.

| Theorem | States | Inductive invariant |
|---|---|---|
| `PipelineProofs!TypeCorrect` | `Spec => []TypeOK` | itself |
| `PipelineProofs!StartsBounded` | `Spec => []StartsWithinRecoveries` | itself, with the types |
| `PipelineProofs!FailuresCountedOnce` | `Spec => []FailuresCounted` | `EarnedInv` |
| `PipelineProofs!VerdictsNotEarly` | `Spec => []VerdictsEarned` | `EarnedInv` |
| `PunctualProofs!ExecutionExclusive` | `PunctualSpec => []ExclusiveExecution` | `HoldInv` |
| `PunctualProofs!VerdictsFinal` | `PunctualSpec => Final` | `HoldInv` |
| `PunctualProofs!ContractImplemented` | `PunctualSpec => ContractSpec` | `HoldInv` |
| `PunctualProofs!DeadLettersSound` | `PunctualSpec => []DeadLetterTopicSound` | `HoldInv` and what an executor about to dead-letter knows |
| `PunctualProofs!BudgetKept` | `PunctualSpec => []RunsWithinBudget` | `HoldInv`, `RunInv` |
| `PromptProofs!SweepsBounded` | `PromptSpec => []SweepsAnswerFaults` | `HoldInv`, `RecordsInv`, `PromptInv` |
| `GroupProofs!GroupTypes` | `Spec => []TypeOK` of `ConsumerGroup` | itself |
| `GroupProofs!DeliveryImplemented` | `Spec => DeliverySpec` | `GroupInv` |
| `CronProofs!CronTypes` | `FairSpec => []TypeOK` | `WaitInv` |
| `CronProofs!MissedOnlyForFaults` | `FairSpec => []MissesAnswerFaults` | `MissInv` |
| `CronProofs!SecondFiringsAnswerFaults` | `FairSpec => []DuplicatesAnswerFaults` | `CronInv` |
| `SubmissionProofs!AnswersAreTrue` | `Spec => []AnswersTrue` | `AnswersInv` |
| `SubmissionProofs!DriverTypesKept`, `ReportsAreTrue` | `Spec => []TypeOK`, `[]ReportTrue` of `LoadDriver` | `DriverInv` |
| `ElectionProofs!ElectionTypeCorrect` | `Spec => []TypeOK` of `Election` | itself |
| `ElectionProofs!LeaderRecognised` | `Spec => []OneRecognisedLeader` | `ElectionInv` |

The arguments:

*Starts.* `StartsWithinRecoveries` is inductive relative to the types. It says that a
claim spends a return to pending and a start spends a claim. `StoreProofs` shows that each update of the
collection keeps it, whoever calls it when (`StartsWithinRecoveriesStep`);
`StoreOnly` shows that no action of `Pipeline` touches the collection otherwise.
The argument therefore uses the two compare-and-set updates and nothing about the callers.

*Verdicts* (`EarnedInv`). With no assumption on time, executors may overwrite each other's counts. What survives is an inequality: a count in
the document, or remembered by an executor between `MarkFailed`'s read and its write, leaves out at least the failures whose read is
still to come. `FailuresCounted` says so already; the proof needs besides it that who is about to write "completed" has seen a handler succeed
(`Succeeded`), and how the number of executors at a stage changes when one of them moves (`WorkersCount`, `WorkersEarn`).

*Exclusion* (`HoldInv`). `ExclusiveExecution` counts executors and says nothing of the document, so it is not inductive: after a sweep a
second executor could join. `HoldInv` adds that an executor between its claim and its last write finds the
document as it left it, and too young for the reaper (`Held`); that what it read of the attempts is not ahead of
them, and exact in `MarkFailed` (`Recalls`); and that a job is dead when its budget is spent and not before (`Budgeted`). `TimeoutAssumption`
is used in one place: the clock may tick at a handler that is within its deadline without making its document old enough for the sweep.
`Final` and the refinement then follow step by step: whoever writes by `_id` alone writes to a document it still holds.

*Runs* (`RunInv`) compares what the handlers did with the document: a failure that is not recorded and not about to be answers a
fault, and so does every success but the one that completed the job.

*Sweeps* (`RecordsInv`, `PromptInv`). A record is in one place until it is published, and each claim makes a new one (`RecordsInv`). `PromptInv` says
that a job for which nobody is going to do anything until the reaper comes (`Lost`) has its fault already, that a queued job whose record is still to
reach an executor is young (`Young`), and that retries are the attempts (`Retried`).

*Offsets* (`GroupInv`). That committed offsets pass settled records only needs, of each member whose commit would count, that everything up to its
polled offset is settled or in its hands (`Accounted`), that no two members the coordinator counts own one partition (`Owned`) and that none is behind the
committed offset (`Ahead`), so that commits never go back.

*Waiting* (`WaitInv`). The time a scheduler computed and has not written yet goes on being upcoming while it waits: it is the time to the next
occurrence, or nothing if that has come, just as in the documents. This alone says nothing of a template that is queued, nor of one that is due late.

*Missed occurrences* (`MissInv`). The misses so far, and the one that is about to be, are covered by the faults (`Paid`). One is about to be unless the template is
`InTime`: when its occurrence has come, it is due, claimed or overdue for the sweep, and no scheduler is about to move it on; and if it is queued in nobody's
hands, it has been so since the occurrence or longer, so that the sweep comes before the next one passes, which is where `SweepAssumption` is needed. Only a fault takes a
template out of time, and leaving an occurrence puts it back (`AfterOccurrence`), so that a fault is charged for one occurrence only. Besides, a
queued template is one that was due (`QueuedDue`), and none is dead-lettered whose expression parses (`KnownValid`), although schedulers act on the expression they read
with the claim.

*Second firings* (`CronInv`). Two accounts per template, both covered by one more than the faults (`Covered`). The first counts the instances inserted in this
period, the claims in batches, the schedulers that are about to write an occurrence that has come already (`Late`), and one if the template can be claimed once more
without a fault (`Open`). It does not survive the turn of the period by itself, when every scheduler still at work becomes late at once; the second account, of claims, schedulers at work
and the open chance, makes up for that, since time that passes while somebody works is a fault.

*Answers.* `AnswersTrue` is not inductive: it allows a service without the index, which would insert a key
twice. `AnswersInv` adds that the service listens, and has requests under way, only with the index in place (`ServedIndexed`; the seed builds it itself),
that no two documents share a key (`OnePerKey`), that only requests that pass the handler's checks, or the seed's, are inserted
(`Checked`), what each answer implies (`Told`), and the types this needs (`CallsOK`). None of the driver's own actions inserts a document or changes
an answer, so each of them keeps it.

*Report* (`DriverInv`). On top of `AnswersInv`: who has called has tried (`Tried`), so that a sender's only try names its job; a job has a poller only while a
round lasts and after the round has looked at it (`PollersInv`), so that no poller outlives its round; and what a poller is about to write is still so
in the store (`PollersTrue`), because both ends of a job are final in `JobContract`.

*Leader.* `OneRecognisedLeader` is not inductive: it says nothing of processes that
wait. `ElectionInv` adds that sessions are numbered (`Fresh`), that of two keys
the owner of one knows the other was first (`Ordered`), that a campaigner keeps its key while its
lease lives (`KeyHeld`), and that nobody is before a leader (`FirstInLine`). Two recognised
leaders would both have keys, one would be ahead of the other, and both wait for nobody.

Only model-checked: `EventuallyResolved`, `EventuallyHandled`, `FiresAgain`, `InvalidDeadLettered`, `RetriesSettle`, `DriverEnds` and
`LeadershipSettles`. They are liveness under fairness, whose rules need ENABLED, and that is beyond the prover. The five violations of section 6 are
counterexamples and need no proof.

## 6. Where the code and its documents differ

| Run | Said | Done |
|---|---|---|
| `reclaimed_dead_letter` | `retry_dlq_test.go:80`, `README.md:193`: DLQ'd jobs are never reclaimed | an executor that stalled past `CLAIM_TIMEOUT` writes `running` or `pending` over `dlq`, by `_id` alone |
| `unpublished_dead_letter` | `topics.go:18`, `README.md:22-23`: exhausted jobs are on the dead-letter topic | `Runner.fail` decides to publish from the document fetched before the claim, `MarkFailed` from the one it reads |
| `split_brain` | `election.go:19-20`: no split-brain window | the old leader stops when its client notices; etcd does not wait |
| `lost_sessions` | `cmd/scheduler/main.go:73-75`: a standby takes over | a process whose session died campaigns with it for ever |
| `map_race` | `cmd/loadtest/main.go:140-143`: polls each created job until it is finished or time is up | the lookup at line 162 is not under the mutex of the write at 186; Go's runtime may end the program |

The first two need no failed call, only delay. `split_brain` does no harm to a job in the
models: `punctual` and `recurring` let two schedulers tick at will. `map_race` needs two jobs in one round of polling; the unlocked
lookup otherwise costs at most a poll too many (`ReportTrue`). `cron_test.go:113-117` and
`README.md:201-202` say a minute does not fire twice; a lost rescheduling plus the queued sweep makes it fire again, which the comment
at `loop.go:108-110` accepts and `DuplicatesAnswerFaults` bounds. Noted without a run: the consumer of `RetryTopic` that `topics.go:12-16`
describes does not exist; `handlers.go:54-58` expects `slow` to outlast `CLAIM_TIMEOUT`, which the
runner's deadline prevents with the default values; a template that no longer parses has left a queued instance behind, which
the sweep later dispatches; a seeded template fires at the time it was seeded although the comment at `cmd/seed/main.go:128` says its
`scheduledAt` is overwritten; `consumer.go:45-50` says an offset is committed after its handler, and it is committed after the whole batch.

## 7. What is not modelled

* Payloads, job types (each type is a pipeline and a topic of its own), logging, metrics, latency statistics.
* `ListJobs` and `ListByTenant`: reads, and nothing in the repository acts on their answer.
* The retry topic (`PublishRetry` is never called) and readers of the dead-letter topic (there are none).
* Mongo failover and read concern (a read sees the last write); a write that Mongo applies long
  after its caller gave up. Kafka losing acknowledged records.
* Jobs arriving for ever at higher priority: the code promises nothing to the others.
* Building the unique index over a collection that already holds duplicates: the models start from an empty collection.
* Configuration parsing, deployment files, the order of the seed's random jobs.
