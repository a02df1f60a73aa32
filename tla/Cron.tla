-------------------------------- MODULE Cron --------------------------------
(***************************************************************************)
(* Recurring jobs.  A template waits in the jobs collection for its next   *)
(* occurrence; a scheduler claims it like any job, inserts an instance of  *)
(* it, and moves the template to its next occurrence.  What becomes of the *)
(* instance is module Pipeline's.                                          *)
(*                                                                         *)
(* Time is cyclic.  Every template has the expression "whenever clock is   *)
(* 0", and clock counts from one such moment to the next, so that one turn *)
(* stands for any.  wait is the time left until the template's scheduledAt *)
(* and idle the time since its updatedAt, as in JobStore.  A unit of time  *)
(* is long against a tick of the scheduler.                                *)
(***************************************************************************)
EXTENDS Naturals, FiniteSets

CONSTANTS
  Templates,      \* ids of recurring jobs
  Schedulers,     \* scheduler processes, any of which may tick
  BatchSize,      \* the limit a tick passes to ClaimDueJobs
  Period,         \* time from one occurrence to the next
  QueuedTimeout,  \* QUEUED_TIMEOUT of the reaper
  SweepInterval,  \* time from one of its sweeps to the next
  MaxFaults,      \* bound: how many calls fail and processes die
  MaxFired,       \* bound: up to where instances of a period, and misses, are counted
  NoTemplate

ASSUME CronAssumption ==
  /\ {BatchSize, Period, QueuedTimeout, SweepInterval, MaxFired} \subseteq Nat \ {0}
  /\ MaxFaults \in Nat
  /\ NoTemplate \notin Templates

(* A template left queued is claimable again within a period: occurrences are  *)
(* at least a minute apart (cron.go:10-13), and QUEUED_TIMEOUT and the interval *)
(* of the sweeps are 30 s each (config.go:39, cmd/reaper/main.go:16).           *)
ASSUME SweepAssumption == QueuedTimeout + SweepInterval <= Period

VARIABLES
  clock,   \* time since the last occurrence
  tmpl,    \* the document of each template
  valid,   \* whether its cron expression parses
  fired,   \* history: instances inserted since the last occurrence
  began,   \* history: whether the template was there at the last occurrence
  missed,  \* history: occurrences at which no instance was inserted, or only later
  batch,   \* per scheduler: templates claimed by the current tick, as read
  loop,    \* per scheduler: where handleCronJob is, and with which template
  faults

vars == <<clock, tmpl, valid, fired, began, missed, batch, loop, faults>>

(* How long a document may stay queued when the reaper works. *)
Patience == QueuedTimeout + SweepInterval

(* A claimed template as the scheduler read it: it keeps the expression. *)
Claims == [id: Templates, valid: BOOLEAN]
NoClaim == [id |-> NoTemplate, valid |-> FALSE]
Stages == {"claim", "spawn", "parse", "reschedule", "invalid"}
Idle == [stage |-> "claim", cur |-> NoClaim, next |-> 0]

TypeOK ==
  /\ clock \in 0..(Period - 1)
  /\ tmpl \in [Templates -> [status: {"absent", "pending", "queued", "dlq"},
                             wait: 0..Period, idle: 0..Patience]]
  /\ valid \in [Templates -> BOOLEAN]
  /\ {fired, missed} \subseteq [Templates -> 0..MaxFired]
  /\ began \in [Templates -> BOOLEAN]
  /\ batch \in [Schedulers -> SUBSET Claims]
  /\ loop \in [Schedulers -> [stage: Stages, cur: Claims \cup {NoClaim}, next: 0..Period]]
  /\ faults \in 0..MaxFaults

Init ==
  /\ clock = 0
  /\ tmpl = [t \in Templates |-> [status |-> "absent", wait |-> 0, idle |-> 0]]
  /\ valid = [t \in Templates |-> TRUE]
  /\ fired = [t \in Templates |-> 0]
  /\ began = [t \in Templates |-> FALSE]
  /\ missed = [t \in Templates |-> 0]
  /\ batch = [s \in Schedulers |-> {}]
  /\ loop = [s \in Schedulers |-> Idle]
  /\ faults = 0

Fault == faults < MaxFaults /\ faults' = faults + 1

(* Mutants: the occurrence that is just due counts as the next one; the next  *)
(* one is a period from now.                                                  *)
NextOccurrenceInclusive == (Period - clock) % Period
NextOccurrenceDrifting == Period

(* NextOccurrence(expr, now), as the time left until then: strictly later. *)
NextOccurrence == Period - clock

-----------------------------------------------------------------------------
Create(t, wait) ==
  /\ tmpl[t].status = "absent"
  /\ tmpl' = [tmpl EXCEPT ![t] = [status |-> "pending", wait |-> wait, idle |-> 0]]
  /\ UNCHANGED <<clock, began, missed, valid, fired, batch, loop, faults>>

(* POST /jobs with a cron expression; one that does not parse is refused. *)
CreateTemplate(t) == Create(t, NextOccurrence)

(* cmd/seed calls the repository itself, with the time it is run at. *)
SeedTemplate(t) == Create(t, 0)

(* Someone edits the expression in Mongo. *)
EditExpression(t) ==
  /\ tmpl[t].status # "absent" /\ valid[t]
  /\ valid' = [valid EXCEPT ![t] = FALSE]
  /\ UNCHANGED <<clock, began, missed, tmpl, fired, batch, loop, faults>>

-----------------------------------------------------------------------------
(* ClaimDueJobs, one findOneAndUpdate at a time. *)
Due(t) == tmpl[t].status = "pending" /\ tmpl[t].wait = 0

Flip(t) == tmpl' = [tmpl EXCEPT ![t].status = "queued", ![t].idle = 0]

ClaimTemplate(s) ==
  /\ loop[s].stage = "claim"
  /\ Cardinality(batch[s]) < BatchSize
  /\ \E t \in Templates :
       /\ Due(t)
       /\ Flip(t)
       /\ batch' = [batch EXCEPT ![s] = @ \cup {[id |-> t, valid |-> valid[t]]}]
  /\ UNCHANGED <<clock, began, missed, valid, fired, loop, faults>>

ClaimFails(s) ==
  /\ Fault
  /\ loop[s].stage = "claim"
  /\ \/ \E t \in Templates : Due(t) /\ Flip(t)
     \/ batch[s] # {} /\ UNCHANGED tmpl
  /\ batch' = [batch EXCEPT ![s] = {}]
  /\ UNCHANGED <<clock, began, missed, valid, fired, loop>>

(* runOnce goes through the batch when nothing more is due or it is full. *)
HandleBatch(s) ==
  /\ loop[s].stage = "claim"
  /\ batch[s] # {}
  /\ Cardinality(batch[s]) = BatchSize \/ ~ \E t \in Templates : Due(t)
  /\ loop' = [loop EXCEPT ![s].stage = "spawn"]
  /\ UNCHANGED <<clock, began, missed, tmpl, valid, fired, batch, faults>>

EndBatch(s) ==
  /\ loop[s].stage = "spawn"
  /\ batch[s] = {}
  /\ loop' = [loop EXCEPT ![s] = Idle]
  /\ UNCHANGED <<clock, began, missed, tmpl, valid, fired, batch, faults>>

-----------------------------------------------------------------------------
(* handleCronJob: insert the instance; an error skips the template. *)
Fired(t) == fired' = [fired EXCEPT ![t] = IF @ < MaxFired THEN @ + 1 ELSE @]

SpawnCronInstance(s) ==
  /\ loop[s].stage = "spawn"
  /\ \E c \in batch[s] :
       /\ batch' = [batch EXCEPT ![s] = @ \ {c}]
       /\ \/ /\ Fired(c.id)
             /\ loop' = [loop EXCEPT ![s] = [@ EXCEPT !.stage = "parse", !.cur = c]]
             /\ UNCHANGED faults
          \/ Fault /\ UNCHANGED loop /\ (Fired(c.id) \/ UNCHANGED fired)
  /\ UNCHANGED <<clock, began, missed, tmpl, valid>>

(* Mutant: an expression that does not parse is given up on. *)
ParseOrGiveUp(s) ==
  /\ loop[s].stage = "parse"
  /\ loop' = [loop EXCEPT ![s] =
       IF @.cur.valid THEN [@ EXCEPT !.stage = "reschedule", !.next = NextOccurrence]
                      ELSE [Idle EXCEPT !.stage = "spawn"]]
  /\ UNCHANGED <<clock, began, missed, tmpl, valid, fired, batch, faults>>

(* Only now is the expression parsed, and the time looked at. *)
Parse(s) ==
  /\ loop[s].stage = "parse"
  /\ loop' = [loop EXCEPT ![s] =
       IF @.cur.valid THEN [@ EXCEPT !.stage = "reschedule", !.next = NextOccurrence]
                      ELSE [@ EXCEPT !.stage = "invalid"]]
  /\ UNCHANGED <<clock, began, missed, tmpl, valid, fired, batch, faults>>

NextTemplate(s) == loop' = [loop EXCEPT ![s] = [Idle EXCEPT !.stage = "spawn"]]

(* Both updates match by _id alone; an error is logged and that is all. *)
RescheduleCronTemplate(s) ==
  LET Write == tmpl' = [tmpl EXCEPT ![loop[s].cur.id] =
                 [status |-> "pending", wait |-> loop[s].next, idle |-> 0]]
  IN
  /\ loop[s].stage = "reschedule"
  /\ NextTemplate(s)
  /\ (Write /\ UNCHANGED faults) \/ (Fault /\ (Write \/ UNCHANGED tmpl))
  /\ UNCHANGED <<clock, began, missed, valid, fired, batch>>

(* Mutant: the declared but unused status "failed" instead of "dlq". *)
InvalidAsFailed(t) == tmpl' = [tmpl EXCEPT ![t].status = "failed", ![t].idle = 0]
DeadLetter(t) == tmpl' = [tmpl EXCEPT ![t].status = "dlq", ![t].idle = 0]

MarkCronInvalid(s) ==
  /\ loop[s].stage = "invalid"
  /\ NextTemplate(s)
  /\ \/ DeadLetter(loop[s].cur.id) /\ UNCHANGED faults
     \/ Fault /\ (DeadLetter(loop[s].cur.id) \/ UNCHANGED tmpl)
  /\ UNCHANGED <<clock, began, missed, valid, fired, batch>>

SchedulerDies(s) ==
  /\ Fault
  /\ batch[s] # {} \/ loop[s] # Idle
  /\ batch' = [batch EXCEPT ![s] = {}]
  /\ loop' = [loop EXCEPT ![s] = Idle]
  /\ UNCHANGED <<clock, began, missed, tmpl, valid, fired>>

-----------------------------------------------------------------------------
(* Mutant: the queued sweep stamps the document and leaves it queued. *)
SweepLeavesQueued(t) ==
  /\ tmpl[t].status = "queued"
  /\ tmpl[t].idle >= QueuedTimeout
  /\ tmpl' = [tmpl EXCEPT ![t].idle = 0]
  /\ UNCHANGED <<clock, began, missed, valid, fired, batch, loop, faults>>

(* SweepStuckQueuedJobs does not tell templates from other documents. *)
Reap(t) ==
  /\ tmpl[t].status = "queued"
  /\ tmpl[t].idle >= QueuedTimeout
  /\ tmpl' = [tmpl EXCEPT ![t].status = "pending", ![t].idle = 0]
  /\ UNCHANGED <<clock, began, missed, valid, fired, batch, loop, faults>>

(* By now a sweep has come. *)
Overdue(t) == tmpl[t].status = "queued" /\ tmpl[t].idle >= Patience

(* The occurrence has come and no instance with it. *)
Awaited(t) == clock = 0 /\ began[t] /\ valid[t] /\ fired[t] = 0

Sooner(time) == IF time = 0 THEN 0 ELSE time - 1

Advance ==
  /\ clock' = (clock + 1) % Period
  /\ tmpl' = [t \in Templates |->
       [tmpl[t] EXCEPT !.wait = Sooner(@),
                       !.idle = IF tmpl[t].status = "queued" /\ @ < Patience
                                THEN @ + 1 ELSE @]]
  /\ loop' = [s \in Schedulers |-> [loop[s] EXCEPT !.next = Sooner(@)]]
  /\ fired' = IF clock' = 0 THEN [t \in Templates |-> 0] ELSE fired
  /\ began' = IF clock' = 0 THEN [t \in Templates |-> tmpl[t].status # "absent"] ELSE began
  /\ missed' = [t \in Templates |->
       IF Awaited(t) /\ missed[t] < MaxFired THEN missed[t] + 1 ELSE missed[t]]
  /\ UNCHANGED <<valid, batch>>

(* The loop's tick and the calls it makes are short against a unit of time:    *)
(* one that passes while a scheduler is at work, or leaves a due template       *)
(* alone, is a fault (a slow call, a paused process, nobody leading).  So is    *)
(* one that passes over a template the reaper should have swept by then.        *)
Brisk ==
  /\ \A s \in Schedulers : batch[s] = {} /\ loop[s] = Idle
  /\ \A t \in Templates : ~Due(t) /\ ~Overdue(t)

Tick == Brisk /\ Advance /\ UNCHANGED faults
Stall == ~Brisk /\ Advance /\ Fault

-----------------------------------------------------------------------------
SchedulerStep(s) ==
  \/ ClaimTemplate(s)
  \/ ClaimFails(s)
  \/ HandleBatch(s)
  \/ EndBatch(s)
  \/ SpawnCronInstance(s)
  \/ Parse(s)
  \/ RescheduleCronTemplate(s)
  \/ MarkCronInvalid(s)

Step ==
  \/ \E t \in Templates : CreateTemplate(t) \/ SeedTemplate(t) \/ EditExpression(t) \/ Reap(t)
  \/ \E s \in Schedulers : SchedulerStep(s) \/ SchedulerDies(s)

Next == Step \/ Tick \/ Stall

(* Some scheduler leads, the loop and the reaper tick on, and time passes. *)
FairSpec ==
  /\ Init
  /\ [][Next]_vars
  /\ \A s \in Schedulers : WF_vars(SchedulerStep(s))
  /\ \A t \in Templates : WF_vars(Reap(t))
  /\ WF_vars(Tick)

-----------------------------------------------------------------------------
(***************************************************************************)
(* An occurrence fires one instance, and one more only for a fault, with   *)
(* any number of schedulers ticking: a template whose rescheduling was     *)
(* lost is made claimable again by the reaper, within the same period.     *)
(* (loop.go:82-115, jobs_repo.go:85-114, 232-242; cron_test.go:113-117.)   *)
(***************************************************************************)
DuplicatesAnswerFaults == \A t \in Templates : fired[t] <= 1 + faults

(***************************************************************************)
(* Every occurrence fires when it comes: none passes without an instance,  *)
(* be it late or never, but for a fault of its own.  A call that failed, a *)
(* tick that outlasted the sweep and a reschedule written over another one *)
(* cost one occurrence each; the next ones are on time again.              *)
(* (cron.go:19-25, loop.go:82-115, jobs_repo.go:232-242, 261-276.)         *)
(***************************************************************************)
MissesAnswerFaults == \A t \in Templates : missed[t] <= faults

(***************************************************************************)
(* A recurring job goes on firing as long as its expression parses,        *)
(* whatever calls fail or stall.  (loop.go:106-111.)                       *)
(***************************************************************************)
FiresAgain ==
  \A t \in Templates :
    tmpl[t].status # "absent" /\ valid[t] ~> fired[t] > 0 \/ ~valid[t]

(***************************************************************************)
(* A template whose expression no longer parses is dead-lettered, not      *)
(* silently stuck.  (jobs_repo.go:244-248.)                                *)
(***************************************************************************)
InvalidDeadLettered == \A t \in Templates : ~valid[t] ~> [](tmpl[t].status = "dlq")
=============================================================================
