------------------------------ MODULE Punctual ------------------------------
(***************************************************************************)
(* The pipeline when the timeouts mean what they are meant to mean.        *)
(*                                                                         *)
(* The compare-and-set in MarkClaimed is the only mutual exclusion between *)
(* executors: every later write of Runner.Execute matches the document by  *)
(* _id alone and relies on the reaper not having given the job away in the *)
(* meantime.  That holds if an executor is done with a job within          *)
(* CLAIM_TIMEOUT of its last write.  The code enforces the part of it that *)
(* is the handler's (its context ends after Runner.Timeout); that the two  *)
(* calls around it do not stall, and that CLAIM_TIMEOUT is configured      *)
(* above Runner.Timeout, it takes for granted.  OnTime is that assumption. *)
(*                                                                         *)
(* Prompt adds the one behind QUEUED_TIMEOUT: a dispatch record that was   *)
(* not lost reaches an executor before the queued sweep.                   *)
(***************************************************************************)
EXTENDS Pipeline

(* The timeouts as the code configures them: 2m of runner.go under the 5m of  *)
(* CLAIM_TIMEOUT, the clocks closer together than what lies between the two;  *)
(* they are closer than the 30s of QUEUED_TIMEOUT too (config.go:38-39).      *)
ASSUME TimeoutAssumption ==
  /\ ExecTimeout + Skew < ClaimTimeout
  /\ Skew < QueuedTimeout

(* Between its claim and its last write. *)
InCall == {"mark", "complete", "failRead", "failWrite"}
Engaged == InCall \cup {"handle"}

OnTime ==
  \A w \in Workers :
    /\ exec[w].pc = "handle" => docs[JobOf(w)].idle < ExecTimeout
    /\ exec[w].pc \in InCall => docs[JobOf(w)].idle + 1 + Skew < ClaimTimeout

(* A record of the job's current claim that can still reach an executor. *)
Live(j) ==
  LET r == [job |-> j, claim |-> ledger[j].claims] IN
  r \in topic \ committed \/ \E s \in Schedulers : r \in batch[s] \cup outbox[s]

Prompt ==
  \A j \in Jobs :
    docs[j].status = "queued" /\ Live(j) => docs[j].idle + 1 + Skew < QueuedTimeout

PunctualNext == Step \/ (Tick /\ OnTime)
PunctualSpec == Init /\ [][PunctualNext]_vars

PromptTick == Tick /\ OnTime /\ Prompt
PromptNext == Step \/ PromptTick
PromptSpec == Init /\ [][PromptNext]_vars

(***************************************************************************)
(* Every process goes on: the scheduler's ticker, the consumer's poll loop *)
(* and the handler (its context has a deadline) and the reaper's ticker    *)
(* run for as long as the process lives, a dead process is restarted, and  *)
(* time passes.  A member gets to every record that is not committed: what *)
(* it polled before others committed it is a finite batch.  Faults are     *)
(* finitely many; nothing is assumed of CreateJob, and nothing obliges a   *)
(* handler to succeed.                                                     *)
(***************************************************************************)
Fairness ==
  /\ \A s \in Schedulers : WF_vars(SchedulerStep(s))
  /\ \A w \in Workers :
       /\ WF_vars(WorkerStep(w))
       /\ SF_vars(\E r \in topic \ committed : Poll(w, r))
  /\ \A j \in Jobs : WF_vars(Reap(j))
  /\ WF_vars(PromptTick)

FairSpec == PromptSpec /\ Fairness

-----------------------------------------------------------------------------
(***************************************************************************)
(* An executor between its claim and its last write has the job to itself: *)
(* the document says so and no other executor is there.  (runner.go:45-76, *)
(* 84; jobs_repo.go:137-181.)                                              *)
(***************************************************************************)
ExclusiveExecution ==
  \A w \in Workers :
    exec[w].pc \in Engaged =>
      /\ docs[JobOf(w)].status = IF exec[w].pc = "mark" THEN "claimed" ELSE "running"
      /\ WorkersAt(Engaged, JobOf(w)) = {w}

(***************************************************************************)
(* What the handlers of a job did is what its document says: a failure is  *)
(* counted, to be counted, or lost to a fault, the count stays within the  *)
(* budget, and the handler succeeds again only after a fault.              *)
(* (runner.go:60-74, jobs_repo.go:164-177.)                                *)
(***************************************************************************)
RunsWithinBudget ==
  \A j \in Jobs :
    /\ handled[j].failed
         <= docs[j].attempts + Cardinality(WorkersAt({"failRead", "failWrite"}, j)) + faults
    /\ docs[j].attempts <= docs[j].maxAttempts
    /\ handled[j].ok <= 1 + faults

(***************************************************************************)
(* The dead-letter topic names dead jobs only, although Runner.fail        *)
(* decides to publish from a document read before the claim.               *)
(* (runner.go:79-95.)                                                      *)
(***************************************************************************)
DeadLetterTopicSound ==
  \A j \in Jobs :
    j \in dlqTopic \/ WorkersAt({"deadLetter"}, j) # {} => docs[j].status = "dlq"

(***************************************************************************)
(* "completed" and "dlq" are final: a redelivered record, a late executor  *)
(* or a sweep leaves the document as it is.  (jobs_repo.go:118-181, 261.)  *)
(***************************************************************************)
Final == [][\A j \in Jobs : docs[j].status \in Terminal => docs'[j].status = docs[j].status]_vars

(***************************************************************************)
(* With prompt delivery the reaper acts on lost work only: each sweep      *)
(* answers a fault, so a job is claimed at most maxAttempts times plus     *)
(* once per fault.  (jobs_repo.go:183-196.)                                *)
(***************************************************************************)
SweepsAnswerFaults ==
  \A j \in Jobs :
    /\ ledger[j].sweeps <= faults
    /\ ledger[j].claims <= docs[j].maxAttempts + faults

(***************************************************************************)
(* Every job that was accepted is resolved, whatever was lost on the way:  *)
(* completed, or dead after maxAttempts failures.                          *)
(***************************************************************************)
EventuallyResolved ==
  \A j \in Jobs : docs[j].status # "absent" ~> docs[j].status \in Terminal

(* What the owner of a job sees of its status. *)
PhaseOf(status) ==
  CASE status = "absent" -> "absent"
    [] status \in {"pending", "queued"} -> "waiting"
    [] status \in {"claimed", "running"} -> "active"
    [] status = "completed" -> "done"
    [] status = "dlq" -> "dead"

Phase == [j \in Jobs |-> PhaseOf(docs[j].status)]

Contract == INSTANCE JobContract WITH
  phase <- Phase,
  failures <- [j \in Jobs |-> docs[j].attempts],
  budget <- [j \in Jobs |-> docs[j].maxAttempts]

(***************************************************************************)
(* The pipeline implements JobContract: whatever it does to a job is one   *)
(* of the moves its owner was promised, or invisible to it; the recorded   *)
(* attempts rise by one per failed run and reach dlq at the budget.        *)
(* (jobs_repo.go:47-196, runner.go:42-96.)                                 *)
(***************************************************************************)
ContractSpec == Contract!Spec
=============================================================================
