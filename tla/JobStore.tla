------------------------------ MODULE JobStore ------------------------------
(***************************************************************************)
(* The jobs collection and the methods of store.JobsRepo on it.  Mongo     *)
(* makes each update of one document atomic and nothing more, so every     *)
(* operator below is one such update; a method that needs two (MarkFailed  *)
(* reads, then writes) or several (ClaimDueJobs) is put together from them *)
(* by the module that models its caller.                                   *)
(*                                                                         *)
(* Time is kept relative.  wait is the time left until scheduledAt (0 once *)
(* the job is due); idle is the time since updatedAt, followed only while  *)
(* the status is one the reaper looks at and saturating at IdleCap, beyond *)
(* which every timeout has passed.  Every method writes updatedAt together *)
(* with status, so idle restarts with each change of status.  updatedAt is *)
(* written on one machine's clock and compared on the reaper's, which may  *)
(* be ahead: Skew is by how much at most (behind, it only sweeps later).   *)
(***************************************************************************)
EXTENDS Integers

CONSTANTS
  Jobs,              \* document ids that may be inserted
  Priority,          \* the priority each job is created with
  RequestedAttempts, \* values of maxAttempts a client may send
  FirstDelays,       \* how far ahead a client may schedule a new job
  ClaimTimeout,      \* CLAIM_TIMEOUT: claimed/running documents older than this are swept
  QueuedTimeout,     \* QUEUED_TIMEOUT: queued documents older than this are swept
  Skew,              \* how far the reaper's clock may be ahead of a writer's
  BackoffCap,        \* the longest retry delay (5 minutes in the code)
  MaxClaims          \* bound: how often one job is handed out for dispatch

ASSUME StoreAssumption ==
  /\ Priority \in [Jobs -> Int]
  /\ RequestedAttempts \subseteq Int
  /\ FirstDelays \subseteq Nat
  /\ Skew \in Nat
  /\ {ClaimTimeout, QueuedTimeout, BackoffCap, MaxClaims} \subseteq Nat \ {0}

VARIABLES
  docs,    \* the document of each job; status "absent" before it is inserted
  ledger   \* history: how often each job was handed out for dispatch, started,
           \* retried, swept, and whether it was ever dead-lettered

store == <<docs, ledger>>

DefaultMaxAttempts == 3

Statuses == {"absent", "pending", "queued", "claimed", "running", "completed", "dlq"}
Sweepable == {"queued", "claimed", "running"}
Terminal == {"completed", "dlq"}

Document == [status: Statuses, attempts: Nat, maxAttempts: Nat, wait: Nat, idle: Nat]
Entry == [claims: 0..MaxClaims, starts: Nat, retries: Nat, sweeps: Nat, dead: BOOLEAN]

StoreTypeOK ==
  /\ docs \in [Jobs -> Document]
  /\ ledger \in [Jobs -> Entry]

StoreInit ==
  /\ docs = [j \in Jobs |->
       [status |-> "absent", attempts |-> 0, maxAttempts |-> 0, wait |-> 0, idle |-> 0]]
  /\ ledger = [j \in Jobs |->
       [claims |-> 0, starts |-> 0, retries |-> 0, sweeps |-> 0, dead |-> FALSE]]

-----------------------------------------------------------------------------
(* A $set of status and updatedAt and nothing else. *)
Updated(d, s) == [d EXCEPT !.status = s, !.idle = 0]
SetStatus(j, s) == docs' = [docs EXCEPT ![j] = Updated(@, s)]

(* A maxAttempts of zero or less means 3. *)
Budget(requested) == IF requested <= 0 THEN DefaultMaxAttempts ELSE requested

Insert(j, status, requested, delay) ==
  /\ docs[j].status = "absent"
  /\ docs' = [docs EXCEPT ![j] =
       [status |-> status, attempts |-> 0, maxAttempts |-> Budget(requested),
        wait |-> delay, idle |-> 0]]

(* JobsRepo.Create inserts a pending document. *)
Create(j, requested, delay) == Insert(j, "pending", requested, delay) /\ UNCHANGED ledger

(* SpawnCronInstance inserts one as if it were claimed already, with the       *)
(* maxAttempts its template was created with.                                 *)
SpawnCronInstance(j, requested) ==
  /\ ledger[j].claims < MaxClaims
  /\ Insert(j, "queued", requested, 0)
  /\ ledger' = [ledger EXCEPT ![j].claims = @ + 1]

(* The filter of ClaimDueJobs, within the bound MaxClaims, and its sort by     *)
(* descending priority.  Due documents of equal priority are taken in the     *)
(* order of scheduledAt, which a wait of 0 no longer tells: any of them.      *)
Due(j) == docs[j].status = "pending" /\ docs[j].wait = 0 /\ ledger[j].claims < MaxClaims
First(j) == Due(j) /\ \A k \in Jobs : Due(k) => Priority[k] <= Priority[j]

(* One findOneAndUpdate of ClaimDueJobs. *)
ClaimDueJob(j) ==
  /\ First(j)
  /\ SetStatus(j, "queued")
  /\ ledger' = [ledger EXCEPT ![j].claims = @ + 1]

(* Mutant: the filter on status forgotten. *)
MarkClaimedInAnyStatus(j) ==
  /\ SetStatus(j, "claimed")
  /\ ledger' = [ledger EXCEPT ![j].starts = @ + 1]

(* MarkClaimed matches a queued document only. *)
MarkClaimed(j) ==
  /\ docs[j].status = "queued"
  /\ SetStatus(j, "claimed")
  /\ ledger' = [ledger EXCEPT ![j].starts = @ + 1]

(* Mutant: MarkCompleted finds the document only if it is still "claimed". *)
MarkCompletedIfClaimed(j) ==
  /\ IF docs[j].status = "claimed" THEN SetStatus(j, "completed") ELSE UNCHANGED docs
  /\ UNCHANGED ledger

(* MarkRunning and MarkCompleted match the document by _id alone. *)
MarkRunning(j) == SetStatus(j, "running") /\ UNCHANGED ledger
MarkCompleted(j) == SetStatus(j, "completed") /\ UNCHANGED ledger

(* Mutant: exhausted one attempt early. *)
MarkFailedOneEarly(j, newAttempts, backoff) ==
  LET exhausted == newAttempts + 1 >= docs[j].maxAttempts IN
  /\ docs' = [docs EXCEPT ![j] =
       [Updated(docs[j], IF exhausted THEN "dlq" ELSE "pending") EXCEPT
          !.attempts = newAttempts, !.wait = IF exhausted THEN docs[j].wait ELSE backoff]]
  /\ ledger' = IF exhausted THEN [ledger EXCEPT ![j].dead = TRUE]
                            ELSE [ledger EXCEPT ![j].retries = @ + 1]

(* Mutant: the declared but unused status "failed" written before a retry. *)
MarkFailedAsFailed(j, newAttempts, backoff) ==
  LET exhausted == newAttempts >= docs[j].maxAttempts IN
  /\ docs' = [docs EXCEPT ![j] =
       [Updated(docs[j], IF exhausted THEN "dlq" ELSE "failed") EXCEPT
          !.attempts = newAttempts, !.wait = IF exhausted THEN docs[j].wait ELSE backoff]]
  /\ UNCHANGED ledger

(* The update of MarkFailed, by _id alone, with the attempt count computed     *)
(* from the document it read before.                                          *)
MarkFailed(j, newAttempts, backoff) ==
  LET exhausted == newAttempts >= docs[j].maxAttempts IN
  /\ docs' = [docs EXCEPT ![j] =
       [Updated(docs[j], IF exhausted THEN "dlq" ELSE "pending") EXCEPT
          !.attempts = newAttempts, !.wait = IF exhausted THEN docs[j].wait ELSE backoff]]
  /\ ledger' = IF exhausted THEN [ledger EXCEPT ![j].dead = TRUE]
                            ELSE [ledger EXCEPT ![j].retries = @ + 1]

(* Mutant: the cutoff on updatedAt forgotten. *)
SweepFresh(j, timeout, statuses) ==
  /\ docs[j].status \in statuses
  /\ SetStatus(j, "pending")
  /\ ledger' = [ledger EXCEPT ![j].sweeps = @ + 1]

(* Mutant: a sweep counts as an attempt. *)
SweepCounted(j, timeout, statuses) ==
  /\ docs[j].status \in statuses
  /\ docs[j].idle + Skew >= timeout
  /\ docs' = [docs EXCEPT ![j] = [Updated(docs[j], "pending") EXCEPT !.attempts = docs[j].attempts + 1]]
  /\ ledger' = [ledger EXCEPT ![j].sweeps = @ + 1]

(* sweepByStatus on one of the documents it matches: UpdateMany is atomic      *)
(* document by document, and the filter is evaluated again on each.           *)
Sweep(j, timeout, statuses) ==
  /\ docs[j].status \in statuses
  /\ docs[j].idle + Skew >= timeout
  /\ SetStatus(j, "pending")
  /\ ledger' = [ledger EXCEPT ![j].sweeps = @ + 1]

SweepStuckJobs(j) == Sweep(j, ClaimTimeout, {"claimed", "running"})

(* Mutant: the queued sweep looks for the wrong status. *)
SweepStuckQueuedAsClaimed(j) == Sweep(j, QueuedTimeout, {"claimed"})

SweepStuckQueuedJobs(j) == Sweep(j, QueuedTimeout, {"queued"})

(* One unit of time passes for every document. *)
IdleCap == IF ClaimTimeout > QueuedTimeout THEN ClaimTimeout ELSE QueuedTimeout
Elapse ==
  /\ docs' = [j \in Jobs |->
       [docs[j] EXCEPT !.wait = IF @ = 0 THEN 0 ELSE @ - 1,
                       !.idle = IF docs[j].status \in Sweepable /\ @ < IdleCap
                                THEN @ + 1 ELSE @]]
  /\ UNCHANGED ledger

(* Every way the collection changes. *)
StoreStep ==
  \/ \E j \in Jobs :
       \/ \E requested \in RequestedAttempts, delay \in FirstDelays : Create(j, requested, delay)
       \/ \E requested \in RequestedAttempts : SpawnCronInstance(j, requested)
       \/ ClaimDueJob(j)
       \/ MarkClaimed(j)
       \/ MarkRunning(j)
       \/ MarkCompleted(j)
       \/ \E newAttempts, backoff \in Nat : MarkFailed(j, newAttempts, backoff)
       \/ SweepStuckJobs(j)
       \/ SweepStuckQueuedJobs(j)
  \/ Elapse

-----------------------------------------------------------------------------
Bit(condition) == IF condition THEN 1 ELSE 0

(***************************************************************************)
(* Every claim spends one return to pending (the insert, a recorded retry, *)
(* a sweep) and every start spends one claim, whatever messages are lost,  *)
(* repeated or stale: a job is started at most once more than it was       *)
(* retried and swept.  (ClaimDueJobs and MarkClaimed, jobs_repo.go:85-135, *)
(* are the only compare-and-set updates; this is what they buy.)           *)
(***************************************************************************)
StartsWithinRecoveries ==
  \A j \in Jobs :
    /\ ledger[j].claims + Bit(docs[j].status = "pending")
         <= Bit(docs[j].status # "absent") + ledger[j].retries + ledger[j].sweeps
    /\ ledger[j].starts + Bit(docs[j].status = "queued") <= ledger[j].claims
=============================================================================
