----------------------------- MODULE Submission -----------------------------
(***************************************************************************)
(* How jobs come in: the API service from its start to the answer of       *)
(* POST /jobs, the callers that repeat a request whose answer was lost,    *)
(* and the seed script, which calls JobsRepo.Create itself.                *)
(*                                                                         *)
(* A request is under way from the caller until the handler has answered   *)
(* it.  A caller that gave up waiting for it (its own timeout) does not    *)
(* take it back: the service may insert the job all the same, later even   *)
(* than the caller's next try.  What a job does afterwards is JobContract, *)
(* which the pipeline implements (module Punctual).                        *)
(***************************************************************************)
EXTENDS Naturals, FiniteSets

CONSTANTS
  Callers,   \* who submits one job each, by POST or (Seeders) directly
  Seeders,
  Watched,   \* callers whose job somebody looks at later: its life is followed
  Offers,    \* per caller: the requests it may choose from
  Tries,     \* per caller: how often it tries
  MaxTries,
  MaxFaults  \* bound: how many calls fail or time out and processes die

Keys == UNION {{req.key : req \in Offers[c]} : c \in Callers}

(* named: tenant, type and key are there; scheduled: a scheduledAt is. *)
Requests == [key: Keys, named: BOOLEAN, cron: {"none", "parses", "fails"}, scheduled: BOOLEAN]

ASSUME SubmissionAssumption ==
  /\ Seeders \subseteq Callers /\ Watched \subseteq Callers
  /\ Offers \in [Callers -> SUBSET Requests]
  /\ Tries \in [Callers -> 1..MaxTries]
  /\ {MaxTries, MaxFaults} \subseteq Nat

(* A try, and the id of the document it inserts. *)
Attempts == [by: Callers, try: 1..MaxTries]

VARIABLES
  indexed,   \* the collection has its unique index on idempotencyKey
  serving,   \* the API service listens
  inbox,     \* tries the service has not answered
  call,      \* per caller: where it is, its request, its latest try
  stored,    \* documents that were inserted, templates included
  phase, failures, budget,  \* the life of the one-off jobs (JobContract)
  faults

jobs == <<stored, phase, failures, budget>>
api == <<indexed, serving, inbox>>
svars == <<indexed, serving, inbox, call, stored, phase, failures, budget, faults>>

Job == INSTANCE JobContract WITH Jobs <- Attempts

Answers == {"created", "conflict", "invalid", "failed"}

SubmissionTypeOK ==
  /\ {indexed, serving} \subseteq BOOLEAN
  /\ inbox \subseteq Attempts
  /\ call \in [Callers -> [at: {"idle", "waiting"} \cup Answers, req: Requests, try: 0..MaxTries]]
  /\ stored \subseteq Attempts
  /\ phase \in [Attempts -> Job!Phases]
  /\ faults \in 0..MaxFaults
  /\ inbox # {} => serving
  /\ \A d \in Attempts : phase[d] # "absent" => d \in stored

SubmissionInit ==
  /\ indexed = FALSE /\ serving = FALSE
  /\ inbox = {}
  /\ \E req \in [Callers -> Requests] :
       /\ \A c \in Callers : req[c] \in Offers[c]
       /\ call = [c \in Callers |-> [at |-> "idle", req |-> req[c], try |-> 0]]
  /\ stored = {}
  /\ Job!Init
  /\ faults = 0

Fault == faults < MaxFaults /\ faults' = faults + 1

-----------------------------------------------------------------------------
(* Mutant: the index on idempotencyKey is not unique. *)
EnsureIndexesPlain == UNCHANGED indexed

EnsureIndexes == indexed' = TRUE

(* cmd/api: the indexes first, or the process ends and is restarted. *)
StartApi ==
  /\ ~serving
  /\ \/ EnsureIndexes /\ serving' = TRUE /\ UNCHANGED faults
     \/ Fault /\ (EnsureIndexes \/ UNCHANGED indexed) /\ UNCHANGED serving
  /\ UNCHANGED <<inbox, call, jobs>>

ApiDies ==
  /\ serving /\ Fault
  /\ serving' = FALSE
  /\ inbox' = {}
  /\ UNCHANGED <<indexed, call, jobs>>

-----------------------------------------------------------------------------
RequestOf(a) == call[a.by].req
Duplicate(a) == indexed' /\ \E d \in stored : RequestOf(d).key = RequestOf(a).key

(* InsertOne; of a one-off job, the beginning of its life. *)
Insert(a) ==
  /\ stored' = stored \cup {a}
  /\ IF RequestOf(a).cron = "none"
     THEN /\ budget' = [budget EXCEPT ![a] = 1]
          /\ Job!Submit(a)
     ELSE UNCHANGED <<phase, failures, budget>>

(* Mutant: a duplicate key is an error like any other. *)
CreateAsAnyError(a, answer) ==
  \/ ~Duplicate(a) /\ Insert(a) /\ answer = "created" /\ UNCHANGED faults
  \/ Duplicate(a) /\ UNCHANGED <<jobs, faults>> /\ answer = "failed"
  \/ Fault /\ answer = "failed" /\ UNCHANGED jobs

(* JobsRepo.Create: inserted, refused by the index, or an error of the call,  *)
(* which may have inserted the document.  maxAttempts is JobStore's Budget.   *)
Create(a, answer) ==
  \/ ~Duplicate(a) /\ Insert(a) /\ answer = "created" /\ UNCHANGED faults
  \/ Duplicate(a) /\ answer = "conflict" /\ UNCHANGED <<jobs, faults>>
  \/ Fault /\ answer = "failed" /\ (UNCHANGED jobs \/ (~Duplicate(a) /\ Insert(a)))

(* What CreateJob checks before: names, and a cron expression that parses or  *)
(* else a time.                                                               *)
Accepted(req) ==
  req.named /\ (req.cron = "parses" \/ (req.cron = "none" /\ req.scheduled))

MoveOn(c, at, try) == call' = [call EXCEPT ![c] = [@ EXCEPT !.at = at, !.try = try]]
Waits(a) == call[a.by].at = "waiting" /\ call[a.by].try = a.try

CreateJob(a) ==
  /\ a \in inbox
  /\ inbox' = inbox \ {a}
  /\ UNCHANGED <<indexed, serving>>
  /\ \E answer \in Answers :
       /\ IF Accepted(RequestOf(a)) THEN Create(a, answer)
          ELSE answer = "invalid" /\ UNCHANGED <<jobs, faults>>
       /\ IF Waits(a) THEN MoveOn(a.by, answer, a.try) ELSE UNCHANGED call

(* The handler's context ends with the caller's connection. *)
Cancelled(a) ==
  /\ a \in inbox /\ ~Waits(a)
  /\ inbox' = inbox \ {a}
  /\ UNCHANGED <<indexed, serving, call, jobs, faults>>

(* GET /jobs/{id}. *)
GetJob(id) == IF id \in stored THEN phase[id] ELSE "not found"

-----------------------------------------------------------------------------
(* A caller's POST is under way, or refused while nobody listens. *)
Post(c) ==
  LET try == call[c].try + 1 IN
  /\ \/ serving /\ MoveOn(c, "waiting", try) /\ inbox' = inbox \cup {[by |-> c, try |-> try]}
     \/ ~serving /\ MoveOn(c, "failed", try) /\ UNCHANGED inbox
  /\ UNCHANGED <<indexed, serving, jobs, faults>>

Submit(c) == call[c].at = "idle" /\ Post(c)

(* The same request once more, when the service is there again. *)
Retry(c) ==
  /\ call[c].at = "failed" /\ call[c].try < Tries[c]
  /\ serving
  /\ Post(c)

(* No answer: the connection broke with the service, or the time is up. *)
TimeOut(c) ==
  /\ call[c].at = "waiting"
  /\ IF [by |-> c, try |-> call[c].try] \in inbox THEN Fault ELSE UNCHANGED faults
  /\ MoveOn(c, "failed", call[c].try)
  /\ UNCHANGED <<api, jobs>>

(* cmd/seed: the indexes, then a Create per job; an error is logged. *)
Seed(c) ==
  /\ call[c].at = "idle"
  /\ EnsureIndexes
  /\ \E answer \in Answers :
       /\ Create([by |-> c, try |-> 1], answer)
       /\ MoveOn(c, answer, 1)
  /\ UNCHANGED <<serving, inbox>>

(* The pipeline: some move of JobContract for a job that was submitted. *)
Work ==
  /\ \E d \in stored :
       /\ d.by \in Watched
       /\ Job!Start(d) \/ Job!Succeed(d) \/ Job!Abandon(d) \/ Job!Fail(d)
  /\ UNCHANGED <<api, call, stored, faults>>

SubmissionStep ==
  \/ StartApi
  \/ ApiDies
  \/ \E a \in inbox : CreateJob(a) \/ Cancelled(a)
  \/ \E c \in Callers \ Seeders : Retry(c) \/ TimeOut(c)
  \/ \E c \in Seeders : Seed(c)
  \/ Work

(* The service is restarted and answers; callers repeat what failed.  Nothing *)
(* obliges the pipeline to work, or a new caller to come.                     *)
SubmissionFairness ==
  /\ WF_svars(StartApi)
  /\ \A a \in Attempts : WF_svars(CreateJob(a))
  /\ \A c \in Callers \ Seeders : WF_svars(Retry(c)) /\ WF_svars(TimeOut(c))

-----------------------------------------------------------------------------
(***************************************************************************)
(* However requests are repeated, delayed or raced, an idempotency key     *)
(* stands for one document, and a caller that got an answer knows the      *)
(* truth: "created" names its document, "conflict" means the key is taken, *)
(* "invalid" that nothing was inserted.  (jobs_repo.go:34-37, 69-77,       *)
(* handlers/jobs.go:25-64.)                                                *)
(***************************************************************************)
AnswersTrue ==
  /\ \A d, e \in stored : RequestOf(d).key = RequestOf(e).key => d = e
  /\ \A c \in Callers :
       /\ call[c].at = "created" => [by |-> c, try |-> call[c].try] \in stored
       /\ call[c].at = "conflict" => \E d \in stored : RequestOf(d).key = call[c].req.key
       /\ call[c].at = "invalid" => \A d \in stored : d.by # c

(***************************************************************************)
(* Repeating a POST settles it: one more try than can fail, and the caller *)
(* has the job, is told that the key is taken (by its own earlier try,     *)
(* perhaps), or that the request is wrong.  (jobs_repo.go:70-72,           *)
(* handlers/jobs.go:53-63.)                                                *)
(***************************************************************************)
RetriesSettle ==
  \A c \in Callers \ Seeders : Tries[c] > MaxFaults + 1 =>
    (call[c].at # "idle" ~> call[c].at \in {"created", "conflict", "invalid"})
=============================================================================
