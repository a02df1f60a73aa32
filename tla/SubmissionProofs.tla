-------------------------- MODULE SubmissionProofs --------------------------
(***************************************************************************)
(* The answers of the API are true, for any number of callers, keys,       *)
(* tries and faults, the load driver among the callers.                    *)
(***************************************************************************)
EXTENDS LoadDriver, TLAPS

Call == [at: {"idle", "waiting"} \cup Answers, req: Requests, try: Nat]
Ids == [by: Callers, try: Nat]

CallsOK ==
  /\ call \in [Callers -> Call]
  /\ inbox \subseteq Ids /\ stored \subseteq Ids

(* Nobody is served, and nothing inserted, before the unique index exists. *)
ServedIndexed ==
  /\ serving => indexed
  /\ inbox # {} => serving

(* A key names one document. *)
OnePerKey == \A d, e \in stored : RequestOf(d).key = RequestOf(e).key => d = e

(* Only what CreateJob accepts is inserted, but for the seed's jobs, which    *)
(* never pass through it.                                                     *)
Checked ==
  /\ \A a \in inbox : a.by \notin Seeders
  /\ \A c \in Seeders : call[c].at \notin {"waiting", "invalid"}
  /\ \A d \in stored : d.by \in Seeders \/ Accepted(RequestOf(d))
  /\ \A c \in Callers : call[c].at = "invalid" => ~Accepted(call[c].req)

(* What a caller was told. *)
Told ==
  \A c \in Callers :
    /\ call[c].at = "created" => [by |-> c, try |-> call[c].try] \in stored
    /\ call[c].at = "conflict" => \E d \in stored : RequestOf(d).key = call[c].req.key

AnswersInv == CallsOK /\ ServedIndexed /\ OnePerKey /\ Checked /\ Told

(* The service is down, the collection empty. *)
LEMMA AnswersInvInit == Init => AnswersInv
<1> SUFFICES ASSUME Init
             PROVE  AnswersInv
  OBVIOUS
<1>1. PICK req \in [Callers -> Requests] :
        call = [c \in Callers |-> [at |-> "idle", req |-> req[c], try |-> 0]]
  BY DEF Init, SubmissionInit
<1>2. inbox = {} /\ stored = {} /\ serving = FALSE
  BY DEF Init, SubmissionInit
<1>3. \A c \in Callers : call[c] \in Call /\ call[c].at = "idle"
  BY <1>1 DEF Call, Answers
<1>4. call \in [Callers -> Call]
  BY <1>1, <1>3
<1> QED
  BY <1>2, <1>3, <1>4, SubmissionAssumption DEF AnswersInv, CallsOK, ServedIndexed, OnePerKey, Checked, Told

(* Requests never change, so neither do the keys of the documents. *)
SameRequests == \A c \in Callers : call'[c].req = call[c].req

(* So what is accepted, and unique, stays so. *)
LEMMA RequestsKept ==
  ASSUME SameRequests, stored' \subseteq Ids
  PROVE  \A d \in stored' : RequestOf(d)' = RequestOf(d)
BY DEF SameRequests, Ids, RequestOf

(* A caller moves on: nobody else does, and nobody's request changes. *)
LEMMA MovesOn ==
  ASSUME call \in [Callers -> Call], NEW c \in Callers,
         NEW x \in {"waiting"} \cup Answers, NEW t \in Nat, MoveOn(c, x, t)
  PROVE  /\ call' \in [Callers -> Call]
         /\ SameRequests
         /\ call'[c].at = x /\ call'[c].try = t
         /\ \A b \in Callers \ {c} : call'[b] = call[b]
<1> DEFINE e == [call[c] EXCEPT !.at = x, !.try = t]
<1>1. e \in Call /\ e.req = call[c].req /\ e.at = x /\ e.try = t
  BY DEF Call
<1>2. call' = [call EXCEPT ![c] = e]
  BY DEF MoveOn
<1> HIDE DEF e
<1> QED
  BY <1>1, <1>2 DEF SameRequests

-----------------------------------------------------------------------------
(* JobsRepo.Create with the index there: one document more, under a new key, *)
(* or none; the answer says which.                                           *)
LEMMA CreateStep ==
  ASSUME CallsOK, OnePerKey, indexed', NEW a \in Ids, NEW answer \in Answers, Create(a, answer)
  PROVE  /\ stored' = stored \/ stored' = stored \cup {a}
         /\ \A d, e \in stored' : RequestOf(d).key = RequestOf(e).key => d = e
         /\ answer # "invalid"
         /\ answer = "created" => a \in stored'
         /\ answer = "conflict" => \E d \in stored' : RequestOf(d).key = RequestOf(a).key
<1>1. CASE ~Duplicate(a) /\ Insert(a)
  <2>1. stored' = stored \cup {a} /\ \A d \in stored : RequestOf(d).key # RequestOf(a).key
    BY <1>1 DEF Duplicate, Insert
  <2>2. \A d, e \in stored' : RequestOf(d).key = RequestOf(e).key => d = e
    BY <2>1 DEF OnePerKey
  <2>3. answer \in {"created", "failed"}
    BY <1>1 DEF Create
  <2> QED
    BY <2>1, <2>2, <2>3
<1>2. CASE UNCHANGED jobs
  <2>1. stored' = stored
    BY <1>2 DEF jobs
  <2>2. answer = "created" => a \in stored'
    BY DEF Create, Insert
  <2>3. answer = "conflict" => Duplicate(a)
    BY DEF Create
  <2>4. answer # "invalid"
    BY DEF Create
  <2> QED
    BY <2>1, <2>2, <2>3, <2>4 DEF OnePerKey, Duplicate
<1> QED
  BY <1>1, <1>2 DEF Create

(* Every step of the service, the callers, the seed and the driver keeps it. *)
LEMMA AnswersInvStep == AnswersInv /\ [Next]_vars => AnswersInv'
<1> SUFFICES ASSUME AnswersInv, [Next]_vars
             PROVE  AnswersInv'
  OBVIOUS
<1> USE DEF AnswersInv
<1>1. CASE UNCHANGED <<indexed, serving, inbox, call, stored>>
  BY <1>1 DEF CallsOK, ServedIndexed, OnePerKey, Checked, Told, RequestOf
<1>2. CASE StartApi \/ ApiDies \/ \E a \in inbox : Cancelled(a)
  <2>1. call' = call /\ stored' = stored /\ inbox' \subseteq inbox
    BY <1>2 DEF StartApi, ApiDies, Cancelled, jobs
  <2>2. ServedIndexed'
    BY <1>2 DEF StartApi, ApiDies, Cancelled, EnsureIndexes, ServedIndexed
  <2> QED
    BY <2>1, <2>2 DEF CallsOK, OnePerKey, Checked, Told, RequestOf
<1>3. ASSUME NEW c \in Callers \ Seeders, Post(c) \/ TimeOut(c)
      PROVE  AnswersInv'
  <2>1. PICK x \in {"waiting", "failed"}, t \in Nat : MoveOn(c, x, t)
    BY <1>3 DEF Post, TimeOut, CallsOK, Call
  <2>2. /\ call' \in [Callers -> Call] /\ SameRequests
        /\ call'[c].at = x
        /\ \A b \in Callers \ {c} : call'[b] = call[b]
    BY <2>1, MovesOn DEF CallsOK, Answers
  <2>3. /\ stored' = stored /\ serving' = serving /\ indexed' = indexed
        /\ \/ inbox' = inbox
           \/ inbox' = inbox \cup {[by |-> c, try |-> call[c].try + 1]} /\ serving
    BY <1>3 DEF Post, TimeOut, jobs, api
  <2>4. [by |-> c, try |-> call[c].try + 1] \in Ids
    BY DEF CallsOK, Call, Ids
  <2>5. CallsOK'
    BY <2>2, <2>3, <2>4 DEF CallsOK
  <2>6. \A d \in stored : RequestOf(d)' = RequestOf(d)
    BY <2>2, <2>3, <2>5, RequestsKept DEF CallsOK
  <2>7. ServedIndexed' /\ OnePerKey'
    BY <2>3, <2>6 DEF ServedIndexed, OnePerKey
  <2>8. \A b \in Callers : call'[b] = call[b] \/ (call'[b].at = x /\ b = c)
    BY <2>2
  <2>9. Checked'
    <3>1. \A d \in stored' : d.by \in Seeders \/ Accepted(RequestOf(d)')
      BY <2>3, <2>6 DEF Checked
    <3>2. \A b \in Callers : call'[b].at = "invalid" => ~Accepted(call'[b].req)
      BY <2>8 DEF Checked
    <3>3. /\ \A a \in inbox' : a.by \notin Seeders
          /\ \A b \in Seeders : call'[b].at \notin {"waiting", "invalid"}
      BY <2>3, <2>8, SubmissionAssumption DEF Checked
    <3> QED
      BY <3>1, <3>2, <3>3 DEF Checked, RequestOf
  <2>10. Told'
    BY <2>2, <2>3, <2>6, <2>8 DEF Told, SameRequests
  <2> QED
    BY <2>5, <2>7, <2>9, <2>10
<1>4. ASSUME NEW a \in inbox, CreateJob(a)
      PROVE  AnswersInv'
  <2>0. a \in Ids /\ a.by \in Callers \ Seeders /\ indexed' /\ serving
    BY <1>4 DEF CreateJob, CallsOK, ServedIndexed, Checked, Ids
  <2>1. PICK answer \in Answers :
          /\ IF Accepted(RequestOf(a)) THEN Create(a, answer)
             ELSE answer = "invalid" /\ UNCHANGED <<jobs, faults>>
          /\ IF Waits(a) THEN MoveOn(a.by, answer, a.try) ELSE UNCHANGED call
    BY <1>4 DEF CreateJob
  <2>2. /\ stored' = stored \/ (stored' = stored \cup {a} /\ Accepted(RequestOf(a)))
        /\ \A d, e \in stored' : RequestOf(d).key = RequestOf(e).key => d = e
        /\ answer = "invalid" => ~Accepted(RequestOf(a))
        /\ answer = "created" => a \in stored'
        /\ answer = "conflict" => \E d \in stored' : RequestOf(d).key = RequestOf(a).key
    <3>1. CASE Accepted(RequestOf(a))
      BY <2>0, <2>1, <3>1, CreateStep
    <3>2. CASE ~Accepted(RequestOf(a))
      BY <2>1, <3>2 DEF jobs, OnePerKey
    <3> QED
      BY <3>1, <3>2
  <2>3. inbox' \subseteq inbox /\ serving' = serving /\ indexed' = indexed
    BY <1>4 DEF CreateJob
  <2>4. ServedIndexed'
    BY <2>0, <2>3, Zenon DEF ServedIndexed
  <2>5. CASE Waits(a)
    <3>1. /\ call' \in [Callers -> Call] /\ SameRequests
          /\ call'[a.by].at = answer /\ call'[a.by].try = a.try
          /\ \A b \in Callers \ {a.by} : call'[b] = call[b]
      BY <2>0, <2>1, <2>5, MovesOn DEF CallsOK, Ids
    <3>2. a = [by |-> a.by, try |-> call'[a.by].try]
      BY <2>0, <3>1 DEF Ids
    <3>3. CallsOK'
      BY <2>0, <2>2, <2>3, <3>1 DEF CallsOK
    <3>4. OnePerKey' /\ Checked'
      <4>1. \A d \in stored' : RequestOf(d)' = RequestOf(d)
        BY <3>1, <3>3, RequestsKept DEF CallsOK
      <4>2. OnePerKey'
        BY <2>2, <4>1 DEF OnePerKey
      <4>3. \A d \in stored' : d.by \in Seeders \/ Accepted(RequestOf(d)')
        BY <2>2, <4>1 DEF Checked
      <4>4. \A b \in Callers : call'[b].at = "invalid" => ~Accepted(call'[b].req)
        BY <2>0, <2>2, <3>1 DEF Checked, RequestOf, SameRequests
      <4>5. /\ \A b \in inbox' : b.by \notin Seeders
            /\ \A b \in Seeders : call'[b].at \notin {"waiting", "invalid"}
        BY <2>0, <2>3, <3>1, SubmissionAssumption DEF Checked
      <4> QED
        BY <4>2, <4>3, <4>4, <4>5 DEF Checked, RequestOf
    <3>5. Told'
      BY <2>0, <2>2, <3>1, <3>2 DEF CallsOK, Ids, Told, RequestOf, SameRequests
    <3> QED
      BY <2>4, <3>3, <3>4, <3>5
  <2>6. CASE ~Waits(a)
    BY <2>0, <2>1, <2>2, <2>3, <2>4, <2>6
       DEF CallsOK, OnePerKey, Checked, Told, RequestOf
  <2> QED
    BY <2>5, <2>6
<1>5. ASSUME NEW c \in Seeders, c \in Callers, Seed(c)
      PROVE  AnswersInv'
  <2> DEFINE a == [by |-> c, try |-> 1]
  <2>0. a \in Ids /\ RequestOf(a) = call[c].req /\ indexed'
    BY <1>5 DEF Ids, RequestOf, Seed, EnsureIndexes
  <2>1. PICK answer \in Answers :
          /\ Create(a, answer)
          /\ MoveOn(c, answer, 1)
    BY <1>5 DEF Seed
  <2> HIDE DEF a
  <2>2. /\ stored' = stored \/ stored' = stored \cup {a}
        /\ \A d, e \in stored' : RequestOf(d).key = RequestOf(e).key => d = e
        /\ answer # "invalid"
        /\ answer = "created" => a \in stored'
        /\ answer = "conflict" => \E d \in stored' : RequestOf(d).key = RequestOf(a).key
    BY <2>0, <2>1, CreateStep
  <2>3. inbox' = inbox /\ serving' = serving
    BY <1>5 DEF Seed
  <2>4. /\ call' \in [Callers -> Call] /\ SameRequests
        /\ call'[c].at = answer /\ call'[c].try = 1
        /\ \A b \in Callers \ {c} : call'[b] = call[b]
    BY <1>5, <2>1, MovesOn DEF CallsOK
  <2>5. a.by = c /\ a = [by |-> c, try |-> 1]
    BY DEF a
  <2>6. CallsOK'
    BY <2>0, <2>2, <2>3, <2>4 DEF CallsOK
  <2>7. ServedIndexed'
    <3>1. inbox # {} => serving
      BY DEF ServedIndexed
    <3> QED
      BY <2>0, <2>3, <3>1, Zenon DEF ServedIndexed
  <2>8. OnePerKey' /\ Checked'
    <3>1. \A d \in stored' : RequestOf(d)' = RequestOf(d)
      BY <2>4, <2>6, RequestsKept DEF CallsOK
    <3>2. OnePerKey'
      BY <2>2, <3>1 DEF OnePerKey
    <3>3. \A d \in stored' : d.by \in Seeders \/ Accepted(RequestOf(d)')
      BY <1>5, <2>2, <2>5, <3>1 DEF Checked
    <3>4. \A b \in Callers : call'[b].at = "invalid" => ~Accepted(call'[b].req)
      BY <2>2, <2>4 DEF Checked, SameRequests
    <3>5. /\ \A b \in inbox' : b.by \notin Seeders
          /\ \A b \in Seeders : call'[b].at \notin {"waiting", "invalid"}
      BY <2>2, <2>3, <2>4, SubmissionAssumption DEF Checked, Answers
    <3> QED
      BY <3>2, <3>3, <3>4, <3>5 DEF Checked, RequestOf
  <2>9. Told'
    BY <1>5, <2>0, <2>2, <2>4, <2>5 DEF CallsOK, Ids, Told, RequestOf, SameRequests
  <2> QED
    BY <2>6, <2>7, <2>8, <2>9
<1> QED
  <2>1. Seeders \subseteq Callers /\ Senders \subseteq Callers \ Seeders
    BY SubmissionAssumption, DriverAssumption
  <2>2. CASE Main
    <3>1. ASSUME NEW c \in Senders, Send(c)
          PROVE  Post(c)
      BY <3>1 DEF Send, Submit
    <3>2. ASSUME ~ \E c \in Senders : Send(c)
          PROVE  UNCHANGED <<indexed, serving, inbox, call, stored>>
      BY <2>2, <3>2 DEF Main, NextRequest, StopSending, Drain, StartRound, Report, BeginLookup,
                        EndLookup, MapRace, SpawnPoller, EndRound, svars
    <3> QED
      BY <1>1, <1>3, <2>1, <3>1, <3>2
  <2>3. ASSUME NEW c \in Senders, Goroutine(c)
        PROVE  UNCHANGED <<indexed, serving, inbox, call, stored>>
    BY <2>3 DEF Goroutine, Record, PollJob, BeginWrite, EndWrite, svars, api, jobs
  <2>4. ASSUME NEW c \in Callers \ (Senders \cup Seeders), Submit(c)
        PROVE  Post(c)
    BY <2>4 DEF Submit
  <2>5. CASE SubmissionStep
    <3>1. CASE Work
      BY <1>1, <3>1 DEF Work, api
    <3>2. ASSUME NEW c \in Callers \ Seeders, Retry(c)
          PROVE  Post(c)
      BY <3>2 DEF Retry
    <3> QED
      BY <1>2, <1>3, <1>4, <1>5, <2>1, <2>5, <3>1, <3>2 DEF SubmissionStep
  <2>6. CASE UNCHANGED vars
    BY <1>1, <2>6 DEF vars
  <2> QED
    BY <1>1, <1>3, <2>1, <2>2, <2>3, <2>4, <2>5, <2>6 DEF Next

(* An idempotency key stands for one document and every answer is true        *)
(* (jobs_repo.go:34-37, 69-77, handlers/jobs.go:25-64), however many callers  *)
(* repeat, delay or race their requests.                                      *)
THEOREM AnswersAreTrue == Spec => []AnswersTrue
<1>1. AnswersInv => AnswersTrue
  <2> SUFFICES ASSUME AnswersInv
               PROVE  AnswersTrue
    OBVIOUS
  <2>1. ASSUME NEW c \in Callers, call[c].at = "invalid", NEW d \in stored
        PROVE  d.by # c
    BY <2>1 DEF AnswersInv, Checked, RequestOf
  <2> QED
    BY <2>1 DEF AnswersInv, AnswersTrue, OnePerKey, Told
<1> QED
  BY <1>1, AnswersInvInit, AnswersInvStep, PTL DEF Spec

-----------------------------------------------------------------------------
(* Whoever has called has tried, and no oftener than it may. *)
Tried ==
  \A c \in Callers :
    /\ call[c].try <= Tries[c]
    /\ call[c].at = "idle" <=> call[c].try = 0

CallsInv == SubmissionTypeOK /\ Tried

(* A job has a poller only while a round lasts, and only after the round has *)
(* looked at it: one poller at a time.                                       *)
PollersInv ==
  /\ \A c \in Senders : poller[c] # "none" =>
       main \in {"scan", "look", "spawn"} /\ c \notin todo /\ (main # "scan" => c # cur)
  /\ main \in {"look", "spawn"} => cur \notin todo

(* What a poller is about to write is so in the store. *)
PollersTrue == \A c \in Senders : poller[c] \in Final => poller[c] = phase[IdOf(c)]

DriverInv == AnswersInv /\ Tried /\ TypeOK /\ PollersInv /\ PollersTrue /\ ReportTrue

Calls == [at: {"idle", "waiting"} \cup Answers, req: Requests, try: 0..MaxTries]

(* Documents are added, and a job that has ended is left alone. *)
Grown ==
  /\ stored \subseteq stored' /\ stored' \subseteq Attempts
  /\ phase' \in [Attempts -> Job!Phases]
  /\ \A d \in Attempts : phase[d] \in Final => phase'[d] = phase[d]
  /\ \A d \in Attempts : phase'[d] # "absent" => d \in stored'

(* Nobody has called and nothing is stored. *)
LEMMA CallsInvInit == Init => CallsInv
<1> SUFFICES ASSUME Init
             PROVE  CallsInv
  OBVIOUS
<1>1. PICK req \in [Callers -> Requests] :
        call = [c \in Callers |-> [at |-> "idle", req |-> req[c], try |-> 0]]
  BY DEF Init, SubmissionInit
<1>2. 0 \in 0..MaxTries /\ 0 \in 0..MaxFaults /\ \A c \in Callers : 0 <= Tries[c]
  BY SubmissionAssumption
<1>3. call \in [Callers -> Calls] /\ Tried
  BY <1>1, <1>2 DEF Calls, Tried
<1>4. phase \in [Attempts -> Job!Phases] /\ \A d \in Attempts : phase[d] = "absent"
  BY DEF Init, SubmissionInit, Job!Init, Job!Phases
<1>5. indexed = FALSE /\ serving = FALSE /\ inbox = {} /\ stored = {} /\ faults = 0
  BY DEF Init, SubmissionInit
<1> QED
  BY <1>2, <1>3, <1>4, <1>5 DEF CallsInv, SubmissionTypeOK, Calls

(* A caller goes on to a try it may make. *)
LEMMA TriesOn ==
  ASSUME CallsInv, NEW c \in Callers, NEW x \in {"waiting"} \cup Answers, NEW t \in 1..Tries[c],
         MoveOn(c, x, t)
  PROVE  /\ call' \in [Callers -> Calls] /\ Tried'
         /\ call'[c].at = x /\ \A b \in Callers \ {c} : call'[b] = call[b]
<1> DEFINE e == [call[c] EXCEPT !.at = x, !.try = t]
<1>1. call \in [Callers -> Calls] /\ call[c] \in Calls
  BY DEF CallsInv, SubmissionTypeOK, Calls
<1>2. t \in 0..MaxTries /\ t # 0 /\ t <= Tries[c]
  BY SubmissionAssumption
<1>3. e \in Calls /\ e.at = x /\ e.try = t
  BY <1>1, <1>2 DEF Calls
<1>4. call' = [call EXCEPT ![c] = e]
  BY DEF MoveOn
<1> HIDE DEF e
<1>5. /\ call' \in [Callers -> Calls]
      /\ call'[c] = e /\ \A b \in Callers \ {c} : call'[b] = call[b]
  BY <1>1, <1>3, <1>4
<1> QED
  BY <1>2, <1>3, <1>5 DEF CallsInv, Tried, Answers

(* JobContract's moves. *)
LEMMA LifeMoves ==
  ASSUME CallsInv, NEW a \in Attempts, NEW from \in Job!Phases \ Final, NEW to \in Job!Phases,
         Job!Move(a, from, to)
  PROVE  /\ phase' \in [Attempts -> Job!Phases]
         /\ \A d \in Attempts : phase[d] \in Final => phase'[d] = phase[d]
         /\ \A d \in Attempts \ {a} : phase'[d] = phase[d]
BY DEF CallsInv, SubmissionTypeOK, Job!Move, Job!Phases, Final

(* A step that leaves the collection alone. *)
LEMMA NothingMoves ==
  ASSUME CallsInv, UNCHANGED jobs
  PROVE  Grown
BY DEF CallsInv, SubmissionTypeOK, Grown, jobs

(* InsertOne adds a document; of a one-off job, life begins. *)
LEMMA InsertGrows ==
  ASSUME CallsInv, NEW a \in Attempts, Insert(a)
  PROVE  Grown
<1>1. stored' = stored \cup {a} /\ stored \subseteq Attempts
  BY DEF Insert, CallsInv, SubmissionTypeOK
<1>2. CASE RequestOf(a).cron = "none"
  <2>1. Job!Move(a, "absent", "waiting")
    BY <1>2 DEF Insert, Job!Submit
  <2> QED
    BY <1>1, <2>1, LifeMoves DEF Grown, Job!Phases, Final, CallsInv, SubmissionTypeOK
<1>3. CASE RequestOf(a).cron # "none"
  <2>1. phase' = phase
    BY <1>3 DEF Insert
  <2> QED
    BY <1>1, <2>1 DEF Grown, CallsInv, SubmissionTypeOK
<1> QED
  BY <1>2, <1>3

(* JobsRepo.Create, whatever becomes of its answer. *)
LEMMA CreateGrows ==
  ASSUME CallsInv, NEW a \in Attempts, NEW answer \in Answers, Create(a, answer)
  PROVE  Grown /\ faults' \in 0..MaxFaults
<1>1. faults' = faults \/ Fault
  BY DEF Create
<1>2. faults' \in 0..MaxFaults
  BY <1>1, SubmissionAssumption DEF CallsInv, SubmissionTypeOK, Fault
<1>3. Insert(a) \/ UNCHANGED jobs
  BY DEF Create
<1> QED
  BY <1>2, <1>3, InsertGrows, NothingMoves

(* The rest of the service's state stays in its types. *)
LEMMA CallsKept ==
  ASSUME CallsInv, Grown, faults' \in 0..MaxFaults,
         call' = call \/ (call' \in [Callers -> Calls] /\ Tried'),
         inbox' \subseteq Attempts, inbox' # {} => serving', {indexed', serving'} \subseteq BOOLEAN
  PROVE  CallsInv'
<1>1. call' \in [Callers -> Calls] /\ Tried'
  BY DEF CallsInv, SubmissionTypeOK, Tried, Calls
<1> QED
  BY <1>1 DEF CallsInv, SubmissionTypeOK, Grown, Calls

(* A POST of a caller that may still try. *)
LEMMA PostCalls ==
  ASSUME CallsInv, NEW c \in Callers, call[c].try < Tries[c], Post(c)
  PROVE  CallsInv' /\ Grown /\ \A b \in Callers \ {c} : call'[b] = call[b]
<1>0. call[c].try \in Nat /\ Tries[c] \in 1..MaxTries /\ MaxTries \in Nat
  BY SubmissionAssumption DEF CallsInv, SubmissionTypeOK
<1>1. call[c].try + 1 \in 1..Tries[c] /\ call[c].try + 1 \in 1..MaxTries
  BY <1>0
<1>2. PICK x \in {"waiting", "failed"} : MoveOn(c, x, call[c].try + 1)
  BY DEF Post
<1>3. call' \in [Callers -> Calls] /\ Tried' /\ \A b \in Callers \ {c} : call'[b] = call[b]
  BY <1>1, <1>2, TriesOn DEF Answers
<1>4. inbox' \subseteq Attempts /\ (inbox' # {} => serving')
  <2>1. [by |-> c, try |-> call[c].try + 1] \in Attempts
    BY <1>1 DEF Attempts
  <2> QED
    BY <2>1 DEF Post, CallsInv, SubmissionTypeOK
<1>5. /\ Grown /\ faults' \in 0..MaxFaults /\ {indexed', serving'} \subseteq BOOLEAN
  BY NothingMoves DEF Post, CallsInv, SubmissionTypeOK
<1> QED
  BY <1>3, <1>4, <1>5, CallsKept

(* Nobody begins but by Submit. *)
NoneBegins == \A c \in Callers \ Seeders : call'[c].at # "idle" => call[c].at # "idle"

(* The service, the retries, the seed and the pipeline. *)
LEMMA SubmissionCalls ==
  ASSUME CallsInv, SubmissionStep
  PROVE  CallsInv' /\ Grown /\ NoneBegins
<1>1. /\ {indexed, serving} \subseteq BOOLEAN /\ inbox \subseteq Attempts
      /\ (inbox # {} => serving)
      /\ faults \in 0..MaxFaults
  BY DEF CallsInv, SubmissionTypeOK
<1>2. Fault => faults' \in 0..MaxFaults
  BY <1>1, SubmissionAssumption DEF Fault
<1>3. CASE StartApi \/ ApiDies \/ \E a \in inbox : Cancelled(a)
  <2>1. call' = call /\ UNCHANGED jobs /\ faults' \in 0..MaxFaults
    BY <1>1, <1>2, <1>3 DEF StartApi, ApiDies, Cancelled
  <2>2. /\ inbox' \subseteq Attempts /\ (inbox' # {} => serving')
        /\ {indexed', serving'} \subseteq BOOLEAN
    BY <1>1, <1>3 DEF StartApi, ApiDies, Cancelled, EnsureIndexes
  <2> QED
    BY <2>1, <2>2, NothingMoves, CallsKept DEF NoneBegins
<1>4. ASSUME NEW a \in inbox, CreateJob(a)
      PROVE  CallsInv' /\ Grown /\ NoneBegins
  <2>0. a \in Attempts /\ a.by \in Callers
    BY <1>1 DEF Attempts
  <2>1. PICK answer \in Answers :
          /\ IF Accepted(RequestOf(a)) THEN Create(a, answer)
             ELSE answer = "invalid" /\ UNCHANGED <<jobs, faults>>
          /\ IF Waits(a) THEN MoveOn(a.by, answer, a.try) ELSE UNCHANGED call
    BY <1>4 DEF CreateJob
  <2>2. Grown /\ faults' \in 0..MaxFaults
    BY <1>1, <2>0, <2>1, CreateGrows, NothingMoves
  <2>3. inbox' \subseteq Attempts /\ (inbox' # {} => serving') /\ {indexed', serving'} \subseteq BOOLEAN
    BY <1>1, <1>4 DEF CreateJob
  <2>4. CASE Waits(a)
    <3>1. a.try \in 1..Tries[a.by]
      BY <2>0, <2>4, SubmissionAssumption DEF Waits, CallsInv, Tried, Attempts
    <3>2. /\ call' \in [Callers -> Calls] /\ Tried'
          /\ \A b \in Callers \ {a.by} : call'[b] = call[b]
      BY <2>0, <2>1, <2>4, <3>1, TriesOn
    <3> QED
      BY <2>2, <2>3, <2>4, <3>2, CallsKept DEF NoneBegins, Waits
  <2>5. CASE ~Waits(a)
    BY <2>1, <2>2, <2>3, <2>5, CallsKept DEF NoneBegins
  <2> QED
    BY <2>4, <2>5
<1>5. ASSUME NEW c \in Callers \ Seeders, Retry(c)
      PROVE  CallsInv' /\ Grown /\ NoneBegins
  BY <1>5, PostCalls DEF Retry, NoneBegins
<1>6. ASSUME NEW c \in Callers \ Seeders, TimeOut(c)
      PROVE  CallsInv' /\ Grown /\ NoneBegins
  <2>1. call[c].try \in 1..Tries[c]
    BY <1>6, SubmissionAssumption DEF TimeOut, CallsInv, SubmissionTypeOK, Tried
  <2>2. /\ call' \in [Callers -> Calls] /\ Tried'
        /\ \A b \in Callers \ {c} : call'[b] = call[b]
    BY <1>6, <2>1, TriesOn DEF TimeOut, Answers
  <2>3. UNCHANGED <<api, jobs>> /\ faults' \in 0..MaxFaults /\ call[c].at # "idle"
    BY <1>1, <1>2, <1>6 DEF TimeOut
  <2> QED
    BY <1>1, <2>2, <2>3, NothingMoves, CallsKept DEF NoneBegins, api
<1>7. ASSUME NEW c \in Seeders, c \in Callers, Seed(c)
      PROVE  CallsInv' /\ Grown /\ NoneBegins
  <2>1. PICK answer \in Answers :
          Create([by |-> c, try |-> 1], answer) /\ MoveOn(c, answer, 1)
    BY <1>7 DEF Seed
  <2>2. 1 \in 1..Tries[c] /\ [by |-> c, try |-> 1] \in Attempts
    BY <1>7, SubmissionAssumption DEF Attempts
  <2>3. Grown /\ faults' \in 0..MaxFaults
    BY <2>1, <2>2, CreateGrows
  <2>4. /\ call' \in [Callers -> Calls] /\ Tried'
        /\ \A b \in Callers \ {c} : call'[b] = call[b]
    BY <1>7, <2>1, <2>2, TriesOn
  <2>5. inbox' = inbox /\ serving' = serving /\ indexed' = TRUE
    BY <1>7 DEF Seed, EnsureIndexes
  <2> QED
    BY <1>1, <2>3, <2>4, <2>5, CallsKept DEF NoneBegins
<1>8. CASE Work
  <2>1. PICK d \in stored : Job!Start(d) \/ Job!Succeed(d) \/ Job!Abandon(d) \/ Job!Fail(d)
    BY <1>8 DEF Work
  <2>2. d \in Attempts
    BY DEF CallsInv, SubmissionTypeOK
  <2>3. \E from \in Job!Phases \ Final, to \in Job!Phases : Job!Move(d, from, to)
    BY <2>1 DEF Job!Start, Job!Succeed, Job!Abandon, Job!Fail, Job!Phases, Final
  <2>4. stored' = stored /\ UNCHANGED <<api, call, faults>>
    BY <1>8 DEF Work
  <2>5. Grown
    BY <2>2, <2>3, <2>4, LifeMoves DEF Grown, CallsInv, SubmissionTypeOK
  <2> QED
    BY <1>1, <2>4, <2>5, CallsKept DEF NoneBegins, api
<1> QED
  BY <1>3, <1>4, <1>5, <1>6, <1>7, <1>8, SubmissionAssumption DEF SubmissionStep

-----------------------------------------------------------------------------
(* The driver's part of the types. *)
DriverTypes ==
  /\ main \in {"send", "slot", "drain", "poll", "scan", "look", "spawn"} \cup Ended
  /\ created \subseteq Senders /\ errors \subseteq Senders \ created
  /\ rounds \in 0..MaxRounds
  /\ todo \subseteq created
  /\ cur \in created \cup {Nobody}
  /\ poller \in [Senders -> {"none", "ask"} \cup Final]
  /\ writing \in {c \in Senders : poller[c] \in Final} \cup {Nobody}
  /\ results \in [Senders -> {"none"} \cup Final]

(* The types are the service's and the driver's. *)
LEMMA TypesSplit == TypeOK <=> SubmissionTypeOK /\ DriverTypes
BY DEF TypeOK, DriverTypes

(* The driver has not sent anything. *)
LEMMA DriverInvInit == Init => DriverInv
<1> SUFFICES ASSUME Init
             PROVE  DriverInv
  OBVIOUS
<1>1. AnswersInv /\ SubmissionTypeOK /\ Tried
  BY AnswersInvInit, CallsInvInit DEF CallsInv
<1>2. DriverTypes
  BY DriverAssumption DEF Init, DriverTypes
<1>3. PollersInv /\ PollersTrue /\ ReportTrue
  BY DEF Init, PollersInv, PollersTrue, ReportTrue, Done, Final
<1> QED
  BY <1>1, <1>2, <1>3, TypesSplit DEF DriverInv

(* The job of a sender's only try. *)
LEMMA OnlyTry ==
  ASSUME DriverInv, NEW c \in Senders
  PROVE  /\ IdOf(c) \in Attempts
         /\ call[c].at # "idle" => call[c].try = 1
         /\ call[c].at = "created" => IdOf(c) \in stored
<1>1. c \in Callers \ Seeders /\ Tries[c] = 1 /\ 1 \in 1..MaxTries
  BY SubmissionAssumption, DriverAssumption
<1>2. IdOf(c) \in Attempts
  BY <1>1 DEF IdOf, Attempts
<1>3. call[c].at # "idle" => call[c].try = 1
  BY <1>1 DEF DriverInv, Tried, TypeOK, SubmissionTypeOK
<1>4. call[c].at = "created" => IdOf(c) \in stored
  BY <1>1, <1>3 DEF DriverInv, AnswersInv, Told, IdOf
<1> QED
  BY <1>2, <1>3, <1>4

(* The service, the pipeline and the other callers go on. *)
LEMMA OthersKeepDriver ==
  ASSUME DriverInv, Grown, UNCHANGED driver,
         \A c \in Senders : call'[c].at # "idle" => call[c].at # "idle"
  PROVE  DriverTypes' /\ PollersInv' /\ PollersTrue' /\ ReportTrue'
<1> USE DEF driver
<1>1. DriverTypes'
  BY DEF DriverInv, TypeOK, DriverTypes
<1>2. PollersInv'
  BY DEF DriverInv, PollersInv
<1>3. \A c \in Senders : IdOf(c) \in Attempts /\ IdOf(c)' = IdOf(c)
  BY OnlyTry DEF IdOf
<1>4. \A c \in Senders : phase[IdOf(c)] \in Final => phase'[IdOf(c)] = phase[IdOf(c)]
  BY <1>3 DEF Grown
<1>5. PollersTrue'
  BY <1>3, <1>4 DEF DriverInv, PollersTrue
<1>6. ReportTrue'
  <2>1. Unfinished' \subseteq Unfinished
    BY DEF Unfinished
  <2>2. \A c \in created : IdOf(c) \in stored'
    BY DEF DriverInv, ReportTrue, Grown
  <2>3. \A c \in Done : results[c] \in Final /\ results[c] = phase[IdOf(c)] /\ c \in Senders
    BY DEF DriverInv, ReportTrue, TypeOK, Done
  <2>4. Done' = Done
    BY DEF Done
  <2>5. \A c \in Done : results[c] = phase'[IdOf(c)]
    BY <1>4, <2>3
  <2>6. main \notin {"send", "slot", "drain"} => Unfinished = {}
    BY DEF DriverInv, ReportTrue
  <2> QED
    BY <2>1, <2>2, <2>4, <2>5, <2>6 DEF ReportTrue, IdOf
<1> QED
  BY <1>1, <1>2, <1>5, <1>6

(* The store stands still while the driver moves. *)
LEMMA StoreStill ==
  ASSUME DriverInv, UNCHANGED <<api, call, jobs>>, faults' \in 0..MaxFaults
  PROVE  SubmissionTypeOK' /\ Tried'
<1>1. Grown /\ CallsInv
  BY NothingMoves, TypesSplit DEF DriverInv, CallsInv
<1> QED
  BY <1>1, CallsKept DEF CallsInv, SubmissionTypeOK, api

DriverKept == DriverTypes' /\ PollersInv' /\ PollersTrue' /\ ReportTrue'

(* The send phase. *)
LEMMA SendsKeepDriver ==
  ASSUME DriverInv, NextRequest \/ StopSending \/ Drain
  PROVE  DriverKept
<1>1. /\ UNCHANGED <<svars, created, errors, rounds, todo, cur, poller, writing, results>>
      /\ main \in {"send", "drain"} /\ main' \in {"slot", "drain", "fatal", "poll"}
      /\ main' \notin {"send", "slot", "drain"} => Unfinished = {}
  BY DEF NextRequest, StopSending, Drain
<1>2. DriverTypes'
  BY <1>1 DEF DriverInv, TypeOK, DriverTypes, Ended
<1>3. \A c \in Senders : poller[c] = "none"
  BY <1>1 DEF DriverInv, PollersInv
<1>4. PollersInv' /\ PollersTrue'
  BY <1>1, <1>3 DEF PollersInv, PollersTrue, Final
<1>5. ReportTrue'
  BY <1>1 DEF DriverInv, ReportTrue, Unfinished, Done, IdOf, svars
<1> QED
  BY <1>2, <1>4, <1>5 DEF DriverKept

(* A round: every job is looked at once, and those without a result get a    *)
(* poller.                                                                   *)
LEMMA RoundsKeepDriver ==
  ASSUME DriverInv,
         StartRound \/ Report \/ BeginLookup \/ EndLookup \/ MapRace \/ SpawnPoller \/ EndRound
  PROVE  DriverKept
<1>1. /\ UNCHANGED <<svars, created, errors, results>>
      /\ main \in {"poll", "scan", "look", "spawn"}
      /\ main' \notin {"send", "slot", "drain"}
  BY DEF StartRound, Report, BeginLookup, EndLookup, MapRace, SpawnPoller, EndRound
<1>2. ReportTrue'
  BY <1>1 DEF DriverInv, ReportTrue, Unfinished, Done, IdOf, svars
<1>3. DriverTypes /\ PollersInv /\ PollersTrue
  BY TypesSplit DEF DriverInv
<1>4. \A c \in Senders : IdOf(c)' = IdOf(c) /\ phase'[IdOf(c)] = phase[IdOf(c)]
  BY <1>1 DEF svars, IdOf
<1>5. CASE StartRound \/ Report
  <2>1. \A c \in Senders : poller[c] = "none"
    BY <1>3, <1>5 DEF PollersInv, StartRound, Report
  <2>2. UNCHANGED <<poller, writing, cur>> /\ main' \in {"scan", "reported"}
    BY <1>5 DEF StartRound, Report
  <2>3. DriverTypes'
    <3>1. rounds' \in 0..MaxRounds /\ todo' \subseteq created
      BY <1>3, <1>5, DriverAssumption DEF DriverTypes, StartRound, Report
    <3> QED
      BY <1>1, <1>3, <2>2, <3>1 DEF DriverTypes, Ended
  <2> QED
    BY <1>2, <2>1, <2>2, <2>3 DEF DriverKept, PollersInv, PollersTrue, Final
<1>6. CASE BeginLookup
  <2>1. PICK c \in todo : cur' = c /\ todo' = todo \ {c}
    BY <1>6 DEF BeginLookup
  <2>2. UNCHANGED <<rounds, poller, writing>> /\ main = "scan" /\ main' = "look"
    BY <1>6 DEF BeginLookup
  <2>3. DriverTypes'
    BY <1>1, <1>3, <2>1, <2>2 DEF DriverTypes
  <2>4. PollersInv'
    BY <1>3, <2>1, <2>2 DEF PollersInv
  <2>5. PollersTrue'
    BY <1>3, <1>4, <2>2 DEF PollersTrue
  <2> QED
    BY <1>2, <2>3, <2>4, <2>5 DEF DriverKept
<1>7. CASE EndLookup
  <2>1. /\ UNCHANGED <<rounds, todo, poller, writing>> /\ main = "look"
        /\ \/ main' = "scan" /\ cur' = Nobody
           \/ main' = "spawn" /\ cur' = cur
    BY <1>7 DEF EndLookup
  <2>2. DriverTypes'
    BY <1>1, <1>3, <2>1 DEF DriverTypes
  <2>3. PollersInv'
    BY <1>3, <2>1 DEF PollersInv
  <2>4. PollersTrue'
    BY <1>3, <1>4, <2>1 DEF PollersTrue
  <2> QED
    BY <1>2, <2>2, <2>3, <2>4 DEF DriverKept
<1>8. CASE MapRace
  <2>1. /\ UNCHANGED <<rounds, todo, cur>> /\ main' = "crashed" /\ writing' = Nobody
        /\ poller' = [c \in Senders |-> "none"]
    BY <1>8 DEF MapRace
  <2>2. DriverTypes'
    BY <1>1, <1>3, <2>1 DEF DriverTypes, Ended
  <2> QED
    BY <1>2, <2>1, <2>2 DEF DriverKept, PollersInv, PollersTrue, Final
<1>9. CASE SpawnPoller
  <2>1. /\ UNCHANGED <<rounds, todo, writing>> /\ main = "spawn" /\ main' = "scan" /\ cur' = Nobody
        /\ poller' = [poller EXCEPT ![cur] = "ask"]
    BY <1>9 DEF SpawnPoller
  <2>2. \A c \in Senders : poller'[c] = IF c = cur THEN "ask" ELSE poller[c]
    BY <1>3, <2>1 DEF DriverTypes
  <2>3. writing \in Senders => writing # cur
    BY <1>3, <2>1, DriverAssumption DEF DriverTypes, PollersInv, Final
  <2>4. DriverTypes'
    <3>1. poller' \in [Senders -> {"none", "ask"} \cup Final]
      BY <1>3, <2>1 DEF DriverTypes
    <3>2. writing \in {c \in Senders : poller'[c] \in Final} \cup {Nobody}
      BY <1>3, <2>2, <2>3 DEF DriverTypes
    <3> QED
      BY <1>1, <1>3, <2>1, <3>1, <3>2 DEF DriverTypes
  <2>5. PollersInv'
    BY <1>3, <2>1, <2>2 DEF PollersInv
  <2>6. PollersTrue'
    BY <1>3, <1>4, <2>2 DEF PollersTrue, Final
  <2> QED
    BY <1>2, <2>4, <2>5, <2>6 DEF DriverKept
<1>10. CASE EndRound
  <2>1. UNCHANGED <<rounds, todo, cur, poller, writing>> /\ main' = "poll"
    BY <1>10 DEF EndRound
  <2>2. \A c \in Senders : poller[c] = "none"
    BY <1>10 DEF EndRound, Polling
  <2>3. DriverTypes'
    BY <1>1, <1>3, <2>1 DEF DriverTypes
  <2> QED
    BY <1>2, <2>1, <2>2, <2>3 DEF DriverKept, PollersInv, PollersTrue, Final
<1> QED
  BY <1>5, <1>6, <1>7, <1>8, <1>9, <1>10

(* A goroutine of the send phase or of a round. *)
LEMMA GoroutinesKeepDriver ==
  ASSUME DriverInv, NEW c \in Senders, Goroutine(c)
  PROVE  DriverKept
<1>1. DriverTypes /\ PollersInv /\ PollersTrue /\ ReportTrue
  BY TypesSplit DEF DriverInv
<1>2. UNCHANGED <<call, stored, phase, main, rounds, todo, cur>>
  BY DEF Goroutine, Record, PollJob, BeginWrite, EndWrite, svars, jobs
<1>3. \A b \in Senders : IdOf(b)' = IdOf(b)
  BY DEF IdOf
<1>4. CASE Record(c)
  <2>1. /\ UNCHANGED <<poller, writing, results>>
        /\ c \in Unfinished
        /\ \/ call[c].at = "created" /\ created' = created \cup {c} /\ errors' = errors
           \/ errors' = errors \cup {c} /\ created' = created
    BY <1>4 DEF Record
  <2>2. main \in {"send", "slot", "drain"}
    BY <1>1, <2>1 DEF ReportTrue
  <2>3. DriverTypes'
    BY <1>1, <1>2, <2>1 DEF DriverTypes, Unfinished
  <2>4. PollersInv' /\ PollersTrue'
    BY <1>1, <1>2, <1>3, <2>1 DEF PollersInv, PollersTrue
  <2>5. \A b \in created' : IdOf(b) \in stored
    BY <1>1, <2>1, OnlyTry DEF ReportTrue
  <2>6. \A b \in Done' : results'[b] = phase'[IdOf(b)]
    BY <1>1, <1>2, <2>1 DEF ReportTrue, Done
  <2>7. ReportTrue'
    BY <1>2, <2>2, <2>5, <2>6 DEF ReportTrue, IdOf
  <2> QED
    BY <2>3, <2>4, <2>7 DEF DriverKept
<1>5. CASE PollJob(c)
  <2>1. /\ UNCHANGED <<created, errors, writing, results>>
        /\ poller[c] = "ask"
        /\ \E x \in {FinalStatus(c), "none"} : poller' = [poller EXCEPT ![c] = x]
    BY <1>5 DEF PollJob
  <2>2. PICK x \in {"none"} \cup Final :
          poller' = [poller EXCEPT ![c] = x] /\ (x \in Final => x = phase[IdOf(c)])
    BY <2>1 DEF FinalStatus, GetJob, Final
  <2>3. \A b \in Senders : poller'[b] = IF b = c THEN x ELSE poller[b]
    BY <1>1, <2>2 DEF DriverTypes
  <2>4. DriverTypes'
    <3>1. poller' \in [Senders -> {"none", "ask"} \cup Final]
      BY <1>1, <2>2 DEF DriverTypes
    <3>2. writing \in {b \in Senders : poller'[b] \in Final} \cup {Nobody}
      BY <1>1, <2>1, <2>3 DEF DriverTypes, Final
    <3> QED
      BY <1>1, <1>2, <2>1, <3>1, <3>2 DEF DriverTypes
  <2>5. PollersInv'
    BY <1>1, <1>2, <2>1, <2>3 DEF PollersInv
  <2>6. PollersTrue'
    BY <1>1, <1>2, <1>3, <2>2, <2>3 DEF PollersTrue
  <2>7. ReportTrue'
    BY <1>1, <1>2, <2>1 DEF ReportTrue, Unfinished, Done, IdOf
  <2> QED
    BY <2>4, <2>5, <2>6, <2>7 DEF DriverKept
<1>6. CASE BeginWrite(c)
  <2>1. UNCHANGED <<created, errors, poller, results>> /\ writing' = c /\ poller[c] \in Final
    BY <1>6 DEF BeginWrite
  <2>2. DriverTypes'
    BY <1>1, <1>2, <2>1 DEF DriverTypes
  <2>3. PollersInv' /\ PollersTrue'
    BY <1>1, <1>2, <1>3, <2>1 DEF PollersInv, PollersTrue
  <2>4. ReportTrue'
    BY <1>1, <1>2, <2>1 DEF ReportTrue, Unfinished, Done, IdOf
  <2> QED
    BY <2>2, <2>3, <2>4 DEF DriverKept
<1>7. CASE EndWrite(c)
  <2>1. /\ UNCHANGED <<created, errors>> /\ writing = c /\ writing' = Nobody
        /\ results' = [results EXCEPT ![c] = poller[c]]
        /\ poller' = [poller EXCEPT ![c] = "none"]
    BY <1>7 DEF EndWrite
  <2>2. poller[c] \in Final /\ poller[c] = phase[IdOf(c)]
    BY <1>1, <2>1, DriverAssumption DEF DriverTypes, PollersTrue
  <2>3. \A b \in Senders : /\ poller'[b] = IF b = c THEN "none" ELSE poller[b]
                           /\ results'[b] = IF b = c THEN poller[c] ELSE results[b]
    BY <1>1, <2>1 DEF DriverTypes
  <2>4. DriverTypes'
    <3>1. /\ poller' \in [Senders -> {"none", "ask"} \cup Final]
          /\ results' \in [Senders -> {"none"} \cup Final]
      BY <1>1, <2>1, <2>2 DEF DriverTypes
    <3> QED
      BY <1>1, <1>2, <2>1, <3>1 DEF DriverTypes
  <2>5. PollersInv'
    BY <1>1, <1>2, <2>3 DEF PollersInv
  <2>6. PollersTrue'
    BY <1>1, <1>2, <1>3, <2>3 DEF PollersTrue, Final
  <2>7. \A b \in Done' : results'[b] = phase'[IdOf(b)]
    BY <1>1, <1>2, <2>2, <2>3 DEF ReportTrue, Done
  <2>8. ReportTrue'
    BY <1>1, <1>2, <2>1, <2>7 DEF ReportTrue, Unfinished, IdOf
  <2> QED
    BY <2>4, <2>5, <2>6, <2>8 DEF DriverKept
<1> QED
  BY <1>4, <1>5, <1>6, <1>7 DEF Goroutine

(* One more request, and a caller that begins. *)
LEMMA SendKeepsDriver ==
  ASSUME DriverInv, NEW c \in Senders, Send(c)
  PROVE  CallsInv' /\ DriverKept
<1>1. CallsInv /\ c \in Callers /\ Tries[c] = 1
  BY SubmissionAssumption, DriverAssumption, TypesSplit DEF DriverInv, CallsInv
<1>2. call[c].try < Tries[c] /\ Post(c)
  BY <1>1 DEF Send, Submit, CallsInv, Tried, SubmissionTypeOK
<1>3. CallsInv' /\ Grown /\ \A b \in Callers \ {c} : call'[b] = call[b]
  BY <1>1, <1>2, PostCalls
<1>4. /\ main = "slot" /\ main' = "send" /\ faults' = faults
      /\ UNCHANGED <<created, errors, rounds, todo, cur, poller, writing, results>>
  BY <1>2 DEF Send, Post
<1>5. DriverTypes'
  BY <1>4, TypesSplit DEF DriverInv, DriverTypes
<1>6. \A b \in Senders : poller[b] = "none"
  BY <1>4 DEF DriverInv, PollersInv
<1>7. PollersInv' /\ PollersTrue'
  BY <1>4, <1>6 DEF PollersInv, PollersTrue, Final
<1>8. ReportTrue'
  <2>1. \A b \in created : IdOf(b) \in stored'
    BY <1>3 DEF DriverInv, ReportTrue, Grown
  <2>2. ASSUME NEW b \in Done
        PROVE  results[b] = phase'[IdOf(b)]
    <3>1. b \in Senders /\ results[b] \in Final /\ results[b] = phase[IdOf(b)]
      BY TypesSplit DEF DriverInv, ReportTrue, DriverTypes, Done
    <3> QED
      BY <1>3, <3>1, OnlyTry DEF Grown
  <2> QED
    BY <1>4, <2>1, <2>2 DEF ReportTrue, Done, IdOf
<1> QED
  BY <1>3, <1>5, <1>7, <1>8 DEF DriverKept

(* Every step of the driver, the service and the others keeps all of it. *)
LEMMA DriverInvStep == DriverInv /\ [Next]_vars => DriverInv'
<1> SUFFICES ASSUME DriverInv, [Next]_vars
             PROVE  CallsInv' /\ DriverKept
  BY AnswersInvStep, TypesSplit DEF DriverInv, CallsInv, TypeOK, DriverTypes, DriverKept
<1>1. CallsInv /\ faults \in 0..MaxFaults /\ Seeders \subseteq Callers /\ Senders \subseteq Callers \ Seeders
  BY SubmissionAssumption, DriverAssumption, TypesSplit
     DEF DriverInv, CallsInv, SubmissionTypeOK
<1>2. ASSUME UNCHANGED <<api, call, jobs>>, faults' \in 0..MaxFaults, DriverKept
      PROVE  CallsInv' /\ DriverKept
  BY <1>2, StoreStill DEF CallsInv
<1>3. ASSUME Main, ~ \E c \in Senders : Send(c)
      PROVE  CallsInv' /\ DriverKept
  <2>1. UNCHANGED svars
    BY <1>3 DEF Main, NextRequest, StopSending, Drain, StartRound, Report, BeginLookup,
                EndLookup, MapRace, SpawnPoller, EndRound
  <2> QED
    BY <1>1, <1>2, <1>3, <2>1, SendsKeepDriver, RoundsKeepDriver DEF Main, svars, api, jobs
<1>4. ASSUME NEW c \in Senders, Goroutine(c)
      PROVE  CallsInv' /\ DriverKept
  <2>1. UNCHANGED <<api, call, jobs>> /\ (faults' = faults \/ Fault)
    BY <1>4 DEF Goroutine, Record, PollJob, BeginWrite, EndWrite, svars, api, jobs
  <2>2. faults' \in 0..MaxFaults
    BY <1>1, <2>1, SubmissionAssumption DEF Fault
  <2> QED
    BY <1>2, <1>4, <2>1, <2>2, GoroutinesKeepDriver
<1>5. ASSUME NEW c \in Callers \ (Senders \cup Seeders), Submit(c), UNCHANGED driver
      PROVE  CallsInv' /\ DriverKept
  <2>1. call[c].try < Tries[c] /\ Post(c)
    BY <1>1, <1>5, SubmissionAssumption DEF Submit, CallsInv, Tried, SubmissionTypeOK
  <2>2. CallsInv' /\ Grown /\ \A b \in Callers \ {c} : call'[b] = call[b]
    BY <1>1, <2>1, PostCalls
  <2>3. \A b \in Senders : call'[b].at # "idle" => call[b].at # "idle"
    BY <1>1, <2>2
  <2> QED
    BY <1>5, <2>2, <2>3, OthersKeepDriver DEF DriverKept
<1>6. ASSUME SubmissionStep, UNCHANGED driver
      PROVE  CallsInv' /\ DriverKept
  BY <1>1, <1>6, SubmissionCalls, OthersKeepDriver DEF NoneBegins, DriverKept
<1>7. CASE UNCHANGED vars
  <2>1. UNCHANGED <<api, call, jobs, driver, faults>>
    BY <1>7 DEF vars, api, jobs, driver
  <2>2. Grown
    BY <1>1, <2>1, NothingMoves
  <2> QED
    BY <1>1, <1>2, <2>1, <2>2, OthersKeepDriver DEF DriverKept
<1> QED
  BY <1>1, <1>3, <1>4, <1>5, <1>6, <1>7, SendKeepsDriver DEF Next, Main

(* Calls, documents and the driver's bookkeeping keep their types; the inbox *)
(* of a service that is down is empty (cmd/loadtest/main.go:57-206).         *)
THEOREM DriverTypesKept == Spec => []TypeOK
<1>1. DriverInv => TypeOK
  BY DEF DriverInv
<1> QED
  BY <1>1, DriverInvInit, DriverInvStep, PTL DEF Spec

(* The load test reports what is so (loadtest/main.go:57-67, 90-137,         *)
(* 154-206), for any number of requests, slots and pollers, whatever other   *)
(* clients do and however the runtime schedules its goroutines.              *)
THEOREM ReportsAreTrue == Spec => []ReportTrue
<1>1. DriverInv => ReportTrue
  BY DEF DriverInv
<1> QED
  BY <1>1, DriverInvInit, DriverInvStep, PTL DEF Spec
=============================================================================
