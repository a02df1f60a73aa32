----------------------------- MODULE LoadDriver -----------------------------
(***************************************************************************)
(* cmd/loadtest against the API: its send phase, a goroutine per request,  *)
(* and its completion phase, rounds of a goroutine per unfinished job.     *)
(* The goroutines of the send phase are callers of module Submission that  *)
(* try once.                                                               *)
(*                                                                         *)
(* The lookup of a job in results (main goroutine, no lock) and the write  *)
(* of one (poller, under the mutex) take two steps each, so that they can  *)
(* overlap: Go's runtime may then end the program, or the lookup may miss  *)
(* an entry.                                                               *)
(***************************************************************************)
EXTENDS Submission

CONSTANTS
  Senders,      \* the requests of the send phase
  Concurrency,  \* -concurrency
  PollLimit,    \* 30 in the code
  MaxRounds,    \* bound: rounds of polling within -maxwait
  Nobody

ASSUME DriverAssumption ==
  /\ Senders \subseteq Callers \ Seeders
  /\ \A c \in Senders : Tries[c] = 1
  /\ {Concurrency, PollLimit} \subseteq Nat \ {0}
  /\ MaxRounds \in Nat
  /\ Nobody \notin Senders

VARIABLES
  main,     \* where the main goroutine is
  created,  \* senders whose job was appended to created
  errors,   \* senders counted in errCount
  rounds,   \* rounds of polling so far
  todo,     \* jobs this round has still to look at, by sender
  cur,      \* the job it looks at
  poller,   \* per job: "ask", or the final status its poller is to write
  writing,  \* the poller that holds the mutex
  results   \* per job: the status recorded

driver == <<main, created, errors, rounds, todo, cur, poller, writing, results>>
vars == <<indexed, serving, inbox, call, stored, phase, failures, budget, faults,
          main, created, errors, rounds, todo, cur, poller, writing, results>>

(* The job a sender's only try inserts. *)
IdOf(c) == [by |-> c, try |-> 1]

Ended == {"reported", "fatal", "crashed"}
Final == {"done", "dead"}

TypeOK ==
  /\ SubmissionTypeOK
  /\ main \in {"send", "slot", "drain", "poll", "scan", "look", "spawn"} \cup Ended
  /\ created \subseteq Senders /\ errors \subseteq Senders \ created
  /\ rounds \in 0..MaxRounds
  /\ todo \subseteq created
  /\ cur \in created \cup {Nobody}
  /\ poller \in [Senders -> {"none", "ask"} \cup Final]
  /\ writing \in {c \in Senders : poller[c] \in Final} \cup {Nobody}
  /\ results \in [Senders -> {"none"} \cup Final]

Init ==
  /\ SubmissionInit
  /\ main = "send"
  /\ created = {} /\ errors = {}
  /\ rounds = 0 /\ todo = {} /\ cur = Nobody
  /\ poller = [c \in Senders |-> "none"]
  /\ writing = Nobody
  /\ results = [c \in Senders |-> "none"]

-----------------------------------------------------------------------------
(* sendPhase.  Goroutines that have not returned. *)
Unfinished == {c \in Senders : call[c].at # "idle"} \ (created \cup errors)

(* Mutant: an error returns without its slot. *)
SlotsLeaked == {c \in Senders : call[c].at # "idle"} \ created

(* Slots of the semaphore taken: returned with the goroutine. *)
Slots == Unfinished

(* The ticker: one more request, once the semaphore lets it through. *)
NextRequest ==
  /\ main = "send"
  /\ \E c \in Senders : call[c].at = "idle"
  /\ main' = "slot"
  /\ UNCHANGED <<svars, created, errors, rounds, todo, cur, poller, writing, results>>

Send(c) ==
  /\ main = "slot"
  /\ Cardinality(Slots) < Concurrency
  /\ Submit(c)
  /\ main' = "send"
  /\ UNCHANGED <<created, errors, rounds, todo, cur, poller, writing, results>>

(* Mutant: a status other than 201 is counted, and the goroutine goes on. *)
RecordBoth(c) ==
  /\ c \in Unfinished
  /\ call[c].at # "waiting"
  /\ created' = created \cup {c}
  /\ errors' = IF call[c].at = "created" THEN errors ELSE errors \cup {c}
  /\ UNCHANGED <<svars, main, rounds, todo, cur, poller, writing, results>>

(* A goroutine has its answer: 201 with a body that decodes, or an error. *)
Record(c) ==
  /\ c \in Unfinished
  /\ call[c].at # "waiting"
  /\ \/ call[c].at = "created" /\ created' = created \cup {c} /\ UNCHANGED <<errors, faults>>
     \/ /\ errors' = errors \cup {c} /\ UNCHANGED created
        /\ IF call[c].at = "created" THEN Fault ELSE UNCHANGED faults
  /\ UNCHANGED <<api, call, jobs, main, rounds, todo, cur, poller, writing, results>>

(* The duration is over. *)
StopSending ==
  /\ main = "send"
  /\ main' = "drain"
  /\ UNCHANGED <<svars, created, errors, rounds, todo, cur, poller, writing, results>>

(* Mutant: the send phase returns without waiting for its goroutines. *)
DrainAtOnce ==
  /\ main = "drain"
  /\ main' = IF created = {} THEN "fatal" ELSE "poll"
  /\ UNCHANGED <<svars, created, errors, rounds, todo, cur, poller, writing, results>>

(* wg.Wait; without any job there is nothing to measure. *)
Drain ==
  /\ main = "drain"
  /\ Unfinished = {}
  /\ main' = IF created = {} THEN "fatal" ELSE "poll"
  /\ UNCHANGED <<svars, created, errors, rounds, todo, cur, poller, writing, results>>

-----------------------------------------------------------------------------
(* completionPhase.  A round, while a job is unfinished and there is time. *)
Done == {c \in Senders : results[c] # "none"}
Polling == {c \in Senders : poller[c] # "none"}

StartRound ==
  /\ main = "poll"
  /\ Done # created /\ rounds < MaxRounds
  /\ main' = "scan"
  /\ rounds' = rounds + 1
  /\ todo' = created
  /\ UNCHANGED <<svars, created, errors, cur, poller, writing, results>>

Report ==
  /\ main = "poll"
  /\ main' = "reported"
  /\ UNCHANGED <<svars, created, errors, rounds, todo, cur, poller, writing, results>>

BeginLookup ==
  /\ main = "scan"
  /\ \E c \in todo : cur' = c /\ todo' = todo \ {c}
  /\ main' = "look"
  /\ UNCHANGED <<svars, created, errors, rounds, poller, writing, results>>

EndLookup ==
  /\ main = "look"
  /\ \/ cur \in Done /\ main' = "scan" /\ cur' = Nobody
     \/ (cur \notin Done \/ writing # Nobody) /\ main' = "spawn" /\ UNCHANGED cur
  /\ UNCHANGED <<svars, created, errors, rounds, todo, poller, writing, results>>

(* The lookup finds a write under way: "fatal error: concurrent map read and  *)
(* map write".                                                                *)
MapRace ==
  /\ main = "scan" /\ todo # {} /\ writing # Nobody
  /\ main' = "crashed"
  /\ poller' = [c \in Senders |-> "none"]
  /\ writing' = Nobody
  /\ UNCHANGED <<svars, created, errors, rounds, todo, cur, results>>

SpawnPoller ==
  /\ main = "spawn"
  /\ Cardinality(Polling) < PollLimit
  /\ poller' = [poller EXCEPT ![cur] = "ask"]
  /\ main' = "scan" /\ cur' = Nobody
  /\ UNCHANGED <<svars, created, errors, rounds, todo, writing, results>>

(* wg.Wait of the round. *)
EndRound ==
  /\ main = "scan" /\ todo = {}
  /\ Polling = {}
  /\ main' = "poll"
  /\ UNCHANGED <<svars, created, errors, rounds, todo, cur, poller, writing, results>>

(* The status of its answer, if it is one the poller waits for. *)
FinalStatus(c) == LET status == GetJob(IdOf(c)) IN IF status \in Final THEN status ELSE "none"

(* A poller has its answer; any error ends it, for this round. *)
PollJob(c) ==
  /\ poller[c] = "ask"
  /\ \/ serving /\ poller' = [poller EXCEPT ![c] = FinalStatus(c)] /\ UNCHANGED faults
     \/ /\ IF serving THEN Fault ELSE UNCHANGED faults
        /\ poller' = [poller EXCEPT ![c] = "none"]
  /\ UNCHANGED <<api, call, jobs, main, created, errors, rounds, todo, cur, writing, results>>

BeginWrite(c) ==
  /\ poller[c] \in Final
  /\ writing = Nobody
  /\ writing' = c
  /\ UNCHANGED <<svars, main, created, errors, rounds, todo, cur, poller, results>>

EndWrite(c) ==
  /\ writing = c
  /\ results' = [results EXCEPT ![c] = poller[c]]
  /\ poller' = [poller EXCEPT ![c] = "none"]
  /\ writing' = Nobody
  /\ UNCHANGED <<svars, main, created, errors, rounds, todo, cur>>

-----------------------------------------------------------------------------
Main ==
  \/ NextRequest \/ (\E c \in Senders : Send(c)) \/ StopSending \/ Drain
  \/ StartRound \/ Report \/ BeginLookup \/ EndLookup \/ MapRace \/ SpawnPoller \/ EndRound

Goroutine(c) == Record(c) \/ PollJob(c) \/ BeginWrite(c) \/ EndWrite(c)

Next ==
  \/ Main
  \/ \E c \in Senders : Goroutine(c)
  \/ \E c \in Callers \ (Senders \cup Seeders) : Submit(c) /\ UNCHANGED driver
  \/ SubmissionStep /\ UNCHANGED driver

Spec == Init /\ [][Next]_vars

(* The driver's goroutines run. *)
FairSpec ==
  /\ Spec
  /\ SubmissionFairness
  /\ WF_vars(Main)
  /\ \A c \in Senders : WF_vars(Goroutine(c))

-----------------------------------------------------------------------------
(***************************************************************************)
(* The report is right: when it is drawn up every request sent is either   *)
(* among the jobs or among the errors, every job listed exists, and a job  *)
(* counted as completed or dead is so in the store.  (loadtest/main.go:    *)
(* 57-67, 90-137, 154-206.)                                                *)
(***************************************************************************)
ReportTrue ==
  /\ main \notin {"send", "slot", "drain"} => Unfinished = {}
  /\ \A c \in created : IdOf(c) \in stored
  /\ \A c \in Done : results[c] = phase[IdOf(c)]

(***************************************************************************)
(* The driver ends, whatever fails: neither semaphore nor either wait      *)
(* group is left waiting for a goroutine that has returned.                *)
(* (loadtest/main.go:73-138, 154-193.)                                     *)
(***************************************************************************)
DriverEnds == <>(main \in Ended)

(***************************************************************************)
(* The completion phase polls until every job has a final status or time   *)
(* is up.  (Comment at loadtest/main.go:140-143.)  The runtime may end the *)
(* program first: the lookup at line 162 is not under the mutex.           *)
(***************************************************************************)
PollsToTheEnd == main # "crashed"
=============================================================================
