---------------------------- MODULE JobContract -----------------------------
(***************************************************************************)
(* What the scheduler promises the owner of a one-off job, with none of    *)
(* its machinery: the job waits, is worked on by one executor at a time,   *)
(* may be given up and wait again, and ends done or, once its budget of    *)
(* failures is spent and not before, dead.  Both ends are final.           *)
(***************************************************************************)
EXTENDS Naturals

CONSTANT Jobs

VARIABLES
  phase,     \* where each job is
  failures,  \* failures recorded so far
  budget     \* failures after which the job is dead

cvars == <<phase, failures, budget>>

Phases == {"absent", "waiting", "active", "done", "dead"}

Init ==
  /\ phase = [j \in Jobs |-> "absent"]
  /\ failures = [j \in Jobs |-> 0]
  /\ budget = [j \in Jobs |-> 0]

Move(j, from, to) == phase[j] = from /\ phase' = [phase EXCEPT ![j] = to]

Submit(j) ==
  /\ Move(j, "absent", "waiting")
  /\ budget'[j] \in Nat \ {0}
  /\ budget' = [budget EXCEPT ![j] = budget'[j]]
  /\ UNCHANGED failures

Start(j) == Move(j, "waiting", "active") /\ UNCHANGED <<failures, budget>>
Succeed(j) == Move(j, "active", "done") /\ UNCHANGED <<failures, budget>>
Abandon(j) == Move(j, "active", "waiting") /\ UNCHANGED <<failures, budget>>

Fail(j) ==
  /\ failures' = [failures EXCEPT ![j] = @ + 1]
  /\ Move(j, "active", IF failures[j] + 1 = budget[j] THEN "dead" ELSE "waiting")
  /\ UNCHANGED budget

Next == \E j \in Jobs : Submit(j) \/ Start(j) \/ Succeed(j) \/ Abandon(j) \/ Fail(j)
Spec == Init /\ [][Next]_cvars
=============================================================================
