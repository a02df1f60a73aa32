------------------------------ MODULE Election ------------------------------
(***************************************************************************)
(* Leader election of the scheduler processes: the main loop of            *)
(* cmd/scheduler, LeaderElector.RunAsLeader, and of etcd what they use.    *)
(*                                                                         *)
(* A process opens one session (one lease) when it starts and campaigns    *)
(* with it for as long as it lives.  Campaign puts a key bound to the      *)
(* lease and waits until no key created earlier is left; ahead[n] is that  *)
(* set of earlier keys, so the revisions themselves are not needed.        *)
(*                                                                         *)
(* A cut is a partition or a pause longer than the lease's TTL: etcd       *)
(* expires the lease, the client closes session.Done(), in either order    *)
(* and at any distance, and calls may fail meanwhile.  The process itself  *)
(* goes on, and may reach etcd again.                                      *)
(***************************************************************************)
EXTENDS Naturals, FiniteSets

CONSTANTS
  Nodes,      \* scheduler processes
  MaxStarts,  \* bound: how often each process is started
  MaxCuts     \* bound: how many sessions are cut off while their process lives

ASSUME ElectionAssumption == MaxStarts \in Nat \ {0} /\ MaxCuts \in Nat

VARIABLES
  pc,        \* where each process is in its main loop
  starts,    \* how often each process was started: its current session
  stopping,  \* its context is cancelled (SIGTERM)
  cut,       \* its session is no longer kept alive
  done,      \* session.Done() is closed
  leases,    \* sessions whose lease etcd has not expired or revoked
  keys,      \* sessions with a key under the election prefix
  ahead,     \* per process: keys created before its own that still exist
  cuts       \* cuts so far

process == <<pc, starts, stopping>>
session == <<cut, done, cuts>>
etcd == <<leases, keys, ahead>>
vars == <<pc, starts, stopping, cut, done, leases, keys, ahead, cuts>>

Sessions == Nodes \X (1..MaxStarts)
Mine(n) == <<n, starts[n]>>

(* retry is the top of the main loop, pause the sleep after an error. *)
Points == {"down", "retry", "pause", "waiting", "leading", "resigning"}

TypeOK ==
  /\ pc \in [Nodes -> Points]
  /\ starts \in [Nodes -> 0..MaxStarts]
  /\ \A n \in Nodes : pc[n] # "down" => starts[n] > 0
  /\ stopping \in [Nodes -> BOOLEAN]
  /\ cut \in [Nodes -> BOOLEAN]
  /\ done \in [Nodes -> BOOLEAN]
  /\ leases \in SUBSET Sessions
  /\ keys \in SUBSET Sessions
  /\ keys \subseteq leases
  /\ ahead \in [Nodes -> SUBSET Sessions]
  /\ cuts \in 0..MaxCuts

Init ==
  /\ pc = [n \in Nodes |-> "down"]
  /\ starts = [n \in Nodes |-> 0]
  /\ stopping = [n \in Nodes |-> FALSE]
  /\ cut = [n \in Nodes |-> FALSE]
  /\ done = [n \in Nodes |-> FALSE]
  /\ leases = {}
  /\ keys = {}
  /\ ahead = [n \in Nodes |-> {}]
  /\ cuts = 0

Move(n, from, to) == pc[n] = from /\ pc' = [pc EXCEPT ![n] = to]

-----------------------------------------------------------------------------
(* etcd deletes a key: its owner resigned, or its lease is gone. *)
Delete(s) ==
  /\ keys' = keys \ {s}
  /\ ahead' = [n \in Nodes |-> ahead[n] \ {s}]

(* A lease expires when nobody keeps it alive: its process is cut off, dead, *)
(* or already running with a newer session.                                 *)
LeaseExpires(s) ==
  /\ s \in leases
  /\ pc[s[1]] = "down" \/ s # Mine(s[1]) \/ cut[s[1]]
  /\ leases' = leases \ {s}
  /\ Delete(s)
  /\ UNCHANGED <<process, session>>

Cut(n) ==
  /\ pc[n] # "down" /\ ~cut[n] /\ cuts < MaxCuts
  /\ cut' = [cut EXCEPT ![n] = TRUE]
  /\ cuts' = cuts + 1
  /\ UNCHANGED <<process, done, etcd>>

(* The keep-alive channel of the session closes. *)
SessionDone(n) ==
  /\ pc[n] # "down" /\ cut[n] /\ ~done[n]
  /\ done' = [done EXCEPT ![n] = TRUE]
  /\ UNCHANGED <<process, cut, cuts, etcd>>

-----------------------------------------------------------------------------
(* NewLeaderElector: a new client and a new session. *)
Start(n) ==
  /\ starts[n] < MaxStarts
  /\ Move(n, "down", "retry")
  /\ starts' = [starts EXCEPT ![n] = @ + 1]
  /\ stopping' = [stopping EXCEPT ![n] = FALSE]
  /\ cut' = [cut EXCEPT ![n] = FALSE]
  /\ done' = [done EXCEPT ![n] = FALSE]
  /\ leases' = leases \cup {<<n, starts[n] + 1>>}
  /\ ahead' = [ahead EXCEPT ![n] = {}]
  /\ UNCHANGED <<keys, cuts>>

(* Mutant: the key is put without the lease. *)
CampaignWithoutLease(n) ==
  /\ ~stopping[n]
  /\ Move(n, "retry", "waiting")
  /\ keys' = keys \cup {Mine(n)}
  /\ ahead' = IF Mine(n) \in keys THEN ahead ELSE [ahead EXCEPT ![n] = keys]
  /\ UNCHANGED <<starts, stopping, session, leases>>

(* Campaign's transaction: a key the session still has keeps its place.  It   *)
(* needs a live lease.                                                        *)
Campaign(n) ==
  /\ ~stopping[n]
  /\ Mine(n) \in leases
  /\ Move(n, "retry", "waiting")
  /\ keys' = keys \cup {Mine(n)}
  /\ ahead' = IF Mine(n) \in keys THEN ahead ELSE [ahead EXCEPT ![n] = keys]
  /\ UNCHANGED <<starts, stopping, session, leases>>

(* It returns an error when the lease is gone or etcd cannot be reached; so   *)
(* does waiting for the keys ahead.                                           *)
CampaignFails(n) ==
  /\ ~stopping[n]
  /\ Mine(n) \notin leases \/ cut[n]
  /\ Move(n, "retry", "pause") \/ (cut[n] /\ Move(n, "waiting", "pause"))
  /\ UNCHANGED <<starts, stopping, session, etcd>>

Retry(n) == Move(n, "pause", "retry") /\ UNCHANGED <<starts, stopping, session, etcd>>

(* Mutant: Campaign waits for all earlier keys but the last. *)
ElectedTooEarly(n) ==
  /\ Cardinality(ahead[n]) <= 1
  /\ Move(n, "waiting", "leading")
  /\ UNCHANGED <<starts, stopping, session, etcd>>

(* Campaign returns: no earlier key is left.  It does not look at its own. *)
Elected(n) ==
  /\ ahead[n] = {}
  /\ Move(n, "waiting", "leading")
  /\ UNCHANGED <<starts, stopping, session, etcd>>

(* Mutant: nobody watches session.Done(). *)
StopLeadingUnwatched(n) ==
  /\ stopping[n]
  /\ Move(n, "leading", "resigning")
  /\ UNCHANGED <<starts, stopping, session, etcd>>

(* The watcher of session.Done(), or the process's own context, cancels the   *)
(* leader context and loop.Run returns.                                       *)
StopLeading(n) ==
  /\ done[n] \/ stopping[n]
  /\ Move(n, "leading", "resigning")
  /\ UNCHANGED <<starts, stopping, session, etcd>>

(* Best effort: the key goes, or a cut process leaves it to the lease. *)
Resign(n) ==
  /\ Move(n, "resigning", "retry")
  /\ Delete(Mine(n)) \/ (cut[n] /\ UNCHANGED <<keys, ahead>>)
  /\ UNCHANGED <<starts, stopping, session, leases>>

-----------------------------------------------------------------------------
(* SIGTERM, while the process can still be started again. *)
Terminate(n) ==
  /\ pc[n] # "down" /\ ~stopping[n] /\ starts[n] < MaxStarts
  /\ stopping' = [stopping EXCEPT ![n] = TRUE]
  /\ UNCHANGED <<pc, starts, session, etcd>>

(* A cancelled Campaign resigns and returns. *)
AbandonCampaign(n) ==
  /\ stopping[n]
  /\ Move(n, "waiting", "retry")
  /\ Delete(Mine(n)) \/ (cut[n] /\ UNCHANGED <<keys, ahead>>)
  /\ UNCHANGED <<starts, stopping, session, leases>>

(* The main loop returns; elector.Close revokes the lease if it can. *)
Exit(n) ==
  /\ stopping[n]
  /\ Move(n, "retry", "down")
  /\ \/ leases' = leases \ {Mine(n)} /\ Delete(Mine(n))
     \/ cut[n] /\ UNCHANGED etcd
  /\ UNCHANGED <<starts, stopping, session>>

Crash(n) ==
  /\ pc[n] # "down" /\ starts[n] < MaxStarts
  /\ pc' = [pc EXCEPT ![n] = "down"]
  /\ UNCHANGED <<starts, stopping, session, etcd>>

-----------------------------------------------------------------------------
Proceed(n) ==
  \/ Start(n)
  \/ Campaign(n)
  \/ CampaignFails(n)
  \/ Retry(n)
  \/ Elected(n)
  \/ StopLeading(n)
  \/ Resign(n)
  \/ AbandonCampaign(n)
  \/ Exit(n)

Next ==
  \/ \E s \in Sessions : LeaseExpires(s)
  \/ \E n \in Nodes : Cut(n) \/ SessionDone(n) \/ Proceed(n) \/ Terminate(n) \/ Crash(n)

Spec == Init /\ [][Next]_vars

(***************************************************************************)
(* A process goes on (and is started again when it is down), a lease       *)
(* nobody keeps alive expires, a closed session is noticed.                *)
(***************************************************************************)
FairSpec ==
  /\ Spec
  /\ \A n \in Nodes : WF_vars(Proceed(n)) /\ WF_vars(SessionDone(n))
  /\ \A s \in Sessions : WF_vars(LeaseExpires(s))

-----------------------------------------------------------------------------
Leading == {n \in Nodes : pc[n] = "leading"}

(***************************************************************************)
(* Of two processes that both run the scheduler loop, one has lost its     *)
(* lease: etcd never recognises two leaders, through resignations, failed  *)
(* campaigns, restarts and keys left behind.  (election.go:65-104.)        *)
(***************************************************************************)
OneRecognisedLeader ==
  \A m, n \in Leading : Mine(m) \in leases /\ Mine(n) \in leases => m = n

(***************************************************************************)
(* Two processes never both believe they lead.  (election.go:15-20 says    *)
(* there is "no split-brain window".)  The old leader goes on until its    *)
(* client closes session.Done(), which etcd does not wait for.             *)
(***************************************************************************)
NoSplitBrain == Cardinality(Leading) <= 1

(***************************************************************************)
(* When the crashes and cuts are over one process leads, alone and for     *)
(* good.  (cmd/scheduler/main.go:71-88.)                                   *)
(***************************************************************************)
LeadershipSettles == \E n \in Nodes : <>[](Leading = {n})

(***************************************************************************)
(* A leader whose session dies is succeeded: there is a leader again and   *)
(* again.  (cmd/scheduler/main.go:73-75 says a standby takes over.)  The   *)
(* session is created once per process and never renewed.                  *)
(***************************************************************************)
SomeoneTakesOver == []<>(Leading # {})
=============================================================================
