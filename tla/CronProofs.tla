----------------------------- MODULE CronProofs -----------------------------
(***************************************************************************)
(* Theorems about recurring jobs: an occurrence goes without its instance, *)
(* or has a second one, only for a fault, for any number of templates and  *)
(* schedulers and any timeouts (within a period, for the former).          *)
(***************************************************************************)
EXTENDS Cron, FiniteSetTheorems, TLAPS

(* The time left to the next occurrence, or none: so every document waits,   *)
(* and so does the time a scheduler is about to write.                       *)
Upcoming(time) == time \in {0, Period - clock}

DocsWait == \A t \in Templates : Upcoming(tmpl[t].wait)
LoopsWait == \A s \in Schedulers : loop[s].stage = "reschedule" => Upcoming(loop[s].next)

WaitInv == TypeOK /\ DocsWait /\ LoopsWait

(* Instances of t under way: claims not handled yet, and schedulers that      *)
(* have inserted one and have still to move the template on.                  *)
Claimed(t) == {k \in Schedulers \X Claims : k[2] \in batch[k[1]] /\ k[2].id = t}
Moving(t) ==
  {s \in Schedulers : loop[s].stage \in {"parse", "reschedule", "invalid"} /\ loop[s].cur.id = t}

(* The occurrence they were to move it to is there already. *)
Late(t) == {s \in Moving(t) : loop[s].stage = "reschedule" /\ loop[s].next = 0}

(* t can be claimed once more before another fault or occurrence. *)
Open(t) ==
  \/ tmpl[t].status = "absent"
  \/ Due(t)
  \/ /\ tmpl[t].status = "queued"
     /\ tmpl[t].idle >= QueuedTimeout \/ (Claimed(t) = {} /\ Moving(t) = {})

Chance(t) == IF Open(t) THEN 1 ELSE 0

(* What has fired in this period or may fire in it, and what may be under    *)
(* way when the next one begins, is covered by the faults.                   *)
Covered(t) ==
  /\ IsFiniteSet(Claimed(t)) /\ IsFiniteSet(Moving(t))
  /\ fired[t] + Cardinality(Claimed(t)) + Cardinality(Late(t)) + Chance(t) <= 1 + faults
  /\ Cardinality(Claimed(t)) + Cardinality(Moving(t)) + Chance(t) <= 1 + faults

CronInv == WaitInv /\ \A t \in Templates : Covered(t)

(* A queued template was due when it was claimed. *)
QueuedDue == \A t \in Templates : tmpl[t].status = "queued" => tmpl[t].wait = 0

(* Only an expression that does not parse is given up on. *)
KnownValid ==
  /\ \A t \in Templates : tmpl[t].status = "dlq" => ~valid[t]
  /\ \A s \in Schedulers : \A c \in batch[s] : valid[c.id] => c.valid
  /\ \A s \in Schedulers :
       /\ loop[s].cur.id \in Templates /\ valid[loop[s].cur.id] => loop[s].cur.valid
       /\ loop[s].stage = "invalid" => ~loop[s].cur.valid

(* Somebody is going to insert an instance of t, or to write it back. *)
InHand(t) == Claimed(t) # {} \/ Moving(t) # {}

(* Without a fault t fires before time passes, if its occurrence has come,     *)
(* and is claimable when the next one does: a template that is queued and in   *)
(* nobody's hands has been so since the last occurrence, and will be swept.    *)
InTime(t) ==
  /\ tmpl[t].status = "queued" /\ tmpl[t].idle < clock => InHand(t)
  /\ Awaited(t) => Moving(t) = {} /\ (Due(t) \/ Claimed(t) # {} \/ Overdue(t))

Owing(t) == IF valid[t] /\ ~InTime(t) THEN 1 ELSE 0

(* The occurrences missed, and the one about to be, are covered by the faults. *)
Paid(t) == missed[t] + Owing(t) <= faults

MissInv == WaitInv /\ QueuedDue /\ KnownValid /\ \A t \in Templates : Paid(t)

-----------------------------------------------------------------------------
Doc == [status: {"absent", "pending", "queued", "dlq"}, wait: 0..Period, idle: 0..Patience]
Loop == [stage: Stages, cur: Claims \cup {NoClaim}, next: 0..Period]

(* What the bounds and timeouts are. *)
LEMMA Constants ==
  /\ Period \in Nat \ {0} /\ QueuedTimeout \in Nat \ {0} /\ MaxFired \in Nat \ {0}
  /\ MaxFaults \in Nat /\ Patience \in Nat \ {0} /\ QueuedTimeout < Patience
BY CronAssumption DEF Patience

(* The clock turns. *)
LEMMA Turn ==
  ASSUME TypeOK, clock' = (clock + 1) % Period
  PROVE  clock' = IF clock + 1 = Period THEN 0 ELSE clock + 1
<1> Period \in Nat \ {0} /\ clock \in 0..(Period - 1)
  BY Constants DEF TypeOK
<1>1. CASE clock + 1 = Period
  <2>1. Period % Period = 0
    OBVIOUS
  <2> QED
    BY <1>1, <2>1
<1>2. CASE clock + 1 # Period
  BY <1>2
<1> QED
  BY <1>1, <1>2

(* What was upcoming still is, a unit of time later. *)
LEMMA SoonerUpcoming ==
  ASSUME TypeOK, clock' = (clock + 1) % Period, NEW time \in 0..Period
  PROVE  /\ Sooner(time) \in 0..Period
         /\ Upcoming(time) => Sooner(time) \in {0, Period - clock'}
         /\ Upcoming(time) /\ time # 0 /\ Sooner(time) = 0 => clock' = 0
<1> Period \in Nat \ {0} /\ clock \in 0..(Period - 1)
  BY Constants DEF TypeOK
<1>1. CASE clock + 1 = Period
  <2>1. clock' = 0
    BY <1>1, Turn
  <2> QED
    BY <1>1, <2>1 DEF Sooner, Upcoming
<1>2. CASE clock + 1 # Period
  <2>1. clock' = clock + 1
    BY <1>2, Turn
  <2>2. Upcoming(time) => time = 0 \/ time = Period - clock
    BY DEF Upcoming
  <2>3. Sooner(time) = IF time = 0 THEN 0 ELSE time - 1
    BY DEF Sooner
  <2> QED
    BY <1>2, <2>1, <2>2, <2>3
<1> QED
  BY <1>1, <1>2

(* cron.go:19-25: strictly later than now. *)
LEMMA NextLater ==
  ASSUME TypeOK
  PROVE  NextOccurrence \in 1..Period /\ Upcoming(NextOccurrence) /\ 0 \in 0..Period
BY Constants DEF TypeOK, NextOccurrence, Upcoming

(* A status is written, a scheduler goes on: the other fields are kept. *)
Marked(d, x) == [d EXCEPT !.status = x, !.idle = 0]
AtStage(l, x) == [l EXCEPT !.stage = x]

(* Such a record keeps its type. *)
LEMMA Fields ==
  /\ \A d \in Doc, x \in {"pending", "queued", "dlq"} :
       /\ Marked(d, x) \in Doc
       /\ Marked(d, x).status = x /\ Marked(d, x).wait = d.wait /\ Marked(d, x).idle = 0
  /\ \A l \in Loop, x \in Stages :
       /\ AtStage(l, x) \in Loop
       /\ AtStage(l, x).stage = x /\ AtStage(l, x).cur = l.cur /\ AtStage(l, x).next = l.next
<1>1. ASSUME NEW d \in Doc, NEW x \in {"pending", "queued", "dlq"}
      PROVE  /\ Marked(d, x) \in Doc
             /\ Marked(d, x).status = x /\ Marked(d, x).wait = d.wait /\ Marked(d, x).idle = 0
  <2> DEFINE e == [d EXCEPT !.status = x]
  <2>1. e \in Doc
    BY DEF Doc
  <2>2. Marked(d, x) = [e EXCEPT !.idle = 0]
    BY DEF Marked
  <2>3. [e EXCEPT !.idle = 0] \in Doc
    <3> HIDE DEF e
    <3> QED
      BY <2>1, Constants DEF Doc
  <2>4. Marked(d, x).status = x /\ Marked(d, x).wait = d.wait /\ Marked(d, x).idle = 0
    BY DEF Doc, Marked
  <2> QED
    BY <2>2, <2>3, <2>4
<1>2. ASSUME NEW l \in Loop, NEW x \in Stages
      PROVE  /\ AtStage(l, x) \in Loop
             /\ AtStage(l, x).stage = x /\ AtStage(l, x).cur = l.cur /\ AtStage(l, x).next = l.next
  BY DEF Loop, AtStage
<1> QED
  BY <1>1, <1>2

(* A scheduler that is idle, or through with a template. *)
LEMMA Idles == Idle \in Loop /\ \A x \in Stages : [Idle EXCEPT !.stage = x] \in Loop
BY Constants DEF Idle, Loop, Stages

(* No template yet, and no scheduler at work. *)
LEMMA WaitInvInit == Init => WaitInv
<1> SUFFICES ASSUME Init
             PROVE  WaitInv
  OBVIOUS
<1>1. /\ 0 \in 0..(Period - 1) /\ 0 \in 0..Period /\ 0 \in 0..Patience
      /\ 0 \in 0..MaxFired /\ 0 \in 0..MaxFaults
  BY Constants
<1>2. /\ tmpl = [t \in Templates |-> [status |-> "absent", wait |-> 0, idle |-> 0]]
      /\ loop = [s \in Schedulers |-> Idle]
  BY DEF Init
<1>3. TypeOK
  BY <1>1, <1>2 DEF Init, TypeOK, Idle, Stages
<1> QED
  BY <1>2, <1>3 DEF WaitInv, DocsWait, LoopsWait, Upcoming, Idle

(* Time passes. *)
LEMMA AdvanceWaits == WaitInv /\ Advance /\ faults' \in 0..MaxFaults => WaitInv'
<1> SUFFICES ASSUME WaitInv, Advance, faults' \in 0..MaxFaults
             PROVE  WaitInv'
  OBVIOUS
<1>1. TypeOK /\ clock' = (clock + 1) % Period
  BY DEF WaitInv, Advance
<1>2. clock' \in 0..(Period - 1)
  BY <1>1, Turn, Constants DEF TypeOK
<1>3. ASSUME NEW t \in Templates
      PROVE  tmpl'[t] \in Doc /\ tmpl'[t].wait \in {0, Period - clock'}
  <2>1. tmpl[t] \in Doc /\ Upcoming(tmpl[t].wait)
    BY <1>1 DEF WaitInv, DocsWait, TypeOK, Doc
  <2>2. PICK i \in 0..Patience :
          tmpl'[t] = [tmpl[t] EXCEPT !.wait = Sooner(@), !.idle = i]
    <3>1. tmpl[t].idle < Patience => tmpl[t].idle + 1 \in 0..Patience
      BY <2>1, Constants DEF Doc
    <3> QED
      BY <2>1, <3>1 DEF Doc, Advance
  <2>3. tmpl'[t] = [status |-> tmpl[t].status, wait |-> Sooner(tmpl[t].wait), idle |-> i]
    BY <2>1, <2>2 DEF Doc
  <2> QED
    BY <1>1, <2>1, <2>3, SoonerUpcoming DEF Doc
<1>4. ASSUME NEW s \in Schedulers
      PROVE  /\ loop'[s] \in Loop
             /\ loop'[s].stage = "reschedule" => loop'[s].next \in {0, Period - clock'}
  <2>1. /\ loop[s] \in Loop
        /\ loop[s].stage = "reschedule" => Upcoming(loop[s].next)
    BY <1>1 DEF WaitInv, LoopsWait, TypeOK, Loop
  <2>2. loop'[s] = [loop[s] EXCEPT !.next = Sooner(@)]
    BY DEF Advance
  <2>3. loop'[s] = [stage |-> loop[s].stage, cur |-> loop[s].cur, next |-> Sooner(loop[s].next)]
    BY <2>1, <2>2 DEF Loop
  <2> QED
    BY <1>1, <2>1, <2>3, SoonerUpcoming DEF Loop
<1>5. tmpl' \in [Templates -> Doc] /\ loop' \in [Schedulers -> Loop]
  BY <1>3, <1>4 DEF Advance
<1>6. fired' \in [Templates -> 0..MaxFired] /\ valid' = valid /\ batch' = batch
  <2>1. fired \in [Templates -> 0..MaxFired] /\ 0 \in 0..MaxFired
    BY <1>1, Constants DEF TypeOK
  <2> QED
    BY <2>1 DEF Advance
<1>8. missed' \in [Templates -> 0..MaxFired] /\ began' \in [Templates -> BOOLEAN]
  <2>1. missed \in [Templates -> 0..MaxFired] /\ began \in [Templates -> BOOLEAN]
    BY <1>1 DEF TypeOK
  <2>2. \A n \in 0..MaxFired : n < MaxFired => n + 1 \in 0..MaxFired
    BY Constants
  <2> QED
    BY <2>1, <2>2 DEF Advance
<1>7. TypeOK'
  BY <1>1, <1>2, <1>5, <1>6, <1>8 DEF TypeOK, Doc, Loop
<1> QED
  BY <1>3, <1>4, <1>7 DEF WaitInv, DocsWait, LoopsWait, Upcoming

(* A template is written with a time that is upcoming. *)
LEMMA DocWritten ==
  ASSUME WaitInv, NEW t \in Templates, NEW d \in Doc, Upcoming(d.wait),
         tmpl' = [tmpl EXCEPT ![t] = d], clock' = clock
  PROVE  tmpl' \in [Templates -> Doc] /\ DocsWait'
BY DEF WaitInv, TypeOK, DocsWait, Doc, Upcoming

(* SetStatus of the claim, of the sweep and of the dead-lettering. *)
LEMMA DocMarked ==
  ASSUME WaitInv, NEW t \in Templates, NEW x \in {"pending", "queued", "dlq"},
         tmpl' = [tmpl EXCEPT ![t].status = x, ![t].idle = 0], clock' = clock
  PROVE  /\ tmpl' \in [Templates -> Doc] /\ DocsWait'
         /\ tmpl'[t].status = x /\ tmpl'[t].wait = tmpl[t].wait /\ tmpl'[t].idle = 0
         /\ \A u \in Templates \ {t} : tmpl'[u] = tmpl[u]
<1>1. tmpl \in [Templates -> Doc] /\ Upcoming(tmpl[t].wait)
  BY DEF WaitInv, TypeOK, DocsWait, Doc
<1>2. tmpl' = [tmpl EXCEPT ![t] = Marked(tmpl[t], x)]
  BY <1>1 DEF Marked
<1>3. /\ Marked(tmpl[t], x) \in Doc /\ Marked(tmpl[t], x).status = x
      /\ Marked(tmpl[t], x).wait = tmpl[t].wait /\ Marked(tmpl[t], x).idle = 0
  BY <1>1, Fields
<1>4. tmpl'[t] = Marked(tmpl[t], x) /\ \A u \in Templates \ {t} : tmpl'[u] = tmpl[u]
  BY <1>1, <1>2
<1> QED
  BY <1>1, <1>2, <1>3, <1>4, DocWritten

(* A scheduler moves on. *)
LEMMA LoopMoves ==
  ASSUME WaitInv, NEW s \in Schedulers, NEW l \in Loop, l.stage = "reschedule" => Upcoming(l.next),
         loop' = [loop EXCEPT ![s] = l], clock' = clock
  PROVE  /\ loop' \in [Schedulers -> Loop] /\ LoopsWait'
         /\ loop'[s] = l /\ \A r \in Schedulers \ {s} : loop'[r] = loop[r]
BY DEF WaitInv, TypeOK, LoopsWait, Loop, Upcoming

(* The rest of a step that is not time passing. *)
LEMMA WaitKept ==
  ASSUME WaitInv, clock' = clock, began' = began, missed' = missed, faults' \in 0..MaxFaults, valid' \in [Templates -> BOOLEAN],
         fired' \in [Templates -> 0..MaxFired], batch' \in [Schedulers -> SUBSET Claims],
         tmpl' = tmpl \/ (tmpl' \in [Templates -> Doc] /\ DocsWait'),
         loop' = loop \/ (loop' \in [Schedulers -> Loop] /\ LoopsWait')
  PROVE  WaitInv'
<1>1. tmpl' \in [Templates -> Doc] /\ DocsWait'
  BY DEF WaitInv, TypeOK, DocsWait, Doc, Upcoming
<1>2. loop' \in [Schedulers -> Loop] /\ LoopsWait'
  BY DEF WaitInv, TypeOK, LoopsWait, Loop, Upcoming
<1> QED
  BY <1>1, <1>2 DEF WaitInv, TypeOK, Doc, Loop

(* Every step keeps the types and the waits. *)
LEMMA WaitInvStep == WaitInv /\ [Next]_vars => WaitInv'
<1> SUFFICES ASSUME WaitInv, [Next]_vars
             PROVE  WaitInv'
  OBVIOUS
<1>1. /\ TypeOK /\ faults \in 0..MaxFaults /\ valid \in [Templates -> BOOLEAN]
      /\ fired \in [Templates -> 0..MaxFired] /\ batch \in [Schedulers -> SUBSET Claims]
  BY DEF WaitInv, TypeOK
<1>2. Fault => faults' \in 0..MaxFaults
  BY <1>1, Constants DEF Fault
<1>3. Idle \in Loop /\ \A x \in Stages : [Idle EXCEPT !.stage = x] \in Loop
  BY Idles
<1>4. ASSUME NEW t \in Templates, CreateTemplate(t) \/ SeedTemplate(t)
      PROVE  WaitInv'
  <2>0. NextOccurrence \in 0..Period
    BY <1>1, NextLater, Constants
  <2>1. PICK w \in {0, NextOccurrence} : Create(t, w)
    BY <1>4 DEF CreateTemplate, SeedTemplate
  <2> DEFINE d == [status |-> "pending", wait |-> w, idle |-> 0]
  <2>2. d \in Doc /\ Upcoming(d.wait)
    BY <1>1, <2>0, NextLater, Constants DEF Doc, Upcoming
  <2>3. tmpl' = [tmpl EXCEPT ![t] = d]
    BY <2>1 DEF Create
  <2> HIDE DEF d
  <2> QED
    BY <1>1, <2>1, <2>2, <2>3, DocWritten, WaitKept DEF Create
<1>5. ASSUME NEW t \in Templates, EditExpression(t)
      PROVE  WaitInv'
  BY <1>1, <1>5, WaitKept DEF EditExpression
<1>6. ASSUME NEW t \in Templates, Reap(t)
      PROVE  WaitInv'
  BY <1>1, <1>6, DocMarked, WaitKept DEF Reap
<1>7. ASSUME NEW s \in Schedulers, ClaimTemplate(s)
      PROVE  WaitInv'
  <2>1. PICK t \in Templates :
          Flip(t) /\ batch' = [batch EXCEPT ![s] = @ \cup {[id |-> t, valid |-> valid[t]]}]
    BY <1>7 DEF ClaimTemplate
  <2>2. batch' \in [Schedulers -> SUBSET Claims]
    BY <1>1, <2>1 DEF Claims
  <2> QED
    BY <1>1, <1>7, <2>1, <2>2, DocMarked, WaitKept DEF ClaimTemplate, Flip
<1>8. ASSUME NEW s \in Schedulers, ClaimFails(s)
      PROVE  WaitInv'
  <2>1. batch' \in [Schedulers -> SUBSET Claims]
    BY <1>1, <1>8 DEF ClaimFails
  <2>2. tmpl' = tmpl \/ \E t \in Templates : Flip(t)
    BY <1>8 DEF ClaimFails
  <2> QED
    BY <1>1, <1>2, <1>8, <2>1, <2>2, DocMarked, WaitKept DEF ClaimFails, Flip
<1>9. ASSUME NEW s \in Schedulers, HandleBatch(s) \/ EndBatch(s)
      PROVE  WaitInv'
  <2>1. PICK l \in Loop : l.stage # "reschedule" /\ loop' = [loop EXCEPT ![s] = l]
    <3>1. CASE HandleBatch(s)
      <4>1. loop' = [loop EXCEPT ![s] = AtStage(loop[s], "spawn")]
        BY <3>1 DEF HandleBatch, AtStage
      <4> QED
        BY <1>1, <4>1, Fields DEF TypeOK, Loop, Stages
    <3>2. CASE EndBatch(s)
      BY <1>3, <3>2 DEF EndBatch, Idle
    <3> QED
      BY <1>9, <3>1, <3>2
  <2>2. UNCHANGED <<clock, began, missed, tmpl, valid, fired, batch, faults>>
    BY <1>9 DEF HandleBatch, EndBatch
  <2> QED
    BY <1>1, <2>1, <2>2, LoopMoves, WaitKept
<1>10. ASSUME NEW s \in Schedulers, SpawnCronInstance(s)
       PROVE  WaitInv'
  <2>1. PICK c \in batch[s] :
          /\ batch' = [batch EXCEPT ![s] = @ \ {c}]
          /\ \/ /\ Fired(c.id)
                /\ loop' = [loop EXCEPT ![s] = [@ EXCEPT !.stage = "parse", !.cur = c]]
                /\ UNCHANGED faults
             \/ Fault /\ UNCHANGED loop /\ (Fired(c.id) \/ UNCHANGED fired)
    BY <1>10 DEF SpawnCronInstance
  <2>2. batch' \in [Schedulers -> SUBSET Claims] /\ c \in Claims
    BY <1>1, <2>1
  <2>3. fired' \in [Templates -> 0..MaxFired]
    <3>1. \A n \in 0..MaxFired : (IF n < MaxFired THEN n + 1 ELSE n) \in 0..MaxFired
      BY Constants
    <3> QED
      BY <1>1, <2>1, <3>1 DEF Fired
  <2>4. CASE loop' = [loop EXCEPT ![s] = [@ EXCEPT !.stage = "parse", !.cur = c]]
    <3> DEFINE l == [AtStage(loop[s], "parse") EXCEPT !.cur = c]
    <3>1. AtStage(loop[s], "parse") \in Loop /\ AtStage(loop[s], "parse").stage = "parse"
      BY <1>1, Fields DEF TypeOK, Loop, Stages
    <3>2. l \in Loop /\ l.stage = "parse"
      BY <2>2, <3>1 DEF Loop
    <3>3. loop' = [loop EXCEPT ![s] = l]
      BY <2>4 DEF AtStage
    <3> HIDE DEF l
    <3> QED
      BY <1>1, <1>2, <1>10, <2>1, <2>2, <2>3, <3>2, <3>3, LoopMoves, WaitKept
         DEF SpawnCronInstance
  <2>5. CASE loop' = loop
    BY <1>1, <1>2, <1>10, <2>1, <2>2, <2>3, <2>5, WaitKept DEF SpawnCronInstance
  <2> QED
    BY <2>1, <2>4, <2>5
<1>11. ASSUME NEW s \in Schedulers, Parse(s)
       PROVE  WaitInv'
  <2>1. PICK l \in Loop :
          loop' = [loop EXCEPT ![s] = l] /\ (l.stage = "reschedule" => Upcoming(l.next))
    <3>0. loop[s] \in Loop
      BY <1>1 DEF TypeOK, Loop
    <3>1. CASE loop[s].cur.valid
      <4> DEFINE l == [AtStage(loop[s], "reschedule") EXCEPT !.next = NextOccurrence]
      <4>1. AtStage(loop[s], "reschedule") \in Loop
        BY <3>0, Fields DEF Stages
      <4>2. l \in Loop /\ l.next = NextOccurrence
        BY <1>1, <4>1, NextLater, Constants DEF Loop
      <4>3. loop' = [loop EXCEPT ![s] = l]
        BY <1>11, <3>1 DEF AtStage, Parse
      <4> HIDE DEF l
      <4> QED
        BY <1>1, <4>2, <4>3, NextLater
    <3>2. CASE ~loop[s].cur.valid
      <4>1. loop' = [loop EXCEPT ![s] = AtStage(loop[s], "invalid")]
        BY <1>11, <3>2 DEF AtStage, Parse
      <4> QED
        BY <3>0, <4>1, Fields DEF Stages
    <3> QED
      BY <3>1, <3>2
  <2> QED
    BY <1>1, <1>11, <2>1, LoopMoves, WaitKept DEF Parse
<1>12. ASSUME NEW s \in Schedulers, RescheduleCronTemplate(s) \/ MarkCronInvalid(s)
       PROVE  WaitInv'
  <2>1. /\ NextTemplate(s) /\ UNCHANGED <<clock, began, missed, valid, fired, batch>>
        /\ faults' = faults \/ Fault
    BY <1>12 DEF RescheduleCronTemplate, MarkCronInvalid
  <2>2. loop' \in [Schedulers -> Loop] /\ LoopsWait'
    BY <1>3, <2>1, LoopMoves DEF NextTemplate, Idle, Stages
  <2>3. tmpl' = tmpl \/ (tmpl' \in [Templates -> Doc] /\ DocsWait')
    <3> DEFINE t == loop[s].cur.id
    <3>0. loop[s] \in Loop
      BY <1>1 DEF TypeOK, Loop
    <3>1. CASE t \notin Templates
      BY <1>12, <1>1, <3>1 DEF RescheduleCronTemplate, MarkCronInvalid, DeadLetter, TypeOK
    <3>2. CASE t \in Templates /\ RescheduleCronTemplate(s)
      <4> DEFINE d == [status |-> "pending", wait |-> loop[s].next, idle |-> 0]
      <4>1. d \in Doc /\ Upcoming(d.wait)
        BY <3>0, <3>2, Constants DEF RescheduleCronTemplate, WaitInv, LoopsWait, Loop, Doc
      <4>2. tmpl' = tmpl \/ tmpl' = [tmpl EXCEPT ![t] = d]
        BY <3>2 DEF RescheduleCronTemplate
      <4> HIDE DEF d, t
      <4> QED
        BY <2>1, <3>2, <4>1, <4>2, DocWritten
    <3>3. CASE t \in Templates /\ MarkCronInvalid(s)
      <4>1. tmpl' = tmpl \/ DeadLetter(t)
        BY <3>3 DEF MarkCronInvalid
      <4> QED
        BY <2>1, <3>3, <4>1, DocMarked DEF DeadLetter
    <3> QED
      BY <1>12, <3>1, <3>2, <3>3
  <2> QED
    BY <1>1, <1>2, <2>1, <2>2, <2>3, WaitKept
<1>13. ASSUME NEW s \in Schedulers, SchedulerDies(s)
       PROVE  WaitInv'
  <2>1. loop' \in [Schedulers -> Loop] /\ LoopsWait'
    BY <1>3, <1>13, LoopMoves DEF SchedulerDies, Idle
  <2> QED
    BY <1>1, <1>2, <1>13, <2>1, WaitKept DEF SchedulerDies
<1>14. CASE Tick \/ Stall
  BY <1>1, <1>2, <1>14, AdvanceWaits DEF Tick, Stall
<1>15. CASE UNCHANGED vars
  BY <1>1, <1>15, WaitKept DEF vars
<1> QED
  BY <1>4, <1>5, <1>6, <1>7, <1>8, <1>9, <1>10, <1>11, <1>12, <1>13, <1>14, <1>15
     DEF Next, Step, SchedulerStep

-----------------------------------------------------------------------------
(* The documents of recurring jobs and the schedulers at work keep their      *)
(* types, whatever fails (loop.go:82-115, jobs_repo.go:85-114, 232-276).      *)
THEOREM CronTypes == FairSpec => []TypeOK
<1>1. WaitInv => TypeOK
  BY DEF WaitInv
<1> QED
  BY <1>1, WaitInvInit, WaitInvStep, PTL DEF FairSpec

-----------------------------------------------------------------------------
(* Nothing has fired, and every template may be created. *)
LEMMA CronInvInit == Init => CronInv
<1> SUFFICES ASSUME Init
             PROVE  CronInv
  OBVIOUS
<1>1. ASSUME NEW t \in Templates
      PROVE  Covered(t)
  <2>1. fired[t] = 0 /\ faults = 0
    BY <1>1 DEF Init
  <2>2. Claimed(t) = {}
    BY DEF Init, Claimed
  <2>3. Moving(t) = {} /\ Late(t) = {}
    BY DEF Init, Idle, Moving, Late
  <2>4. Chance(t) \in {0, 1}
    BY DEF Chance
  <2> QED
    BY <2>1, <2>2, <2>3, <2>4, FS_EmptySet DEF Covered
<1> QED
  BY <1>1, WaitInvInit DEF CronInv

(* The numbers in Covered. *)
LEMMA Numbers ==
  ASSUME WaitInv, NEW t \in Templates, Covered(t)
  PROVE  /\ fired[t] \in Nat /\ faults \in Nat /\ Chance(t) \in {0, 1}
         /\ Cardinality(Claimed(t)) \in Nat /\ Cardinality(Moving(t)) \in Nat
         /\ Cardinality(Late(t)) \in Nat /\ Cardinality(Late(t)) <= Cardinality(Moving(t))
<1>1. Late(t) \subseteq Moving(t)
  BY DEF Late
<1>2. fired[t] \in Nat /\ faults \in Nat
  BY Constants DEF WaitInv, TypeOK
<1>3. IsFiniteSet(Claimed(t)) /\ IsFiniteSet(Moving(t)) /\ IsFiniteSet(Late(t))
  BY <1>1, FS_Subset DEF Covered
<1> QED
  BY <1>1, <1>2, <1>3, FS_Subset, FS_CardinalityType DEF Chance

(* A step that only takes away, or opens a chance for a fault. *)
LEMMA CoverKept ==
  ASSUME WaitInv, NEW t \in Templates, Covered(t),
         Claimed(t)' \subseteq Claimed(t), Moving(t)' \subseteq Moving(t), Late(t)' \subseteq Late(t),
         fired'[t] \in Nat, fired'[t] <= fired[t],
         (faults' = faults /\ (Open(t)' => Open(t))) \/ faults' = faults + 1
  PROVE  Covered(t)'
<1>1. IsFiniteSet(Claimed(t)) /\ IsFiniteSet(Moving(t)) /\ Late(t) \subseteq Moving(t)
  BY DEF Covered, Late
<1>2. IsFiniteSet(Late(t))
  BY <1>1, FS_Subset
<1>3. /\ IsFiniteSet(Claimed(t)') /\ Cardinality(Claimed(t)') <= Cardinality(Claimed(t))
      /\ IsFiniteSet(Moving(t)') /\ Cardinality(Moving(t)') <= Cardinality(Moving(t))
      /\ IsFiniteSet(Late(t)') /\ Cardinality(Late(t)') <= Cardinality(Late(t))
  BY <1>1, <1>2, FS_Subset
<1>4. /\ Cardinality(Claimed(t)') \in Nat /\ Cardinality(Moving(t)') \in Nat
      /\ Cardinality(Late(t)') \in Nat
  BY <1>3, FS_CardinalityType
<1>5. /\ Chance(t)' \in {0, 1}
      /\ faults' + Chance(t) >= faults + Chance(t)'
  BY Numbers DEF Chance
<1> DEFINE a == Cardinality(Claimed(t))
           b == Cardinality(Moving(t))
           l == Cardinality(Late(t))
<1>6. fired[t] + a + l + Chance(t) <= 1 + faults /\ a + b + Chance(t) <= 1 + faults
  BY DEF Covered
<1>7. /\ fired'[t] + Cardinality(Claimed(t)') + Cardinality(Late(t)') + Chance(t)' <= 1 + faults'
      /\ Cardinality(Claimed(t)') + Cardinality(Moving(t)') + Chance(t)' <= 1 + faults'
  <2>1. fired[t] \in Nat /\ faults \in Nat /\ Chance(t) \in {0, 1} /\ a \in Nat /\ b \in Nat /\ l \in Nat
    BY Numbers
  <2>2. faults' \in Nat
    BY <2>1
  <2> HIDE DEF a, b, l
  <2> QED
    BY <1>3, <1>4, <1>5, <1>6, <2>1, <2>2 DEF a, b, l
<1> QED
  BY <1>3, <1>7 DEF Covered

(* The templates a step is not about. *)
LEMMA SameOpen ==
  ASSUME NEW t \in Templates, tmpl'[t] = tmpl[t], Claimed(t)' = Claimed(t), Moving(t)' = Moving(t)
  PROVE  Open(t)' => Open(t)
BY DEF Open, Due

(* The batches are as they were. *)
LEMMA SameClaims ==
  ASSUME NEW t \in Templates, batch' = batch
  PROVE  Claimed(t)' = Claimed(t)
BY DEF Claimed

(* The schedulers are where they were. *)
LEMMA SameLoops ==
  ASSUME NEW t \in Templates, loop' = loop
  PROVE  Moving(t)' = Moving(t) /\ Late(t)' = Late(t)
BY DEF Moving, Late

(* A batch is dropped. *)
LEMMA FewerClaims ==
  ASSUME WaitInv, NEW t \in Templates, NEW s \in Schedulers, batch' = [batch EXCEPT ![s] = {}]
  PROVE  Claimed(t)' \subseteq Claimed(t)
BY DEF Claimed, WaitInv, TypeOK

(* The claims on t, pair by pair. *)
LEMMA ClaimPairs ==
  ASSUME NEW t \in Templates
  PROVE  /\ Claimed(t) \subseteq Schedulers \X Claims
         /\ \A r \in Schedulers, d \in Claims : <<r, d>> \in Claimed(t) <=> d \in batch[r] /\ d.id = t
         /\ Claimed(t)' \subseteq Schedulers \X Claims
         /\ \A r \in Schedulers, d \in Claims : <<r, d>> \in Claimed(t)' <=> d \in batch'[r] /\ d.id = t
BY DEF Claimed

(* Two sets of pairs with the same pairs. *)
LEMMA SamePairs ==
  ASSUME NEW A, NEW B, NEW S \in SUBSET (A \X B), NEW T \in SUBSET (A \X B),
         \A a \in A, b \in B : <<a, b>> \in S <=> <<a, b>> \in T
  PROVE  S = T
OBVIOUS

(* A scheduler that gets to a stage without a template. *)
LEMMA LoopFree ==
  ASSUME WaitInv, NEW t \in Templates, NEW s \in Schedulers, NEW l \in Loop,
         loop' = [loop EXCEPT ![s] = l], l.stage \in {"claim", "spawn"}
  PROVE  Moving(t)' = Moving(t) \ {s} /\ Late(t)' = Late(t) \ {s}
<1>1. \A r \in Schedulers : loop'[r] = IF r = s THEN l ELSE loop[r]
  BY DEF WaitInv, TypeOK
<1> QED
  BY <1>1 DEF Moving, Late

(* ClaimDueJobs takes the chance for a claim. *)
LEMMA ClaimCovered ==
  ASSUME CronInv, NEW s \in Schedulers, ClaimTemplate(s), NEW t \in Templates
  PROVE  Covered(t)'
<1>1. WaitInv /\ Covered(t)
  BY DEF CronInv
<1>2. PICK u \in Templates :
        /\ Due(u) /\ Flip(u)
        /\ batch' = [batch EXCEPT ![s] = @ \cup {[id |-> u, valid |-> valid[u]]}]
  BY DEF ClaimTemplate
<1>3. fired' = fired /\ faults' = faults /\ clock' = clock
      /\ Moving(t)' = Moving(t) /\ Late(t)' = Late(t)
  BY SameLoops DEF ClaimTemplate
<1> DEFINE c == [id |-> u, valid |-> valid[u]]
<1>4. c \in Claims /\ c.id = u
  BY <1>1 DEF WaitInv, TypeOK, Claims
<1>5. \A r \in Schedulers : batch'[r] = IF r = s THEN batch[r] \cup {c} ELSE batch[r]
  BY <1>1, <1>2 DEF WaitInv, TypeOK
<1> HIDE DEF c
<1>6. CASE t # u
  <2>1. Claimed(t)' = Claimed(t)
    BY <1>4, <1>5, <1>6 DEF Claimed
  <2>2. tmpl'[t] = tmpl[t]
    BY <1>1, <1>2, <1>6 DEF Flip, WaitInv, TypeOK
  <2> QED
    BY <1>1, <1>3, <2>1, <2>2, SameOpen, CoverKept, Numbers
<1>7. CASE t = u
  <2>1. Claimed(t)' = Claimed(t) \cup {<<s, c>>}
    <3> DEFINE S == Claimed(t) \cup {<<s, c>>}
               T == Claimed(t)'
    <3>1. S \in SUBSET (Schedulers \X Claims) /\ T \in SUBSET (Schedulers \X Claims)
      BY <1>4, ClaimPairs
    <3>2. ASSUME NEW r \in Schedulers, NEW d \in Claims
          PROVE  <<r, d>> \in S <=> <<r, d>> \in T
      <4>1. <<r, d>> \in S <=> <<r, d>> \in Claimed(t) \/ (r = s /\ d = c)
        OBVIOUS
      <4>2. d \in batch'[r] <=> d \in batch[r] \/ (r = s /\ d = c)
        BY <1>5
      <4> QED
        BY <1>4, <1>7, <4>1, <4>2, ClaimPairs
    <3> HIDE DEF S, T
    <3>3. S = T
      BY <3>1, <3>2, SamePairs
    <3> QED
      BY <3>3 DEF S, T
  <2>2. tmpl'[t].status = "queued" /\ tmpl'[t].idle = 0
    BY <1>1, <1>2, <1>3, <1>7, DocMarked DEF Flip
  <2>3. Open(t) /\ ~Open(t)'
    <3>0. ~(tmpl'[t].idle >= QueuedTimeout)
      BY <2>2, Constants
    <3>1. Claimed(t)' # {}
      BY <2>1
    <3>2. Open(t)
      BY <1>2, <1>7 DEF Open
    <3>3. ~Open(t)'
      BY <2>2, <3>0, <3>1 DEF Open, Due
    <3> QED
      BY <3>2, <3>3
  <2>4. /\ IsFiniteSet(Claimed(t)')
        /\ Cardinality(Claimed(t)') \in {Cardinality(Claimed(t)), Cardinality(Claimed(t)) + 1}
    BY <1>1, <2>1, FS_AddElement DEF Covered
  <2>5. Chance(t) = 1 /\ Chance(t)' = 0
    BY <2>3 DEF Chance
  <2> QED
    BY <1>1, <1>3, <2>4, <2>5, Numbers DEF Covered
<1> QED
  BY <1>6, <1>7

(* handleCronJob turns a claim into an instance. *)
LEMMA SpawnCovered ==
  ASSUME CronInv, NEW s \in Schedulers, SpawnCronInstance(s), NEW t \in Templates
  PROVE  Covered(t)'
<1>1. WaitInv /\ Covered(t)
  BY DEF CronInv
<1>2. PICK c \in batch[s] :
        /\ batch' = [batch EXCEPT ![s] = @ \ {c}]
        /\ \/ /\ Fired(c.id)
              /\ loop' = [loop EXCEPT ![s] = [@ EXCEPT !.stage = "parse", !.cur = c]]
              /\ UNCHANGED faults
           \/ Fault /\ UNCHANGED loop /\ (Fired(c.id) \/ UNCHANGED fired)
  BY DEF SpawnCronInstance
<1>3. tmpl' = tmpl /\ loop[s].stage = "spawn" /\ s \notin Moving(t)
  BY DEF SpawnCronInstance, Moving
<1>4. c \in Claims
  BY <1>1 DEF WaitInv, TypeOK
<1>5. \A r \in Schedulers : batch'[r] = IF r = s THEN batch[r] \ {c} ELSE batch[r]
  BY <1>1, <1>2 DEF WaitInv, TypeOK
<1>6. Claimed(t)' = Claimed(t) \ {<<s, c>>} /\ (c.id = t <=> <<s, c>> \in Claimed(t))
  <2> DEFINE S == Claimed(t) \ {<<s, c>>}
             T == Claimed(t)'
  <2>1. S \in SUBSET (Schedulers \X Claims) /\ T \in SUBSET (Schedulers \X Claims)
    BY ClaimPairs
  <2>2. ASSUME NEW r \in Schedulers, NEW d \in Claims
        PROVE  <<r, d>> \in S <=> <<r, d>> \in T
    <3>1. <<r, d>> \in S <=> <<r, d>> \in Claimed(t) /\ ~(r = s /\ d = c)
      OBVIOUS
    <3>2. d \in batch'[r] <=> d \in batch[r] /\ ~(r = s /\ d = c)
      BY <1>5
    <3> QED
      BY <3>1, <3>2, ClaimPairs
  <2>3. c.id = t <=> <<s, c>> \in Claimed(t)
    BY <1>4, ClaimPairs
  <2> HIDE DEF S, T
  <2>4. S = T
    BY <2>1, <2>2, SamePairs
  <2> QED
    BY <2>3, <2>4 DEF S, T
<1>7. /\ fired'[t] \in Nat /\ fired'[t] <= fired[t] + 1
      /\ c.id # t => fired'[t] = fired[t]
  <2>1. fired[t] \in Nat
    BY <1>1, Numbers
  <2> QED
    BY <1>1, <1>2, <2>1 DEF Fired, WaitInv, TypeOK
<1>8. ASSUME loop' = [loop EXCEPT ![s] = [@ EXCEPT !.stage = "parse", !.cur = c]]
      PROVE  /\ Late(t)' = Late(t)
             /\ Moving(t)' = IF c.id = t THEN Moving(t) \cup {s} ELSE Moving(t)
  <2>1. loop[s] \in Loop
    BY <1>1 DEF WaitInv, TypeOK, Loop
  <2>2. loop'[s].stage = "parse" /\ loop'[s].cur = c /\ \A r \in Schedulers \ {s} : loop'[r] = loop[r]
    BY <1>1, <1>8, <2>1 DEF WaitInv, TypeOK, Loop
  <2> QED
    BY <1>3, <2>2 DEF Moving, Late
<1>9. CASE c.id # t
  <2>1. Claimed(t)' = Claimed(t) /\ Moving(t)' = Moving(t) /\ Late(t)' = Late(t)
    BY <1>2, <1>6, <1>8, <1>9, SameLoops
  <2>2. Open(t)' => Open(t)
    BY <1>3, <2>1, SameOpen
  <2>3. faults' = faults \/ faults' = faults + 1
    BY <1>2 DEF Fault
  <2>4. fired'[t] <= fired[t]
    BY <1>1, <1>7, <1>9, Numbers
  <2> QED
    BY <1>1, <1>7, <2>1, <2>2, <2>3, <2>4, CoverKept
<1>10. CASE c.id = t
  <2>1. /\ IsFiniteSet(Claimed(t)')
        /\ Cardinality(Claimed(t)') = Cardinality(Claimed(t)) - 1
    BY <1>1, <1>6, <1>10, FS_RemoveElement DEF Covered
  <2>2. Chance(t)' \in {0, 1}
    BY DEF Chance
  <2>3. CASE Fault /\ UNCHANGED loop
    <3>1. Moving(t)' = Moving(t) /\ Late(t)' = Late(t) /\ faults' = faults + 1
      BY <2>3, SameLoops DEF Fault
    <3> QED
      BY <1>1, <1>7, <2>1, <2>2, <3>1, Numbers DEF Covered
  <2>4. CASE loop' = [loop EXCEPT ![s] = [@ EXCEPT !.stage = "parse", !.cur = c]] /\ UNCHANGED faults
    <3>1. Moving(t)' = Moving(t) \cup {s} /\ Late(t)' = Late(t)
      BY <1>8, <1>10, <2>4
    <3>2. /\ IsFiniteSet(Moving(t)')
          /\ Cardinality(Moving(t)') = Cardinality(Moving(t)) + 1
      BY <1>1, <1>3, <3>1, FS_AddElement DEF Covered
    <3>3. Open(t)' => Open(t)
      BY <1>3, <3>1 DEF Open, Due
    <3>4. Chance(t)' <= Chance(t)
      BY <3>3 DEF Chance
    <3> QED
      BY <1>1, <1>7, <2>1, <2>2, <2>4, <3>1, <3>2, <3>4, Numbers DEF Covered
  <2> QED
    BY <1>2, <2>3, <2>4
<1> QED
  BY <1>9, <1>10

(* Parse computes a time still to come. *)
LEMMA ParseCovered ==
  ASSUME CronInv, NEW s \in Schedulers, Parse(s), NEW t \in Templates
  PROVE  Covered(t)'
<1>1. WaitInv /\ Covered(t) /\ loop[s] \in Loop
  BY DEF CronInv, WaitInv, TypeOK, Loop
<1>2. /\ loop'[s].stage \in {"reschedule", "invalid"}
      /\ loop'[s].cur = loop[s].cur
      /\ loop'[s].stage = "reschedule" => loop'[s].next = NextOccurrence
      /\ \A r \in Schedulers \ {s} : loop'[r] = loop[r]
  BY <1>1 DEF Parse, Loop, WaitInv, TypeOK
<1>3. loop[s].stage = "parse" /\ NextOccurrence # 0
  BY <1>1, NextLater DEF Parse, WaitInv
<1>4. Moving(t)' = Moving(t) /\ Late(t)' \subseteq Late(t)
  BY <1>2, <1>3 DEF Moving, Late
<1>5. Claimed(t)' = Claimed(t)
  BY SameClaims DEF Parse
<1>6. Open(t)' => Open(t)
  BY <1>4, <1>5, SameOpen DEF Parse
<1> QED
  BY <1>1, <1>4, <1>5, <1>6, CoverKept, Numbers DEF Parse

(* A scheduler is done with its template: a late one opens a chance. *)
LEMMA MoveCovered ==
  ASSUME CronInv, NEW s \in Schedulers, RescheduleCronTemplate(s) \/ MarkCronInvalid(s),
         NEW t \in Templates
  PROVE  Covered(t)'
<1>1. WaitInv /\ Covered(t) /\ loop[s] \in Loop
  BY DEF CronInv, WaitInv, TypeOK, Loop
<1>2. NextTemplate(s) /\ UNCHANGED <<clock, valid, fired, batch>>
  BY DEF RescheduleCronTemplate, MarkCronInvalid
<1>3. Claimed(t)' = Claimed(t) /\ Moving(t)' = Moving(t) \ {s} /\ Late(t)' = Late(t) \ {s}
  BY <1>1, <1>2, SameClaims, LoopFree, Idles DEF NextTemplate, Idle, Stages
<1>4. fired'[t] \in Nat /\ fired'[t] <= fired[t] /\ fired'[t] = fired[t]
  BY <1>1, <1>2, Numbers
<1>5. CASE Fault
  BY <1>1, <1>3, <1>4, <1>5, CoverKept DEF Fault
<1>6. CASE t # loop[s].cur.id /\ faults' = faults
  <2>1. s \notin Moving(t) /\ s \notin Late(t)
    BY <1>6 DEF Moving, Late
  <2>2. tmpl'[t] = tmpl[t]
    BY <1>1, <1>6 DEF RescheduleCronTemplate, MarkCronInvalid, DeadLetter, WaitInv, TypeOK
  <2>3. Moving(t)' = Moving(t)
    BY <1>3, <2>1
  <2>4. Open(t)' => Open(t)
    BY <1>3, <2>2, <2>3, SameOpen
  <2> QED
    BY <1>1, <1>3, <1>4, <1>6, <2>4, CoverKept
<1>7. CASE t = loop[s].cur.id /\ faults' = faults /\ ~Fault
  <2>1. CASE MarkCronInvalid(s)
    <3>1. DeadLetter(t)
      BY <1>7, <2>1 DEF MarkCronInvalid
    <3>2. tmpl'[t].status = "dlq"
      BY <1>1, <1>2, <3>1, DocMarked DEF DeadLetter
    <3>3. ~Open(t)'
      BY <3>2 DEF Open, Due
    <3> QED
      BY <1>1, <1>3, <1>4, <1>7, <3>3, CoverKept
  <2>2. CASE RescheduleCronTemplate(s)
    <3>1. tmpl' = [tmpl EXCEPT ![t] = [status |-> "pending", wait |-> loop[s].next, idle |-> 0]]
      BY <1>7, <2>2 DEF RescheduleCronTemplate
    <3>2. tmpl'[t].status = "pending" /\ tmpl'[t].wait = loop[s].next
      BY <1>1, <3>1 DEF WaitInv, TypeOK
    <3>3. CASE loop[s].next # 0
      <4>1. ~Open(t)'
        BY <3>2, <3>3 DEF Open, Due
      <4> QED
        BY <1>1, <1>3, <1>4, <1>7, <4>1, CoverKept
    <3>4. CASE loop[s].next = 0
      <4>1. s \in Moving(t) /\ s \in Late(t)
        BY <1>7, <2>2, <3>4 DEF RescheduleCronTemplate, Moving, Late
      <4>2. IsFiniteSet(Moving(t)) /\ IsFiniteSet(Late(t))
        BY <1>1, FS_Subset DEF Covered, Late
      <4>3. /\ IsFiniteSet(Moving(t)') /\ Cardinality(Moving(t)') = Cardinality(Moving(t)) - 1
            /\ Cardinality(Late(t)') = Cardinality(Late(t)) - 1
        BY <1>3, <4>1, <4>2, FS_RemoveElement
      <4>4. Chance(t)' \in {0, 1}
        BY DEF Chance
      <4> QED
        BY <1>1, <1>3, <1>4, <1>7, <4>3, <4>4, Numbers DEF Covered
    <3> QED
      BY <3>3, <3>4
  <2> QED
    BY <2>1, <2>2
<1> QED
  BY <1>5, <1>6, <1>7 DEF RescheduleCronTemplate, MarkCronInvalid

(* Time passes with nobody at work: only the next occurrence makes a        *)
(* template claimable.                                                       *)
LEMMA TickCovered ==
  ASSUME CronInv, Tick, NEW t \in Templates
  PROVE  Covered(t)'
<1>1. WaitInv /\ Covered(t) /\ tmpl[t] \in Doc /\ ~Due(t)
  BY DEF CronInv, WaitInv, TypeOK, Doc, Tick, Brisk
<1>2. batch' = batch /\ \A s \in Schedulers : batch[s] = {} /\ loop[s] = Idle
  BY DEF Tick, Brisk, Advance
<1>3. \A s \in Schedulers : loop'[s].stage = "claim"
  <2>1. loop' = [s \in Schedulers |-> [loop[s] EXCEPT !.next = Sooner(@)]]
    BY DEF Tick, Advance
  <2> QED
    BY <1>2, <2>1 DEF Idle
<1>4. Claimed(t) = {} /\ Claimed(t)' = {}
  BY <1>2 DEF Claimed
<1>5. Moving(t) = {} /\ Moving(t)' = {} /\ Late(t)' = {}
  BY <1>2, <1>3 DEF Moving, Late, Idle
<1>6. fired'[t] \in Nat /\ fired'[t] <= fired[t] /\ (clock' = 0 => fired'[t] = 0)
  <2>1. fired[t] \in Nat
    BY <1>1, Numbers
  <2>2. fired' = IF clock' = 0 THEN [u \in Templates |-> 0] ELSE fired
    BY DEF Tick, Advance
  <2> QED
    BY <2>1, <2>2
<1>7. faults' = faults
  BY DEF Tick
<1>8. CASE clock' = 0
  <2>1. Chance(t)' \in {0, 1} /\ fired'[t] = 0 /\ faults' \in Nat
    BY <1>1, <1>6, <1>7, <1>8, Numbers DEF Chance
  <2>2. /\ IsFiniteSet(Claimed(t)') /\ IsFiniteSet(Moving(t)')
        /\ Cardinality(Claimed(t)') = 0 /\ Cardinality(Moving(t)') = 0
        /\ Cardinality(Late(t)') = 0
    BY <1>4, <1>5, FS_EmptySet
  <2> QED
    BY <2>1, <2>2 DEF Covered
<1>9. CASE clock' # 0
  <2>1. tmpl'[t].status = tmpl[t].status /\ tmpl'[t].wait = Sooner(tmpl[t].wait)
    BY <1>1 DEF Tick, Advance, Doc
  <2>2. Upcoming(tmpl[t].wait) /\ tmpl[t].wait \in 0..Period /\ TypeOK /\ clock' = (clock + 1) % Period
    BY <1>1 DEF WaitInv, DocsWait, Doc, Tick, Advance
  <2>3. tmpl[t].wait # 0 => Sooner(tmpl[t].wait) # 0
    BY <1>9, <2>2, SoonerUpcoming
  <2>4. Open(t)' => Open(t)
    BY <1>1, <1>4, <1>5, <2>1, <2>3 DEF Open, Due
  <2> QED
    BY <1>1, <1>4, <1>5, <1>6, <1>7, <2>4, CoverKept
<1> QED
  BY <1>8, <1>9

(* Time passes with somebody at work. *)
LEMMA StallCovered ==
  ASSUME CronInv, Stall, NEW t \in Templates
  PROVE  Covered(t)'
<1>1. WaitInv /\ Covered(t)
  BY DEF CronInv
<1>2. /\ batch' = batch /\ faults' = faults + 1 /\ clock' = (clock + 1) % Period
      /\ fired'[t] = IF clock' = 0 THEN 0 ELSE fired[t]
  BY DEF Stall, Advance, Fault
<1>3. ASSUME NEW s \in Schedulers
      PROVE  /\ loop'[s].stage = loop[s].stage /\ loop'[s].cur = loop[s].cur
             /\ loop'[s].next = Sooner(loop[s].next)
             /\ loop[s].stage = "reschedule" => Upcoming(loop[s].next)
             /\ loop[s].next \in 0..Period
  BY <1>1 DEF Stall, Advance, WaitInv, TypeOK, LoopsWait
<1>4. Claimed(t)' = Claimed(t) /\ Moving(t)' = Moving(t)
  BY <1>2, <1>3, SameClaims DEF Moving
<1>5. CASE clock' = 0
  <2>1. Late(t)' \subseteq Moving(t)
    BY <1>4 DEF Late
  <2>2. /\ IsFiniteSet(Late(t)') /\ Cardinality(Late(t)') <= Cardinality(Moving(t))
        /\ Cardinality(Late(t)') \in Nat
    BY <1>1, <2>1, FS_Subset, FS_CardinalityType DEF Covered
  <2>3. Chance(t)' \in {0, 1}
    BY DEF Chance
  <2>4. fired'[t] = 0
    BY <1>2, <1>5
  <2> QED
    BY <1>1, <1>2, <1>4, <2>2, <2>3, <2>4, Numbers DEF Covered
<1>6. CASE clock' # 0
  <2>1. Late(t)' \subseteq Late(t)
    <3>1. ASSUME NEW s \in Late(t)'
          PROVE  s \in Late(t)
      <4>1. s \in Moving(t) /\ loop[s].stage = "reschedule" /\ Sooner(loop[s].next) = 0
        BY <1>3, <1>4, <3>1 DEF Late, Moving
      <4>2. loop[s].next = 0
        BY <1>1, <1>2, <1>3, <1>6, <4>1, SoonerUpcoming DEF WaitInv, Moving
      <4> QED
        BY <4>1, <4>2 DEF Late
    <3> QED
      BY <3>1
  <2> QED
    BY <1>1, <1>2, <1>4, <1>6, <2>1, CoverKept, Numbers
<1> QED
  BY <1>5, <1>6

(* Every step keeps the account. *)
LEMMA CronInvStep == CronInv /\ [Next]_vars => CronInv'
<1> SUFFICES ASSUME CronInv, [Next]_vars, NEW t \in Templates
             PROVE  Covered(t)'
  BY WaitInvStep DEF CronInv
<1>1. WaitInv /\ Covered(t) /\ fired[t] \in Nat
  BY Numbers DEF CronInv
<1>2. ASSUME NEW u \in Templates, CreateTemplate(u) \/ SeedTemplate(u) \/ Reap(u)
      PROVE  Covered(t)'
  <2>1. /\ UNCHANGED <<fired, batch, loop, faults>>
        /\ \A v \in Templates \ {u} : tmpl'[v] = tmpl[v]
        /\ Open(u)
    BY <1>1, <1>2 DEF CreateTemplate, SeedTemplate, Create, Reap, WaitInv, TypeOK, Open
  <2>2. Open(t)' => Open(t)
    BY <2>1, SameOpen, SameClaims, SameLoops
  <2> QED
    BY <1>1, <2>1, <2>2, SameClaims, SameLoops, CoverKept
<1>3. CASE UNCHANGED <<tmpl, fired, batch, loop, faults>>
  BY <1>1, <1>3, SameOpen, SameClaims, SameLoops, CoverKept
<1>4. ASSUME NEW s \in Schedulers, ClaimFails(s) \/ SchedulerDies(s)
      PROVE  Covered(t)'
  <2>1. /\ batch' = [batch EXCEPT ![s] = {}] /\ fired' = fired /\ faults' = faults + 1
        /\ loop' = loop \/ loop' = [loop EXCEPT ![s] = Idle]
    <3>1. CASE ClaimFails(s)
      BY <3>1 DEF ClaimFails, Fault
    <3>2. CASE SchedulerDies(s)
      BY <3>2 DEF SchedulerDies, Fault
    <3> QED
      BY <1>4, <3>1, <3>2
  <2>2. Moving(t)' \subseteq Moving(t) /\ Late(t)' \subseteq Late(t)
    <3>1. CASE loop' = loop
      BY <3>1, SameLoops
    <3>2. CASE loop' = [loop EXCEPT ![s] = Idle]
      BY <1>1, <3>2, LoopFree, Idles DEF Idle
    <3> QED
      BY <2>1, <3>1, <3>2
  <2>3. Claimed(t)' \subseteq Claimed(t)
    BY <1>1, <2>1, FewerClaims
  <2>4. fired'[t] \in Nat /\ fired'[t] <= fired[t]
    BY <1>1, <2>1
  <2> QED
    BY <1>1, <2>1, <2>2, <2>3, <2>4, CoverKept
<1>5. ASSUME NEW s \in Schedulers, HandleBatch(s) \/ EndBatch(s)
      PROVE  Covered(t)'
  <2>1. PICK l \in Loop : l.stage \in {"claim", "spawn"} /\ loop' = [loop EXCEPT ![s] = l]
    <3>1. CASE HandleBatch(s)
      <4>1. loop' = [loop EXCEPT ![s] = AtStage(loop[s], "spawn")]
        BY <3>1 DEF HandleBatch, AtStage
      <4>2. AtStage(loop[s], "spawn") \in Loop /\ AtStage(loop[s], "spawn").stage = "spawn"
        BY <1>1, Fields DEF Stages, WaitInv, TypeOK, Loop
      <4> QED
        BY <4>1, <4>2
    <3>2. CASE EndBatch(s)
      BY <3>2, Idles DEF EndBatch, Idle
    <3> QED
      BY <1>5, <3>1, <3>2
  <2>4. UNCHANGED <<tmpl, fired, batch, faults>> /\ loop[s].stage \in {"claim", "spawn"}
    BY <1>5 DEF HandleBatch, EndBatch
  <2>2. s \notin Moving(t) /\ s \notin Late(t)
    BY <2>4 DEF Moving, Late
  <2>3. Moving(t)' = Moving(t) /\ Late(t)' = Late(t)
    <3>1. Moving(t)' = Moving(t) \ {s} /\ Late(t)' = Late(t) \ {s}
      BY <1>1, <2>1, LoopFree
    <3> QED
      BY <2>2, <3>1
  <2>5. Open(t)' => Open(t)
    BY <2>3, <2>4, SameOpen, SameClaims
  <2> QED
    BY <1>1, <2>3, <2>4, <2>5, SameClaims, CoverKept
<1>6. \A u \in Templates : EditExpression(u) => UNCHANGED <<tmpl, fired, batch, loop, faults>>
  BY DEF EditExpression
<1>7. UNCHANGED vars => UNCHANGED <<tmpl, fired, batch, loop, faults>>
  BY DEF vars
<1> QED
  BY <1>2, <1>3, <1>4, <1>5, <1>6, <1>7, ClaimCovered, SpawnCovered, ParseCovered, MoveCovered,
     TickCovered, StallCovered DEF Next, Step, SchedulerStep

(* An occurrence fires once, and once more only for a fault                   *)
(* (cron_test.go:113-117; loop.go:82-115): a template that was claimed twice, *)
(* or was due again within the period, was stalled, lost or swept.            *)
THEOREM SecondFiringsAnswerFaults == FairSpec => []DuplicatesAnswerFaults
<1>1. CronInv => DuplicatesAnswerFaults
  <2> SUFFICES ASSUME CronInv, NEW t \in Templates
               PROVE  fired[t] <= 1 + faults
    BY DEF DuplicatesAnswerFaults
  <2>1. WaitInv /\ Covered(t)
    BY DEF CronInv
  <2> QED
    BY <2>1, Numbers DEF Covered
<1> QED
  BY <1>1, CronInvInit, CronInvStep, PTL DEF FairSpec

-----------------------------------------------------------------------------
(* Nothing is queued or given up on, and no occurrence has come. *)
LEMMA MissInvInit == Init => MissInv
<1> SUFFICES ASSUME Init
             PROVE  MissInv
  OBVIOUS
<1>1. WaitInv
  BY WaitInvInit
<1>2. QueuedDue
  BY DEF Init, QueuedDue
<1>3. KnownValid
  BY CronAssumption DEF Init, KnownValid, Idle, NoClaim
<1>4. ASSUME NEW t \in Templates
      PROVE  Paid(t)
  <2>1. InTime(t)
    BY <1>4 DEF Init, InTime, Awaited
  <2> QED
    BY <1>4, <2>1 DEF Init, Paid, Owing
<1> QED
  BY <1>1, <1>2, <1>3, <1>4 DEF MissInv

(* A claim is on a due template, and nothing writes "queued" but a claim. *)
LEMMA QueuedDueStep == WaitInv /\ QueuedDue /\ [Next]_vars => QueuedDue'
<1> SUFFICES ASSUME WaitInv, QueuedDue, [Next]_vars, NEW t \in Templates, tmpl'[t].status = "queued"
             PROVE  tmpl'[t].wait = 0
  BY DEF QueuedDue
<1>1. tmpl \in [Templates -> Doc] /\ (tmpl[t].status = "queued" => tmpl[t].wait = 0)
  BY DEF WaitInv, TypeOK, Doc, QueuedDue
<1>2. ASSUME NEW u \in Templates, NEW d \in Doc, d.status # "queued", tmpl' = [tmpl EXCEPT ![u] = d]
      PROVE  tmpl'[t].wait = 0
  BY <1>1, <1>2
<1>3. ASSUME NEW u \in Templates, NEW x \in {"pending", "dlq"},
             tmpl' = [tmpl EXCEPT ![u].status = x, ![u].idle = 0]
      PROVE  tmpl'[t].wait = 0
  <2>1. tmpl' = [tmpl EXCEPT ![u] = Marked(tmpl[u], x)]
    BY <1>1, <1>3 DEF Marked
  <2>2. Marked(tmpl[u], x) \in Doc /\ Marked(tmpl[u], x).status # "queued"
    BY <1>1, Fields
  <2> QED
    BY <1>2, <2>1, <2>2
<1>4. ASSUME NEW u \in Templates, Due(u), Flip(u)
      PROVE  tmpl'[t].wait = 0
  <2>1. tmpl' = [tmpl EXCEPT ![u] = Marked(tmpl[u], "queued")]
    BY <1>1, <1>4 DEF Marked, Flip
  <2>2. Marked(tmpl[u], "queued").wait = tmpl[u].wait
    BY <1>1, Fields
  <2> QED
    BY <1>1, <1>4, <2>1, <2>2 DEF Due
<1>5. CASE tmpl' = tmpl
  BY <1>1, <1>5
<1>6. CASE Advance
  <2>1. tmpl'[t].status = tmpl[t].status /\ tmpl'[t].wait = Sooner(tmpl[t].wait)
    BY <1>1, <1>6 DEF Advance, Doc
  <2> QED
    BY <1>1, <2>1 DEF Sooner
<1>7. ASSUME NEW u \in Templates, CreateTemplate(u) \/ SeedTemplate(u)
      PROVE  tmpl'[t].wait = 0
  <2>1. PICK w \in {0, NextOccurrence} : Create(u, w)
    BY <1>7 DEF CreateTemplate, SeedTemplate
  <2> DEFINE d == [status |-> "pending", wait |-> w, idle |-> 0]
  <2>2. d \in Doc /\ d.status # "queued"
    BY NextLater, Constants DEF Doc, WaitInv
  <2>3. tmpl' = [tmpl EXCEPT ![u] = d]
    BY <2>1 DEF Create
  <2> HIDE DEF d
  <2> QED
    BY <1>2, <2>2, <2>3
<1>8. ASSUME NEW s \in Schedulers, RescheduleCronTemplate(s)
      PROVE  tmpl'[t].wait = 0
  <2> DEFINE u == loop[s].cur.id
             d == [status |-> "pending", wait |-> loop[s].next, idle |-> 0]
  <2>1. d \in Doc /\ d.status # "queued"
    BY Constants DEF Doc, WaitInv, TypeOK
  <2>2. tmpl' = tmpl \/ tmpl' = [tmpl EXCEPT ![u] = d]
    BY <1>8 DEF RescheduleCronTemplate
  <2>3. u \notin Templates => [tmpl EXCEPT ![u] = d] = tmpl
    BY <1>1
  <2> HIDE DEF u, d
  <2> QED
    BY <1>2, <1>5, <2>1, <2>2, <2>3
<1>9. ASSUME NEW s \in Schedulers, MarkCronInvalid(s)
      PROVE  tmpl'[t].wait = 0
  <2> DEFINE u == loop[s].cur.id
  <2>1. tmpl' = tmpl \/ DeadLetter(u)
    BY <1>9 DEF MarkCronInvalid
  <2>2. u \notin Templates /\ DeadLetter(u) => tmpl' = tmpl
    BY <1>1 DEF DeadLetter
  <2> HIDE DEF u
  <2> QED
    BY <1>3, <1>5, <2>1, <2>2 DEF DeadLetter
<1>10. ASSUME NEW s \in Schedulers, ClaimTemplate(s) \/ ClaimFails(s)
       PROVE  tmpl'[t].wait = 0
  BY <1>4, <1>5, <1>10 DEF ClaimTemplate, ClaimFails
<1>11. ASSUME NEW u \in Templates, Reap(u)
       PROVE  tmpl'[t].wait = 0
  BY <1>3, <1>11 DEF Reap
<1>12. ASSUME NEW s \in Schedulers,
              HandleBatch(s) \/ EndBatch(s) \/ SpawnCronInstance(s) \/ Parse(s) \/ SchedulerDies(s)
       PROVE  tmpl'[t].wait = 0
  BY <1>5, <1>12 DEF HandleBatch, EndBatch, SpawnCronInstance, Parse, SchedulerDies
<1>13. ASSUME NEW u \in Templates, EditExpression(u)
       PROVE  tmpl'[t].wait = 0
  BY <1>5, <1>13 DEF EditExpression
<1>14. CASE UNCHANGED vars
  BY <1>5, <1>14 DEF vars
<1> QED
  BY <1>6, <1>7, <1>8, <1>9, <1>10, <1>11, <1>12, <1>13, <1>14
     DEF Next, Step, SchedulerStep, Tick, Stall

(* An expression that parsed no longer does, but not the other way round. *)
LEMMA ValidShrinks ==
  ASSUME WaitInv, [Next]_vars, NEW t \in Templates
  PROVE  valid'[t] => valid[t]
<1>1. \A u \in Templates : EditExpression(u) => valid' = [valid EXCEPT ![u] = FALSE]
  BY DEF EditExpression
<1>2. \A u \in Templates : CreateTemplate(u) \/ SeedTemplate(u) \/ Reap(u) => valid' = valid
  BY DEF CreateTemplate, SeedTemplate, Create, Reap
<1>3. ASSUME NEW s \in Schedulers
      PROVE  SchedulerStep(s) \/ SchedulerDies(s) => valid' = valid
  BY DEF SchedulerStep, SchedulerDies, ClaimTemplate, ClaimFails, HandleBatch, EndBatch,
     SpawnCronInstance, Parse, RescheduleCronTemplate, MarkCronInvalid
<1>4. Tick \/ Stall \/ UNCHANGED vars => valid' = valid
  BY DEF Tick, Stall, Advance, vars
<1> QED
  BY <1>1, <1>2, <1>3, <1>4 DEF WaitInv, TypeOK, Next, Step

(* What a scheduler has of an expression that parses says so. *)
LEMMA KnownValidStep == WaitInv /\ KnownValid /\ [Next]_vars => KnownValid'
<1> SUFFICES ASSUME WaitInv, KnownValid, [Next]_vars
             PROVE  KnownValid'
  OBVIOUS
<1>1. /\ tmpl \in [Templates -> Doc] /\ valid \in [Templates -> BOOLEAN]
      /\ batch \in [Schedulers -> SUBSET Claims] /\ loop \in [Schedulers -> Loop]
  BY DEF WaitInv, TypeOK, Doc, Loop
<1>2. ASSUME NEW t \in Templates, tmpl'[t].status = "dlq"
      PROVE  ~valid'[t]
  <2>1. SUFFICES ASSUME tmpl[t].status # "dlq"
                 PROVE  ~valid[t]
    BY ValidShrinks DEF KnownValid
  <2>2. PICK s \in Schedulers : MarkCronInvalid(s)
    <3>1. ASSUME NEW u \in Templates, NEW x \in {"pending", "queued"},
                 tmpl' = [tmpl EXCEPT ![u].status = x, ![u].idle = 0]
          PROVE  FALSE
      <4>1. tmpl' = [tmpl EXCEPT ![u] = Marked(tmpl[u], x)]
        BY <1>1, <3>1 DEF Marked
      <4>2. Marked(tmpl[u], x).status = x
        BY <1>1, Fields
      <4> QED
        BY <1>1, <1>2, <2>1, <4>1, <4>2
    <3>2. ASSUME NEW u, NEW w, tmpl' = [tmpl EXCEPT ![u] = [status |-> "pending", wait |-> w, idle |-> 0]]
          PROVE  FALSE
      <4>1. CASE u = t
        BY <1>1, <1>2, <3>2, <4>1
      <4>2. CASE u # t
        BY <1>1, <1>2, <2>1, <3>2, <4>2
      <4> QED
        BY <4>1, <4>2
    <3>3. tmpl' # tmpl
      BY <1>2, <2>1
    <3>4. ~Advance
      BY <1>1, <1>2, <2>1 DEF Advance, Doc
    <3>5. ASSUME NEW u \in Templates
          PROVE  ~(CreateTemplate(u) \/ SeedTemplate(u) \/ EditExpression(u) \/ Reap(u))
      BY <3>1, <3>2, <3>3 DEF CreateTemplate, SeedTemplate, Create, EditExpression, Reap
    <3>6. ASSUME NEW s \in Schedulers
          PROVE  ~(ClaimTemplate(s) \/ ClaimFails(s) \/ RescheduleCronTemplate(s))
      BY <3>1, <3>2, <3>3 DEF ClaimTemplate, ClaimFails, Flip, RescheduleCronTemplate
    <3>7. ASSUME NEW s \in Schedulers
          PROVE  ~(HandleBatch(s) \/ EndBatch(s) \/ SpawnCronInstance(s) \/ Parse(s) \/ SchedulerDies(s))
      BY <3>3 DEF HandleBatch, EndBatch, SpawnCronInstance, Parse, SchedulerDies
    <3>8. ~UNCHANGED vars
      BY <3>3 DEF vars
    <3> QED
      BY <3>4, <3>5, <3>6, <3>7, <3>8 DEF Next, Step, SchedulerStep, Tick, Stall
  <2>3. loop[s].stage = "invalid" /\ (tmpl' = tmpl \/ DeadLetter(loop[s].cur.id))
    BY <2>2 DEF MarkCronInvalid
  <2>4. loop[s].cur.id = t
    BY <1>1, <1>2, <2>1, <2>3 DEF DeadLetter
  <2> QED
    BY <2>3, <2>4 DEF KnownValid
<1>3. ASSUME NEW s \in Schedulers, NEW c \in batch'[s], valid'[c.id]
      PROVE  c.valid
  <2>1. c \in batch[s] \/ \E u \in Templates : c = [id |-> u, valid |-> valid[u]]
    <3>1. ASSUME NEW r \in Schedulers, ClaimTemplate(r)
          PROVE  c \in batch[s] \/ \E u \in Templates : c = [id |-> u, valid |-> valid[u]]
      BY <1>1, <3>1 DEF ClaimTemplate
    <3>2. ASSUME NEW r \in Schedulers, ClaimFails(r) \/ SpawnCronInstance(r) \/ SchedulerDies(r)
          PROVE  c \in batch[s]
      BY <1>1, <3>2 DEF ClaimFails, SpawnCronInstance, SchedulerDies
    <3>3. ASSUME NEW r \in Schedulers,
                 HandleBatch(r) \/ EndBatch(r) \/ Parse(r) \/ RescheduleCronTemplate(r) \/ MarkCronInvalid(r)
          PROVE  c \in batch[s]
      BY <3>3 DEF HandleBatch, EndBatch, Parse, RescheduleCronTemplate, MarkCronInvalid
    <3>4. ASSUME NEW u \in Templates,
                 CreateTemplate(u) \/ SeedTemplate(u) \/ EditExpression(u) \/ Reap(u)
          PROVE  c \in batch[s]
      BY <3>4 DEF CreateTemplate, SeedTemplate, Create, EditExpression, Reap
    <3>5. Tick \/ Stall \/ UNCHANGED vars => c \in batch[s]
      BY DEF Tick, Stall, Advance, vars
    <3> QED
      BY <3>1, <3>2, <3>3, <3>4, <3>5 DEF Next, Step, SchedulerStep
  <2>2. CASE c \in batch[s]
    <3>1. c.id \in Templates
      BY <1>1, <2>2 DEF Claims
    <3> QED
      BY <1>3, <2>2, <3>1, ValidShrinks DEF KnownValid
  <2>3. ASSUME NEW u \in Templates, c = [id |-> u, valid |-> valid[u]]
        PROVE  c.valid
    BY <1>3, <2>3, ValidShrinks
  <2> QED
    BY <2>1, <2>2, <2>3
<1>4. ASSUME NEW s \in Schedulers
      PROVE  /\ loop'[s].cur.id \in Templates /\ valid'[loop'[s].cur.id] => loop'[s].cur.valid
             /\ loop'[s].stage = "invalid" => ~loop'[s].cur.valid
  <2> DEFINE Fine(l) == /\ l.cur.id \in Templates /\ valid'[l.cur.id] => l.cur.valid
                        /\ l.stage = "invalid" => ~l.cur.valid
  <2>1. ASSUME NEW r \in Schedulers PROVE Fine(loop[r])
    BY ValidShrinks DEF KnownValid
  <2>2. Fine(Idle) /\ \A x \in {"claim", "spawn"} : Fine([Idle EXCEPT !.stage = x])
    BY CronAssumption DEF Idle, NoClaim
  <2>3. ASSUME NEW r \in Schedulers, NEW l, Fine(l), loop' = [loop EXCEPT ![r] = l]
        PROVE  Fine(loop'[s])
    BY <1>1, <2>1, <2>3
  <2>4. CASE loop' = loop
    BY <2>1, <2>4
  <2>5. CASE Advance
    BY <1>1, <2>1, <2>5 DEF Advance, Loop
  <2>6. ASSUME NEW r \in Schedulers, HandleBatch(r)
        PROVE  Fine(loop'[s])
    <3>1. loop' = [loop EXCEPT ![r] = AtStage(loop[r], "spawn")]
      BY <2>6 DEF HandleBatch, AtStage
    <3>2. AtStage(loop[r], "spawn").stage = "spawn" /\ AtStage(loop[r], "spawn").cur = loop[r].cur
      BY <1>1, Fields DEF Stages
    <3>3. Fine(AtStage(loop[r], "spawn"))
      BY <2>1, <3>2
    <3> HIDE DEF Fine
    <3> QED
      BY <2>3, <3>1, <3>3
  <2>7. ASSUME NEW r \in Schedulers,
               EndBatch(r) \/ SchedulerDies(r) \/ RescheduleCronTemplate(r) \/ MarkCronInvalid(r)
        PROVE  Fine(loop'[s])
    <3>1. loop' = [loop EXCEPT ![r] = Idle] \/ loop' = [loop EXCEPT ![r] = [Idle EXCEPT !.stage = "spawn"]]
      BY <2>7 DEF EndBatch, SchedulerDies, RescheduleCronTemplate, MarkCronInvalid, NextTemplate
    <3> HIDE DEF Fine
    <3> QED
      BY <2>2, <2>3, <3>1
  <2>8. ASSUME NEW r \in Schedulers, SpawnCronInstance(r)
        PROVE  Fine(loop'[s])
    <3>1. SUFFICES ASSUME NEW c \in batch[r], loop' = [loop EXCEPT ![r] = [@ EXCEPT !.stage = "parse", !.cur = c]]
                   PROVE  Fine(loop'[s])
      BY <2>4, <2>8 DEF SpawnCronInstance
    <3> DEFINE l == [AtStage(loop[r], "parse") EXCEPT !.cur = c]
    <3>2. loop' = [loop EXCEPT ![r] = l]
      BY <3>1 DEF AtStage
    <3>3. AtStage(loop[r], "parse") \in Loop /\ AtStage(loop[r], "parse").stage = "parse"
      BY <1>1, Fields DEF Stages
    <3>4. l.stage = "parse" /\ l.cur = c
      BY <3>3 DEF Loop
    <3>5. valid'[c.id] => c.valid
      BY <1>1, ValidShrinks DEF KnownValid, Claims
    <3>6. Fine(l)
      BY <3>4, <3>5
    <3> HIDE DEF l, Fine
    <3> QED
      BY <2>3, <3>2, <3>6
  <2>9. ASSUME NEW r \in Schedulers, Parse(r)
        PROVE  Fine(loop'[s])
    <3>1. CASE loop[r].cur.valid
      <4> DEFINE l == [AtStage(loop[r], "reschedule") EXCEPT !.next = NextOccurrence]
      <4>1. loop' = [loop EXCEPT ![r] = l]
        BY <2>9, <3>1 DEF Parse, AtStage
      <4>2. /\ AtStage(loop[r], "reschedule") \in Loop
            /\ AtStage(loop[r], "reschedule").stage = "reschedule"
            /\ AtStage(loop[r], "reschedule").cur = loop[r].cur
        BY <1>1, Fields DEF Stages
      <4>3. l.stage = "reschedule" /\ l.cur = loop[r].cur
        BY <4>2 DEF Loop
      <4>4. Fine(l)
        BY <2>1, <4>3
      <4> HIDE DEF l, Fine
      <4> QED
        BY <2>3, <4>1, <4>4
    <3>2. CASE ~loop[r].cur.valid
      <4>1. loop' = [loop EXCEPT ![r] = AtStage(loop[r], "invalid")]
        BY <2>9, <3>2 DEF Parse, AtStage
      <4>2. AtStage(loop[r], "invalid").cur = loop[r].cur
        BY <1>1, Fields DEF Stages
      <4>3. Fine(AtStage(loop[r], "invalid"))
        BY <2>1, <3>2, <4>2
      <4> HIDE DEF Fine
      <4> QED
        BY <2>3, <4>1, <4>3
    <3> QED
      BY <3>1, <3>2
  <2>10. ASSUME NEW r \in Schedulers, ClaimTemplate(r) \/ ClaimFails(r)
         PROVE  loop' = loop
    BY <2>10 DEF ClaimTemplate, ClaimFails
  <2>11. ASSUME NEW u \in Templates,
                CreateTemplate(u) \/ SeedTemplate(u) \/ EditExpression(u) \/ Reap(u)
         PROVE  loop' = loop
    BY <2>11 DEF CreateTemplate, SeedTemplate, Create, EditExpression, Reap
  <2>12. UNCHANGED vars => loop' = loop
    BY DEF vars
  <2>13. Fine(loop'[s])
    <3>1. ASSUME NEW r \in Schedulers, SchedulerStep(r) \/ SchedulerDies(r)
          PROVE  Fine(loop'[s])
      BY <2>4, <2>6, <2>7, <2>8, <2>9, <2>10, <3>1 DEF SchedulerStep
    <3>2. Tick \/ Stall => Fine(loop'[s])
      BY <2>5 DEF Tick, Stall
    <3> QED
      BY <2>4, <2>11, <2>12, <3>1, <3>2 DEF Next, Step
  <2> QED
    BY <2>13
<1> QED
  BY <1>2, <1>3, <1>4 DEF KnownValid

(* A step that misses nothing and is a fault, or leaves t in time. *)
LEMMA PaidKept ==
  ASSUME WaitInv, NEW t \in Templates, Paid(t), missed'[t] = missed[t],
         \/ faults' = faults + 1
         \/ faults' = faults /\ (valid'[t] => valid[t] /\ (InTime(t) => InTime(t)'))
  PROVE  Paid(t)'
<1>1. missed[t] \in Nat /\ faults \in Nat
  BY Constants DEF WaitInv, TypeOK
<1>2. Owing(t) \in {0, 1} /\ Owing(t)' \in {0, 1}
  BY DEF Owing
<1>3. CASE faults' = faults + 1
  BY <1>1, <1>2, <1>3 DEF Paid
<1>4. CASE faults' = faults /\ (valid'[t] => valid[t] /\ (InTime(t) => InTime(t)'))
  <2>1. Owing(t)' <= Owing(t)
    BY <1>4 DEF Owing
  <2> QED
    BY <1>1, <1>2, <1>4, <2>1 DEF Paid
<1> QED
  BY <1>3, <1>4

(* The templates a step is not about. *)
LEMMA SameInTime ==
  ASSUME NEW t \in Templates, tmpl'[t] = tmpl[t], Claimed(t)' = Claimed(t), Moving(t)' = Moving(t),
         clock' = clock, began' = began, fired'[t] = fired[t], valid'[t] => valid[t]
  PROVE  InTime(t) => InTime(t)'
<1>1. Awaited(t)' => Awaited(t)
  BY DEF Awaited
<1>2. (Due(t)' <=> Due(t)) /\ (Overdue(t)' <=> Overdue(t)) /\ (InHand(t)' <=> InHand(t))
  BY DEF Due, Overdue, InHand, Patience
<1> QED
  BY <1>1, <1>2 DEF InTime

(* A new template; the sweep: what is pending waits for the scheduler only. *)
LEMMA PendingPaid ==
  ASSUME MissInv, NEW u \in Templates, CreateTemplate(u) \/ SeedTemplate(u) \/ Reap(u),
         NEW t \in Templates
  PROVE  Paid(t)'
<1>1. WaitInv /\ Paid(t) /\ tmpl \in [Templates -> Doc]
  BY DEF MissInv, WaitInv, TypeOK, Doc
<1>2. UNCHANGED <<clock, began, missed, valid, fired, batch, loop, faults>>
  BY DEF CreateTemplate, SeedTemplate, Create, Reap
<1>3. Claimed(t)' = Claimed(t) /\ Moving(t)' = Moving(t)
  BY <1>2, SameClaims, SameLoops
<1>4. CASE t # u
  <2>1. tmpl'[t] = tmpl[t]
    BY <1>1, <1>4 DEF CreateTemplate, SeedTemplate, Create, Reap
  <2>2. InTime(t) => InTime(t)'
    BY <1>2, <1>3, <2>1, SameInTime
  <2> QED
    BY <1>1, <1>2, <2>2, PaidKept
<1>5. CASE t = u
  <2>1. tmpl'[t].status = "pending" /\ (Reap(t) => tmpl'[t].wait = 0)
    <3>1. CASE Reap(t)
      <4>1. tmpl[t].wait = 0
        BY <3>1 DEF MissInv, QueuedDue, Reap
      <4> QED
        BY <1>1, <1>2, <3>1, <4>1, DocMarked DEF Reap
    <3>2. CASE CreateTemplate(t) \/ SeedTemplate(t)
      <4>1. PICK w : Create(t, w)
        BY <3>2 DEF CreateTemplate, SeedTemplate
      <4>2. tmpl'[t].status = "pending"
        BY <1>1, <4>1 DEF Create
      <4>3. ~Reap(t)
        BY <4>1 DEF Create, Reap
      <4> QED
        BY <4>2, <4>3
    <3> QED
      BY <1>5, <3>1, <3>2
  <2>2. Reap(t) => Due(t)'
    BY <2>1 DEF Due
  <2>3. ~Reap(t) => ~Due(t) /\ ~Overdue(t)
    BY <1>5 DEF CreateTemplate, SeedTemplate, Create, Due, Overdue
  <2>4. Awaited(t)' => Awaited(t)
    BY <1>2 DEF Awaited
  <2>5. InTime(t) => InTime(t)'
    BY <1>3, <2>1, <2>2, <2>3, <2>4 DEF InTime
  <2> QED
    BY <1>1, <1>2, <2>5, PaidKept
<1> QED
  BY <1>4, <1>5

(* ClaimDueJobs takes a template into a scheduler's hands. *)
LEMMA ClaimPaid ==
  ASSUME MissInv, NEW s \in Schedulers, ClaimTemplate(s), NEW t \in Templates
  PROVE  Paid(t)'
<1>1. WaitInv /\ Paid(t)
  BY DEF MissInv
<1>2. PICK u \in Templates :
        /\ Due(u) /\ Flip(u)
        /\ batch' = [batch EXCEPT ![s] = @ \cup {[id |-> u, valid |-> valid[u]]}]
  BY DEF ClaimTemplate
<1>3. UNCHANGED <<clock, began, missed, valid, fired, loop, faults>> /\ Moving(t)' = Moving(t)
  BY SameLoops DEF ClaimTemplate
<1> DEFINE c == [id |-> u, valid |-> valid[u]]
<1>4. c \in Claims /\ c.id = u
  BY <1>1 DEF WaitInv, TypeOK, Claims
<1>5. \A r \in Schedulers : batch'[r] = IF r = s THEN batch[r] \cup {c} ELSE batch[r]
  BY <1>1, <1>2 DEF WaitInv, TypeOK
<1> HIDE DEF c
<1>6. CASE t # u
  <2>1. Claimed(t)' = Claimed(t)
    BY <1>4, <1>5, <1>6 DEF Claimed
  <2>2. tmpl'[t] = tmpl[t]
    BY <1>1, <1>2, <1>6 DEF Flip, WaitInv, TypeOK
  <2>3. InTime(t) => InTime(t)'
    BY <1>3, <2>1, <2>2, SameInTime
  <2> QED
    BY <1>1, <1>3, <2>3, PaidKept
<1>7. CASE t = u
  <2>1. Claimed(t)' # {}
    <3>1. c \in batch'[s]
      BY <1>5
    <3>2. <<s, c>> \in Claimed(t)'
      BY <1>4, <1>7, <3>1, ClaimPairs
    <3> QED
      BY <3>2
  <2>2. Awaited(t)' => Awaited(t)
    BY <1>3 DEF Awaited
  <2>3. InTime(t) => InTime(t)'
    BY <1>3, <2>1, <2>2 DEF InTime, InHand
  <2> QED
    BY <1>1, <1>3, <2>3, PaidKept
<1> QED
  BY <1>6, <1>7

(* The instance is there, and the template in the scheduler's hands. *)
LEMMA SpawnPaid ==
  ASSUME MissInv, NEW s \in Schedulers, SpawnCronInstance(s), NEW t \in Templates
  PROVE  Paid(t)'
<1>1. WaitInv /\ Paid(t)
  BY DEF MissInv
<1>2. UNCHANGED <<clock, began, missed, tmpl, valid>>
  BY DEF SpawnCronInstance
<1>3. CASE Fault
  BY <1>1, <1>2, <1>3, PaidKept DEF Fault
<1>4. CASE ~Fault
  <2>1. PICK c \in batch[s] :
          /\ batch' = [batch EXCEPT ![s] = @ \ {c}]
          /\ Fired(c.id)
          /\ loop' = [loop EXCEPT ![s] = [@ EXCEPT !.stage = "parse", !.cur = c]]
          /\ UNCHANGED faults
    BY <1>4 DEF SpawnCronInstance
  <2>2. c \in Claims /\ c.id \in Templates
    BY <1>1 DEF WaitInv, TypeOK, Claims
  <2>3. loop'[s].stage = "parse" /\ loop'[s].cur = c /\ \A r \in Schedulers \ {s} : loop'[r] = loop[r]
    BY <1>1, <2>1 DEF WaitInv, TypeOK
  <2>4. loop[s].stage = "spawn"
    BY DEF SpawnCronInstance
  <2>5. CASE c.id = t
    <3>1. s \in Moving(t)'
      BY <2>3, <2>5 DEF Moving
    <3>2. fired'[t] # 0
      BY <1>1, <2>1, <2>5, Constants DEF Fired, WaitInv, TypeOK
    <3>3. InTime(t)'
      BY <3>1, <3>2 DEF InTime, InHand, Awaited
    <3> QED
      BY <1>1, <1>2, <2>1, <3>3, PaidKept
  <2>6. CASE c.id # t
    <3>1. Moving(t)' = Moving(t)
      BY <2>3, <2>4, <2>6 DEF Moving
    <3>2. Claimed(t)' = Claimed(t)
      <4> DEFINE S == Claimed(t)
                 T == Claimed(t)'
      <4>1. S \in SUBSET (Schedulers \X Claims) /\ T \in SUBSET (Schedulers \X Claims)
        BY ClaimPairs
      <4>2. ASSUME NEW r \in Schedulers, NEW d \in Claims
            PROVE  <<r, d>> \in S <=> <<r, d>> \in T
        <5>1. d \in batch'[r] <=> d \in batch[r] /\ ~(r = s /\ d = c)
          BY <1>1, <2>1 DEF WaitInv, TypeOK
        <5> QED
          BY <2>6, <5>1, ClaimPairs
      <4> HIDE DEF S, T
      <4>3. S = T
        BY <4>1, <4>2, SamePairs
      <4> QED
        BY <4>3 DEF S, T
    <3>3. fired'[t] = fired[t]
      BY <1>1, <2>1, <2>6 DEF Fired, WaitInv, TypeOK
    <3>4. InTime(t) => InTime(t)'
      BY <1>2, <3>1, <3>2, <3>3, SameInTime
    <3> QED
      BY <1>1, <1>2, <2>1, <3>4, PaidKept
  <2> QED
    BY <2>5, <2>6
<1> QED
  BY <1>3, <1>4

(* Parse, and the stages at which a scheduler has no template. *)
LEMMA LoopPaid ==
  ASSUME MissInv, NEW s \in Schedulers, HandleBatch(s) \/ EndBatch(s) \/ Parse(s), NEW t \in Templates
  PROVE  Paid(t)'
<1>1. WaitInv /\ Paid(t) /\ loop[s] \in Loop
  BY DEF MissInv, WaitInv, TypeOK, Loop
<1>2. UNCHANGED <<clock, began, missed, tmpl, valid, fired, batch, faults>>
  BY DEF HandleBatch, EndBatch, Parse
<1>3. \A r \in Schedulers \ {s} : loop'[r] = loop[r]
  BY <1>1 DEF HandleBatch, EndBatch, Parse, WaitInv, TypeOK
<1>4. \/ /\ loop[s].stage = "parse"
         /\ loop'[s].stage \in {"reschedule", "invalid"} /\ loop'[s].cur = loop[s].cur
      \/ loop[s].stage \in {"claim", "spawn"} /\ loop'[s].stage \in {"claim", "spawn"}
  <2>1. CASE HandleBatch(s)
    BY <1>1, <2>1 DEF HandleBatch, WaitInv, TypeOK, Loop
  <2>2. CASE EndBatch(s)
    BY <1>1, <2>2 DEF EndBatch, WaitInv, TypeOK, Idle
  <2>3. CASE Parse(s)
    BY <1>1, <2>3 DEF Parse, WaitInv, TypeOK, Loop
  <2> QED
    BY <2>1, <2>2, <2>3
<1>5. Moving(t)' = Moving(t)
  BY <1>3, <1>4 DEF Moving
<1>6. InTime(t) => InTime(t)'
  BY <1>2, <1>5, SameClaims, SameInTime
<1> QED
  BY <1>1, <1>2, <1>6, PaidKept

(* A scheduler writes its template back: the next occurrence is to come. *)
LEMMA MovePaid ==
  ASSUME MissInv, NEW s \in Schedulers, RescheduleCronTemplate(s) \/ MarkCronInvalid(s),
         NEW t \in Templates
  PROVE  Paid(t)'
<1>1. WaitInv /\ Paid(t) /\ tmpl \in [Templates -> Doc]
  BY DEF MissInv, WaitInv, TypeOK, Doc
<1>2. NextTemplate(s) /\ UNCHANGED <<clock, began, missed, valid, fired, batch>>
  BY DEF RescheduleCronTemplate, MarkCronInvalid
<1>3. Claimed(t)' = Claimed(t) /\ Moving(t)' = Moving(t) \ {s}
  BY <1>1, <1>2, SameClaims, LoopFree, Idles DEF NextTemplate, Idle, Stages
<1>4. CASE Fault
  BY <1>1, <1>2, <1>4, PaidKept DEF Fault
<1>5. CASE ~Fault /\ t # loop[s].cur.id
  <2>1. faults' = faults /\ tmpl'[t] = tmpl[t]
    BY <1>1, <1>5 DEF RescheduleCronTemplate, MarkCronInvalid, DeadLetter
  <2>2. Moving(t)' = Moving(t)
    BY <1>3, <1>5 DEF Moving
  <2>3. InTime(t) => InTime(t)'
    BY <1>2, <1>3, <2>1, <2>2, SameInTime
  <2> QED
    BY <1>1, <1>2, <2>1, <2>3, PaidKept
<1>6. CASE ~Fault /\ t = loop[s].cur.id /\ RescheduleCronTemplate(s)
  <2>1. faults' = faults /\ tmpl'[t].status = "pending"
    BY <1>1, <1>6 DEF RescheduleCronTemplate
  <2>2. s \in Moving(t)
    BY <1>6 DEF Moving, RescheduleCronTemplate
  <2>3. Awaited(t)' => Awaited(t)
    BY <1>2 DEF Awaited
  <2>4. InTime(t) => InTime(t)'
    BY <2>1, <2>2, <2>3 DEF InTime
  <2> QED
    BY <1>1, <1>2, <2>1, <2>4, PaidKept
<1>7. CASE ~Fault /\ t = loop[s].cur.id /\ MarkCronInvalid(s)
  <2>1. faults' = faults /\ ~valid[t]
    BY <1>7 DEF MarkCronInvalid, MissInv, KnownValid
  <2> QED
    BY <1>1, <1>2, <2>1, PaidKept
<1> QED
  BY <1>4, <1>5, <1>6, <1>7

(* The reaper's part in a period (SweepAssumption). *)
LEMMA SweptInPeriod == Patience <= Period /\ Period > 1
<1>1. Patience <= Period
  BY SweepAssumption DEF Patience
<1> QED
  BY <1>1, Constants

(* A document when time passes. *)
LEMMA Ages ==
  ASSUME TypeOK, Advance, NEW t \in Templates
  PROVE  /\ tmpl[t].status \in {"absent", "pending", "queued", "dlq"}
         /\ tmpl[t].wait \in 0..Period /\ tmpl[t].idle \in 0..Patience
         /\ tmpl'[t].status = tmpl[t].status /\ tmpl'[t].wait = Sooner(tmpl[t].wait)
         /\ tmpl'[t].idle = IF tmpl[t].status = "queued" /\ tmpl[t].idle < Patience
                            THEN tmpl[t].idle + 1 ELSE tmpl[t].idle
<1>1. tmpl[t] \in Doc
  BY DEF TypeOK, Doc
<1> DEFINE i == IF tmpl[t].status = "queued" /\ tmpl[t].idle < Patience
                THEN tmpl[t].idle + 1 ELSE tmpl[t].idle
<1>2. tmpl'[t] = [tmpl[t] EXCEPT !.wait = Sooner(tmpl[t].wait), !.idle = i]
  BY <1>1 DEF Advance, Doc
<1> HIDE DEF i
<1>3. tmpl'[t] = [status |-> tmpl[t].status, wait |-> Sooner(tmpl[t].wait), idle |-> i]
  BY <1>1, <1>2 DEF Doc
<1> QED
  BY <1>1, <1>3 DEF Doc, i

(* Once the moment of an occurrence has passed, the next one is a period off. *)
LEMMA AfterOccurrence ==
  ASSUME WaitInv, Advance, clock = 0, NEW t \in Templates
  PROVE  InTime(t)'
<1>1. clock' = 1
  <2>1. 0 + 1 # Period
    BY SweptInPeriod
  <2>2. TypeOK /\ clock' = (clock + 1) % Period
    BY DEF WaitInv, Advance
  <2>3. clock' = IF clock + 1 = Period THEN 0 ELSE clock + 1
    BY <2>2, Turn
  <2> QED
    BY <2>1, <2>3
<1>2. tmpl'[t].status = "queued" => ~(tmpl'[t].idle < 1)
  BY Ages, Constants DEF WaitInv
<1> QED
  BY <1>1, <1>2 DEF InTime, Awaited

(* Nobody is at work: what is pending waits, what is queued will be swept. *)
LEMMA TickInTime ==
  ASSUME MissInv, Tick, clock # 0, NEW t \in Templates, valid[t], InTime(t)
  PROVE  InTime(t)'
<1>1. WaitInv /\ TypeOK /\ Advance /\ clock' = (clock + 1) % Period
  BY DEF MissInv, WaitInv, Tick, Advance
<1>2. tmpl[t].idle \in 0..Patience /\ clock \in 0..(Period - 1)
  BY <1>1, Ages DEF TypeOK
<1>3. \A s \in Schedulers : batch[s] = {} /\ loop[s] = Idle
  BY DEF Tick, Brisk
<1>4. ~InHand(t)
  BY <1>3 DEF InHand, Claimed, Moving, Idle
<1>5. Moving(t)' = {}
  <2>1. loop' = [s \in Schedulers |-> [loop[s] EXCEPT !.next = Sooner(@)]]
    BY <1>1 DEF Advance
  <2>2. \A s \in Schedulers : loop'[s].stage = "claim"
    BY <1>3, <2>1 DEF Idle
  <2> QED
    BY <2>2 DEF Moving
<1>6. ~Due(t) /\ ~Overdue(t) /\ tmpl[t].status # "dlq"
  BY DEF Tick, Brisk, MissInv, KnownValid
<1>7. tmpl[t].status = "queued" => tmpl[t].idle >= clock /\ tmpl[t].idle < Patience
  BY <1>2, <1>4, <1>6, Constants DEF InTime, Overdue
<1>8. tmpl'[t].status = tmpl[t].status /\ tmpl'[t].wait = Sooner(tmpl[t].wait)
  BY <1>1, Ages
<1>9. tmpl[t].status = "queued" => tmpl'[t].idle = tmpl[t].idle + 1
  BY <1>1, <1>7, Ages
<1>10. CASE clock + 1 # Period
  <2>1. clock' = clock + 1
    BY <1>1, <1>10, Turn
  <2>2. tmpl'[t].status = "queued" => ~(tmpl'[t].idle < clock')
    BY <1>2, <1>7, <1>8, <1>9, <2>1
  <2> QED
    BY <1>2, <2>1, <2>2 DEF InTime, Awaited
<1>11. CASE clock + 1 = Period
  <2>1. clock' = 0 /\ began'[t] = (tmpl[t].status # "absent")
    BY <1>1, <1>11, Turn DEF Advance
  <2>2. tmpl'[t].status = "queued" => ~(tmpl'[t].idle < clock')
    BY <1>2, <1>8, <1>9, <2>1
  <2>3. tmpl[t].status = "pending" => Due(t)'
    <3>1. Upcoming(tmpl[t].wait) /\ tmpl[t].wait \in 0..Period
      BY <1>1, Ages DEF WaitInv, DocsWait
    <3>2. tmpl[t].status = "pending" => tmpl[t].wait = 1
      BY <1>2, <1>6, <1>11, <3>1, Constants DEF Due, Upcoming
    <3> QED
      BY <1>8, <3>2 DEF Due, Sooner
  <2>4. tmpl[t].status = "queued" => Overdue(t)'
    <3>1. Patience <= Period
      BY SweptInPeriod
    <3>2. tmpl[t].status = "queued" => tmpl'[t].idle >= Patience
      BY <1>2, <1>7, <1>9, <1>11, <3>1, Constants
    <3> QED
      BY <1>8, <3>2 DEF Overdue, Patience
  <2>5. Awaited(t)' => Due(t)' \/ Overdue(t)'
    BY <1>1, <1>6, <2>1, <2>3, <2>4, Ages DEF Awaited
  <2> QED
    BY <1>5, <2>2, <2>5 DEF InTime
<1> QED
  BY <1>10, <1>11

(* Time passes: what is missed now was owed, or answers the stall. *)
LEMMA TimePaid ==
  ASSUME MissInv, Tick \/ Stall, NEW t \in Templates
  PROVE  Paid(t)'
<1>1. WaitInv /\ Paid(t) /\ Advance /\ valid' = valid
  BY DEF MissInv, Tick, Stall, Advance
<1>2. missed[t] \in Nat /\ faults \in Nat /\ Owing(t) \in {0, 1}
  BY <1>1, Constants DEF WaitInv, TypeOK, Owing
<1>3. /\ missed'[t] \in {missed[t], missed[t] + 1}
      /\ ~Awaited(t) => missed'[t] = missed[t]
  BY <1>1 DEF Advance
<1>4. Awaited(t) => clock = 0 /\ Owing(t)' = 0
  BY <1>1, AfterOccurrence DEF Awaited, Owing
<1>5. CASE Stall
  <2>1. faults' = faults + 1
    BY <1>5 DEF Stall, Fault
  <2>2. CASE Awaited(t)
    BY <1>1, <1>2, <1>3, <1>4, <2>1, <2>2 DEF Paid
  <2>3. CASE ~Awaited(t)
    BY <1>1, <1>3, <2>1, <2>3, PaidKept
  <2> QED
    BY <2>2, <2>3
<1>6. CASE Tick
  <2>1. faults' = faults
    BY <1>6 DEF Tick
  <2>2. CASE Awaited(t)
    <3>1. ~InTime(t)
      BY <1>6, <2>2 DEF Tick, Brisk, InTime, Claimed
    <3>2. Owing(t) = 1
      BY <2>2, <3>1 DEF Owing, Awaited
    <3> QED
      BY <1>1, <1>2, <1>3, <1>4, <2>1, <2>2, <3>2 DEF Paid
  <2>3. CASE ~Awaited(t)
    <3>1. valid[t] /\ InTime(t) => InTime(t)'
      BY <1>1, <1>6, AfterOccurrence, TickInTime
    <3> QED
      BY <1>1, <1>3, <2>1, <2>3, <3>1, PaidKept
  <2> QED
    BY <2>2, <2>3
<1> QED
  BY <1>5, <1>6

(* Every step keeps the account. *)
LEMMA MissInvStep == MissInv /\ [Next]_vars => MissInv'
<1> SUFFICES ASSUME MissInv, [Next]_vars, NEW t \in Templates
             PROVE  Paid(t)'
  BY WaitInvStep, QueuedDueStep, KnownValidStep DEF MissInv
<1>1. WaitInv /\ Paid(t) /\ (valid'[t] => valid[t])
  BY ValidShrinks DEF MissInv
<1>2. ASSUME NEW u \in Templates, EditExpression(u)
      PROVE  Paid(t)'
  <2>1. UNCHANGED <<clock, began, missed, tmpl, fired, batch, loop, faults>>
    BY <1>2 DEF EditExpression
  <2>2. InTime(t) => InTime(t)'
    BY <1>1, <2>1, SameClaims, SameLoops, SameInTime
  <2> QED
    BY <1>1, <2>1, <2>2, PaidKept
<1>3. ASSUME NEW s \in Schedulers, ClaimFails(s) \/ SchedulerDies(s)
      PROVE  Paid(t)'
  BY <1>1, <1>3, PaidKept DEF ClaimFails, SchedulerDies, Fault
<1>4. CASE UNCHANGED vars
  <2>1. UNCHANGED <<clock, tmpl, valid, fired, began, missed, batch, loop, faults>>
    BY <1>4 DEF vars
  <2>2. InTime(t) => InTime(t)'
    BY <2>1, SameClaims, SameLoops, SameInTime
  <2> QED
    BY <1>1, <2>1, <2>2, PaidKept
<1> QED
  BY <1>2, <1>3, <1>4, PendingPaid, ClaimPaid, SpawnPaid, LoopPaid, MovePaid, TimePaid
     DEF Next, Step, SchedulerStep

(* Every occurrence has its instance when it comes, but for a fault of its    *)
(* own (cron.go:19-25, loop.go:82-115): a failed call, a death or a stall     *)
(* costs each template one occurrence at most, the queued sweep included,     *)
(* whatever two schedulers write over each other.                             *)
THEOREM MissedOnlyForFaults == FairSpec => []MissesAnswerFaults
<1>1. MissInv => MissesAnswerFaults
  <2> SUFFICES ASSUME MissInv, NEW t \in Templates
               PROVE  missed[t] <= faults
    BY DEF MissesAnswerFaults
  <2>1. missed[t] \in Nat /\ faults \in Nat /\ Owing(t) \in {0, 1}
    BY Constants DEF MissInv, WaitInv, TypeOK, Owing
  <2> QED
    BY <2>1 DEF MissInv, Paid
<1> QED
  BY <1>1, MissInvInit, MissInvStep, PTL DEF FairSpec
=============================================================================
