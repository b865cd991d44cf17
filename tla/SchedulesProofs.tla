---------------------------- MODULE SchedulesProofs ----------------------------
(***************************************************************************)
(* Proofs about Schedules, for any rules, clock and number of edits.       *)
(*                                                                         *)
(* A job always waits for an instant later than the last reload at which   *)
(* its member has not woken the rule yet; what has woken a rule is never   *)
(* later than the clock.  From these two a reload can arm nothing a second *)
(* time.                                                                   *)
(***************************************************************************)
EXTENDS Schedules, FiniteSetTheorems, WellFoundedInduction, TLAPS

\* What has woken a rule lies in the past, and no armed job is among it.
JobsAreFresh ==
  /\ loaded <= now
  /\ \A r \in Rules : \A j \in Jobs : Woken(r, j) => j.at <= now
  /\ \A r \in Rules : \A j \in job[r] : ~ Woken(r, j)

\* Every one-time member later than the last reload is armed, or has woken its
\* rule, whether its time has come or not.
OnceArmed ==
  \A r \in Rules : \A i \in trigger[r].once :
    LET j == [kind |-> "once", at |-> i] IN
    up /\ enabled[r] /\ loaded < i => j \in job[r] \/ Woken(r, j)

IInv == TypeOK /\ JobsAreScheduled /\ JobsAreFresh /\ NoWakeTwice /\ OnceArmed

\* The parts of a trigger.
LEMMA TriggerParts ==
  ASSUME NEW t \in Triggers
  PROVE  /\ t.once \subseteq Times /\ DOMAIN t.cron \subseteq Slots
         /\ \A c \in DOMAIN t.cron : t.cron[c] \subseteq Times /\ c # "once"
<1>1. t.once \subseteq Times /\ t.cron \in UNION {[S -> SUBSET Times] : S \in SUBSET Slots}
  BY DEF Triggers
<1>2. PICK S \in SUBSET Slots : t.cron \in [S -> SUBSET Times]
  BY <1>1
<1>3. QED  BY <1>1, <1>2, ScheduleAssumption

\* A table made now holds jobs of the members only, one for each cron member,
\* all in the future.
LEMMA JobsOfFuture ==
  ASSUME now \in Nat, NEW t \in Triggers
  PROVE  /\ JobsOf(t) \subseteq Jobs
         /\ \A j \in JobsOf(t) : j.at > now /\ j.at \in Instants(t, j.kind)
         /\ \A i \in t.once : i > now => [kind |-> "once", at |-> i] \in JobsOf(t)
         /\ \A c \in DOMAIN t.cron :
              /\ NextCron(t, c) \subseteq JobsOf(t)
              /\ \A j \in NextCron(t, c) : j.kind = c
         /\ OnePerMember(JobsOf(t))
<1>1. /\ t.once \subseteq Times /\ DOMAIN t.cron \subseteq Slots
      /\ \A c \in DOMAIN t.cron : t.cron[c] \subseteq Times /\ c # "once"
  BY TriggerParts
<1>2. ASSUME NEW c \in DOMAIN t.cron, NEW j \in NextCron(t, c)
      PROVE  j \in Jobs /\ j.kind = c /\ j.at > now /\ j.at \in t.cron[c]
  BY <1>1, <1>2 DEF NextCron, Jobs
<1>3. ASSUME NEW j \in OnceJobs(t, Later)
      PROVE  j \in Jobs /\ j.kind = "once" /\ j.at > now /\ j.at \in t.once
  BY <1>1, <1>3 DEF OnceJobs, Later, Jobs
<1>4. \A i \in t.once : i > now => [kind |-> "once", at |-> i] \in OnceJobs(t, Later)
  BY <1>1 DEF OnceJobs, Later
<1>5. ASSUME NEW c \in DOMAIN t.cron, NEW j \in NextCron(t, c), NEW k \in NextCron(t, c)
      PROVE  j = k
  <2>1. PICK a \in t.cron[c] : /\ j = [kind |-> c, at |-> a] /\ a > now
                              /\ \A i \in t.cron[c] : i > now => a <= i
    BY <1>5 DEF NextCron
  <2>2. PICK b \in t.cron[c] : /\ k = [kind |-> c, at |-> b] /\ b > now
                              /\ \A i \in t.cron[c] : i > now => b <= i
    BY <1>5 DEF NextCron
  <2>3. a \in Nat /\ b \in Nat /\ a <= b /\ b <= a
    BY <1>1, <2>1, <2>2 DEF Times
  <2>4. a = b
    BY <2>3
  <2>5. QED  BY <2>1, <2>2, <2>4
<1>6. \A j \in CronJobs(t) : \E c \in DOMAIN t.cron : j \in NextCron(t, c)
  BY DEF CronJobs
<1>7. OnePerMember(JobsOf(t))
  <2> SUFFICES ASSUME NEW j \in JobsOf(t), NEW k \in JobsOf(t),
                      j.kind = k.kind, j.kind # "once"
               PROVE  j = k
    BY DEF OnePerMember
  <2>1. j \in CronJobs(t) /\ k \in CronJobs(t)
    BY <1>3 DEF JobsOf
  <2>2. PICK c \in DOMAIN t.cron : j \in NextCron(t, c)
    BY <1>6, <2>1
  <2>3. PICK d \in DOMAIN t.cron : k \in NextCron(t, d)
    BY <1>6, <2>1
  <2>4. c = d
    BY <1>2, <2>2, <2>3
  <2>5. QED  BY <1>5, <2>2, <2>3, <2>4
<1>8. \A j \in JobsOf(t) : j \in Jobs /\ j.at > now /\ j.at \in Instants(t, j.kind)
  <2> SUFFICES ASSUME NEW j \in JobsOf(t)
               PROVE  j \in Jobs /\ j.at > now /\ j.at \in Instants(t, j.kind)
    OBVIOUS
  <2>1. CASE j \in OnceJobs(t, Later)
    BY <1>3, <2>1 DEF Instants
  <2>2. CASE j \in CronJobs(t)
    <3>1. PICK c \in DOMAIN t.cron : j \in NextCron(t, c)
      BY <1>6, <2>2
    <3>2. QED  BY <1>1, <1>2, <3>1 DEF Instants
  <2>3. QED  BY <2>1, <2>2 DEF JobsOf
<1>9. QED  BY <1>2, <1>4, <1>7, <1>8 DEF JobsOf, CronJobs

LEMMA InitInv == Init => IInv
<1> SUFFICES ASSUME Init PROVE IInv
  OBVIOUS
<1>1. /\ now = 0 /\ loaded = 0 /\ up = TRUE
      /\ \A r \in Rules : enabled[r] = TRUE /\ \A j \in Jobs : woken[r][j] = 0
  BY DEF Init
<1>2. trigger \in [Rules -> Triggers] /\ \A r \in Rules : job[r] = JobsOf(trigger[r])
  BY DEF Init
<1>3. \A r \in Rules : /\ job[r] \subseteq Jobs /\ OnePerMember(job[r])
                       /\ \A j \in job[r] : j.at > 0 /\ j.at \in Instants(trigger[r], j.kind)
  <2> SUFFICES ASSUME NEW r \in Rules
               PROVE  /\ job[r] \subseteq Jobs /\ OnePerMember(job[r])
                      /\ \A j \in job[r] : j.at > 0 /\ j.at \in Instants(trigger[r], j.kind)
    OBVIOUS
  <2>1. now \in Nat /\ trigger[r] \in Triggers /\ job[r] = JobsOf(trigger[r])
    BY <1>1, <1>2
  <2>2. /\ JobsOf(trigger[r]) \subseteq Jobs /\ OnePerMember(JobsOf(trigger[r]))
        /\ \A j \in JobsOf(trigger[r]) : j.at > now /\ j.at \in Instants(trigger[r], j.kind)
    BY <2>1, JobsOfFuture
  <2> QED
    BY <1>1, <2>1, <2>2
<1>4. TypeOK
  <2>1. woken \in [Rules -> [Jobs -> Nat]]
    BY DEF Init
  <2>2. job \in [Rules -> SUBSET Jobs]
    BY <1>3 DEF Init
  <2> QED
    BY <1>3, <2>1, <2>2, ScheduleAssumption DEF Init, TypeOK
<1>5. JobsAreScheduled
  BY <1>1, <1>3 DEF JobsAreScheduled
<1>6. JobsAreFresh /\ NoWakeTwice
  <2>1. \A r \in Rules : job[r] \subseteq Jobs /\ \A j \in Jobs : ~ Woken(r, j)
    BY <1>1, <1>3 DEF Woken
  <2> QED
    BY <1>1, <2>1 DEF JobsAreFresh, NoWakeTwice
<1>7. OnceArmed
  BY <1>1, <1>2, JobsOfFuture DEF OnceArmed, Triggers, Times, Jobs
<1> QED
  BY <1>4, <1>5, <1>6, <1>7 DEF IInv

\* Making the table again establishes what the invariant says of the table,
\* whatever rules it is made from, if only the past has woken a rule.
LEMMA ReloadInv ==
  ASSUME TypeOK, UNCHANGED now,
         NEW tr \in [Rules -> Triggers], NEW en \in [Rules -> BOOLEAN],
         Reload(tr, en), up', trigger' = tr, enabled' = en,
         \A r \in Rules : \A j \in Jobs : Woken(r, j)' => j.at <= now
  PROVE  /\ job' \in [Rules -> SUBSET Jobs] /\ \A r \in Rules : OnePerMember(job'[r])
         /\ loaded' \in 0 .. MaxTime
         /\ JobsAreScheduled' /\ JobsAreFresh' /\ OnceArmed'
<1>0. now \in 0 .. MaxTime /\ now \in Nat /\ now' = now /\ loaded' = now
  BY ScheduleAssumption DEF TypeOK, Reload
<1>1. \A r \in Rules : job'[r] = IF en[r] THEN JobsOf(tr[r]) ELSE {}
  BY DEF Reload
<1>2. \A r \in Rules : /\ job'[r] \subseteq Jobs /\ OnePerMember(job'[r])
                       /\ \A j \in job'[r] : en[r] /\ j.at > now /\ j.at \in Instants(tr[r], j.kind)
  BY <1>0, <1>1, JobsOfFuture DEF OnePerMember
<1>3. job' \in [Rules -> SUBSET Jobs]
  BY <1>2 DEF Reload
<1>4. JobsAreScheduled'
  BY <1>0, <1>2 DEF JobsAreScheduled
<1>5. \A r \in Rules : \A j \in job'[r] : ~ Woken(r, j)'
  <2> SUFFICES ASSUME NEW r \in Rules, NEW j \in job'[r], Woken(r, j)'
               PROVE  FALSE
    OBVIOUS
  <2>1. j \in Jobs /\ j.at <= now /\ j.at > now /\ j.at \in Nat
    BY <1>2 DEF Jobs, Times
  <2> QED
    BY <2>1, <1>0
<1>6. JobsAreFresh'
  BY <1>0, <1>5 DEF JobsAreFresh
<1>7. OnceArmed'
  BY <1>0, <1>1, JobsOfFuture DEF OnceArmed, Triggers, Times, Jobs
<1> QED
  BY <1>0, <1>2, <1>3, <1>4, <1>6, <1>7

LEMMA TickInv == IInv /\ Tick => IInv'
<1> SUFFICES ASSUME IInv, Tick PROVE IInv'
  OBVIOUS
<1>0. now \in Nat /\ loaded \in Nat /\ now' = now + 1 /\ now' \in 0 .. MaxTime
  BY ScheduleAssumption DEF IInv, TypeOK, Tick
<1>1. TypeOK'
  BY <1>0 DEF IInv, TypeOK, Tick
<1>2. JobsAreScheduled' /\ NoWakeTwice'
  BY DEF IInv, JobsAreScheduled, NoWakeTwice, Tick
<1>3. JobsAreFresh'
  <2>1. \A j \in Jobs : j.at \in Nat
    BY DEF Jobs, Times
  <2> QED
    BY <1>0, <2>1 DEF IInv, JobsAreFresh, Woken, Tick, Jobs, Times
<1>4. OnceArmed'
  BY DEF IInv, OnceArmed, Woken, Tick
<1> QED
  BY <1>1, <1>2, <1>3, <1>4 DEF IInv

LEMMA RunJobInv ==
  ASSUME NEW r \in Rules
  PROVE  IInv /\ RunJob(r) => IInv'
<1> SUFFICES ASSUME IInv, RunJob(r) PROVE IInv'
  OBVIOUS
<1>0. now \in Nat /\ now' = now /\ up /\ up' /\ trigger' = trigger
  BY ScheduleAssumption DEF IInv, TypeOK, RunJob
<1>1. PICK j \in job[r] :
        /\ j.at <= now
        /\ woken' = [woken EXCEPT ![r][j] = @ + 1]
        /\ IF ~ busy[r] /\ OneTime(r)
           THEN /\ enabled' = [enabled EXCEPT ![r] = FALSE]
                /\ Reload(trigger, enabled')
           ELSE /\ job' = [job EXCEPT ![r] = Remaining(r, j)]
                /\ UNCHANGED <<enabled, loaded>>
  BY DEF RunJob
<1>2. j \in Jobs /\ ~ Woken(r, j) /\ woken[r] \in [Jobs -> Nat]
  BY DEF IInv, TypeOK, JobsAreFresh
<1>3. woken[r][j] = 0
  BY <1>2 DEF Woken
<1>4. /\ woken' \in [Rules -> [Jobs -> Nat]]
      /\ \A q \in Rules : \A k \in Jobs :
           woken'[q][k] = IF q = r /\ k = j THEN 1 ELSE woken[q][k]
  BY <1>1, <1>2, <1>3 DEF IInv, TypeOK
<1>6. \A q \in Rules : \A k \in Jobs : Woken(q, k)' <=> (Woken(q, k) \/ (q = r /\ k = j))
  BY <1>4 DEF Woken
<1>7. NoWakeTwice'
  BY <1>4 DEF IInv, NoWakeTwice
<1>8. \A q \in Rules : \A k \in Jobs : Woken(q, k)' => k.at <= now
  BY <1>1, <1>6 DEF IInv, JobsAreFresh
<1>9. scenario' \in Scenarios /\ busy' \in [Rules -> BOOLEAN] /\ edits' \in 0 .. MaxEdits
  BY DEF IInv, TypeOK, RunJob
<1>10. CASE ~ busy[r] /\ OneTime(r)
  <2>1. trigger \in [Rules -> Triggers] /\ enabled' \in [Rules -> BOOLEAN]
    BY <1>1, <1>10 DEF IInv, TypeOK
  <2>2. Reload(trigger, enabled')
    BY <1>1, <1>10
  <2>3. /\ job' \in [Rules -> SUBSET Jobs] /\ \A q \in Rules : OnePerMember(job'[q])
        /\ loaded' \in 0 .. MaxTime
        /\ JobsAreScheduled' /\ JobsAreFresh' /\ OnceArmed'
    <3>1. TypeOK
      BY DEF IInv
    <3> QED
      BY <1>0, <1>8, <2>1, <2>2, <3>1, ReloadInv
  <2>4. TypeOK'
    BY <1>0, <1>4, <1>9, <2>1, <2>3 DEF IInv, TypeOK
  <2> QED
    BY <1>7, <2>3, <2>4 DEF IInv
<1>11. CASE ~ (~ busy[r] /\ OneTime(r))
  <2>0. /\ job' = [job EXCEPT ![r] = Remaining(r, j)]
        /\ enabled' = enabled /\ loaded' = loaded
    BY <1>1, <1>11
  <2>1. trigger[r] \in Triggers /\ job[r] \subseteq Jobs
    BY DEF IInv, TypeOK
  <2>2. ASSUME j.kind # "once"
        PROVE  LET N == NextCron(trigger[r], j.kind) IN
               /\ N \subseteq Jobs /\ OnePerMember(N)
               /\ \A k \in N : /\ k.at > now /\ k.at \in Instants(trigger[r], k.kind)
                              /\ k.kind = j.kind
    <3>1. j.kind \in DOMAIN trigger[r].cron
      BY <2>2 DEF IInv, JobsAreScheduled, Instants
    <3>2. /\ NextCron(trigger[r], j.kind) \subseteq JobsOf(trigger[r])
          /\ \A k \in NextCron(trigger[r], j.kind) : k.kind = j.kind
          /\ OnePerMember(JobsOf(trigger[r])) /\ JobsOf(trigger[r]) \subseteq Jobs
          /\ \A k \in JobsOf(trigger[r]) : k.at > now /\ k.at \in Instants(trigger[r], k.kind)
      BY <1>0, <2>1, <3>1, JobsOfFuture
    <3> QED
      BY <3>2 DEF OnePerMember
  <2>3. \A k \in Remaining(r, j) :
          /\ k \in Jobs
          /\ \/ k \in job[r] /\ k # j
             \/ k.at > now /\ k.at \in Instants(trigger[r], k.kind)
    BY <2>1, <2>2 DEF Remaining
  <2>4. job' \in [Rules -> SUBSET Jobs]
    BY <2>0, <2>3 DEF IInv, TypeOK
  <2>4a. \A q \in Rules : OnePerMember(job'[q])
    <3>1. OnePerMember(job[r]) /\ \A q \in Rules : OnePerMember(job[q])
      BY DEF IInv, TypeOK
    <3>2. OnePerMember(Remaining(r, j))
      <4>1. CASE j.kind # "once"
        <5>1. \A k \in job[r] \ {j} : k.kind # j.kind
          BY <3>1, <4>1 DEF OnePerMember
        <5>2. PICK N : /\ Remaining(r, j) = (job[r] \ {j}) \cup N
                       /\ OnePerMember(N) /\ \A k \in N : k.kind = j.kind
          BY <2>2, <4>1 DEF Remaining
        <5>3. OnePerMember(job[r] \ {j})
          BY <3>1 DEF OnePerMember
        <5> QED
          BY <5>1, <5>2, <5>3 DEF OnePerMember
      <4>2. CASE j.kind = "once"
        BY <3>1, <4>2 DEF OnePerMember, Remaining
      <4> QED
        BY <4>1, <4>2
    <3> QED
      BY <2>0, <3>1, <3>2 DEF IInv, TypeOK
  <2>5. TypeOK'
    BY <1>0, <1>4, <1>9, <2>0, <2>4, <2>4a DEF IInv, TypeOK
  <2>6. job'[r] = Remaining(r, j) /\ \A q \in Rules : q # r => job'[q] = job[q]
    BY <2>0 DEF IInv, TypeOK
  <2>7. loaded \in Nat /\ loaded <= now
    BY DEF IInv, TypeOK, JobsAreFresh
  <2>8. \A q \in Rules : \A k \in job'[q] :
          /\ k \in Jobs
          /\ \/ k \in job[q] /\ ~ (q = r /\ k = j)
             \/ q = r /\ k.at > now /\ k.at \in Instants(trigger[q], k.kind)
    BY <2>3, <2>6 DEF IInv, TypeOK
  <2>9. JobsAreScheduled'
    <3> SUFFICES ASSUME NEW q \in Rules, NEW k \in job'[q]
                 PROVE  up /\ enabled[q] /\ k.at \in Instants(trigger[q], k.kind) /\ k.at > loaded
      BY <1>0, <2>0 DEF JobsAreScheduled
    <3>1. k.at \in Nat /\ enabled[r]
      BY <2>8 DEF Jobs, Times, IInv, JobsAreScheduled
    <3> QED
      BY <1>0, <2>7, <2>8, <3>1 DEF IInv, JobsAreScheduled
  <2>10. JobsAreFresh'
    <3>1. \A q \in Rules : \A k \in job'[q] : ~ Woken(q, k)'
      <4> SUFFICES ASSUME NEW q \in Rules, NEW k \in job'[q], Woken(q, k)'
                   PROVE  FALSE
        OBVIOUS
      <4>1. k \in Jobs /\ k.at \in Nat
        BY <2>8 DEF Jobs, Times
      <4>3. k.at <= now
        BY <1>8, <4>1
      <4>4. k \in job[q] /\ ~ (q = r /\ k = j)
        BY <1>0, <2>8, <4>1, <4>3
      <4> QED
        BY <1>6, <4>1, <4>4 DEF IInv, JobsAreFresh
    <3> QED
      BY <1>0, <1>8, <2>0, <2>7, <3>1 DEF JobsAreFresh
  <2>11. OnceArmed'
    <3> SUFFICES ASSUME NEW q \in Rules, NEW i \in trigger[q].once, enabled[q], loaded < i,
                        NEW k, k = [kind |-> "once", at |-> i]
                 PROVE  k \in job'[q] \/ Woken(q, k)'
      BY <1>0, <2>0 DEF OnceArmed
    <3>1. k \in job[q] \/ Woken(q, k)
      BY <1>0 DEF IInv, OnceArmed
    <3>2. trigger[q] \in Triggers
      BY DEF IInv, TypeOK
    <3>3. k \in Jobs
      BY <3>2, TriggerParts DEF Jobs
    <3>4. Woken(q, k) => Woken(q, k)'
      BY <1>6, <3>3
    <3>5. q = r /\ k = j => Woken(q, k)'
      BY <1>6, <3>3
    <3> QED
      BY <2>6, <3>1, <3>4, <3>5 DEF Remaining
  <2> QED
    BY <1>7, <2>5, <2>9, <2>10, <2>11 DEF IInv
<1> QED
  BY <1>10, <1>11

LEMMA StepInv == IInv /\ [Next]_vars => IInv'
<1> SUFFICES ASSUME IInv, [Next]_vars PROVE IInv'
  OBVIOUS
<1>0. TypeOK /\ NoWakeTwice
  BY DEF IInv
<1>1. \A r \in Rules : \A j \in Jobs : Woken(r, j) => j.at <= now
  BY DEF IInv, JobsAreFresh
<1>2. CASE Tick
  BY <1>2, TickInv
<1>3. ASSUME NEW r \in Rules, RunJob(r) PROVE IInv'
  BY <1>3, RunJobInv
<1>4. ASSUME NEW r \in Rules, ChangeBusy(r) PROVE IInv'
  <2>1. TypeOK'
    BY <1>4 DEF IInv, TypeOK, ChangeBusy
  <2> QED
    BY <1>4, <2>1 DEF IInv, JobsAreScheduled, JobsAreFresh, NoWakeTwice, OnceArmed, Woken, ChangeBusy
<1>5. ASSUME NEW r \in Rules, EditRule(r) PROVE IInv'
  <2>1. /\ up' = up /\ up /\ now' = now /\ woken' = woken /\ Reload(trigger', enabled')
        /\ scenario' = scenario /\ busy' = busy /\ edits' \in 0 .. MaxEdits
    <3>1. edits \in 0 .. MaxEdits /\ edits < MaxEdits /\ edits' = edits + 1
      BY <1>0, <1>5 DEF EditRule, TypeOK
    <3>2. edits' \in 0 .. MaxEdits
      BY <3>1, ScheduleAssumption
    <3> QED
      BY <1>5, <3>2 DEF EditRule
  <2>2. trigger' \in [Rules -> Triggers] /\ enabled' \in [Rules -> BOOLEAN]
    BY <1>0, <1>5 DEF EditRule, TypeOK
  <2>3. /\ job' \in [Rules -> SUBSET Jobs] /\ \A q \in Rules : OnePerMember(job'[q])
        /\ loaded' \in 0 .. MaxTime
        /\ JobsAreScheduled' /\ JobsAreFresh' /\ OnceArmed'
    <3>1. \A q \in Rules : \A j \in Jobs : Woken(q, j)' => j.at <= now
      BY <1>1, <2>1 DEF Woken
    <3> QED
      BY <1>0, <2>1, <2>2, <3>1, ReloadInv
  <2>4. TypeOK' /\ NoWakeTwice'
    BY <1>0, <2>1, <2>2, <2>3 DEF TypeOK, NoWakeTwice
  <2> QED
    BY <2>3, <2>4 DEF IInv
<1>6. CASE Crash
  <2>1. TypeOK'
    BY <1>0, <1>6 DEF TypeOK, OnePerMember, Crash
  <2>2. JobsAreScheduled' /\ OnceArmed'
    BY <1>6 DEF JobsAreScheduled, OnceArmed, Crash
  <2>3. JobsAreFresh'
    BY <1>6 DEF IInv, JobsAreFresh, Woken, Crash
  <2> QED
    BY <1>0, <1>6, <2>1, <2>2, <2>3 DEF IInv, NoWakeTwice, Crash
<1>7. CASE Restart
  <2>1. /\ up' = TRUE /\ now' = now /\ woken' = woken /\ Reload(trigger, enabled)
        /\ trigger' = trigger /\ enabled' = enabled
        /\ scenario' = scenario /\ busy' = busy /\ edits' = edits
    BY <1>7 DEF Restart
  <2>2. trigger \in [Rules -> Triggers] /\ enabled \in [Rules -> BOOLEAN]
    BY <1>0 DEF TypeOK
  <2>3. /\ job' \in [Rules -> SUBSET Jobs] /\ \A q \in Rules : OnePerMember(job'[q])
        /\ loaded' \in 0 .. MaxTime
        /\ JobsAreScheduled' /\ JobsAreFresh' /\ OnceArmed'
    <3>1. \A q \in Rules : \A j \in Jobs : Woken(q, j)' => j.at <= now
      BY <1>1, <2>1 DEF Woken
    <3> QED
      BY <1>0, <2>1, <2>2, <3>1, ReloadInv
  <2>4. TypeOK' /\ NoWakeTwice'
    BY <1>0, <2>1, <2>2, <2>3 DEF TypeOK, NoWakeTwice
  <2> QED
    BY <2>3, <2>4 DEF IInv
<1>8. CASE UNCHANGED vars
  <2>1. TypeOK'
    BY <1>0, <1>8 DEF TypeOK, vars
  <2>2. JobsAreScheduled' /\ NoWakeTwice'
    BY <1>8 DEF IInv, JobsAreScheduled, NoWakeTwice, vars
  <2>3. JobsAreFresh'
    BY <1>8 DEF IInv, JobsAreFresh, Woken, vars
  <2>4. OnceArmed'
    BY <1>8 DEF IInv, OnceArmed, Woken, vars
  <2> QED
    BY <2>1, <2>2, <2>3, <2>4 DEF IInv
<1>9. CASE \E r \in Rules : RunJob(r) \/ ChangeBusy(r) \/ EditRule(r)
  <2> PICK r \in Rules : RunJob(r) \/ ChangeBusy(r) \/ EditRule(r)
    BY <1>9
  <2> QED
    BY <1>3, <1>4, <1>5
<1> QED
  BY <1>2, <1>6, <1>7, <1>8, <1>9 DEF Next

-----------------------------------------------------------------------------
\* Among the instants of a set some instant is the earliest: the sets of the
\* earlier ones are ordered by inclusion, and that order is well founded.
LEMMA EarliestInstant ==
  ASSUME NEW S \in SUBSET Times, S # {}
  PROVE  \E i \in S : \A k \in S : i <= k
<1> DEFINE Before(i) == {k \in S : k < i}
           T == {Before(s) : s \in S}
           R == StrictSubsetOrdering(S)
<1>1. IsFiniteSet(S)
  <2>1. IsFiniteSet(1 .. MaxTime)
    BY ScheduleAssumption, FS_Interval
  <2> QED
    BY <2>1, FS_Subset DEF Times
<1>2. T \subseteq FiniteSubsetsOf(S) /\ T # {}
  <2>1. FiniteSubsetsOf(S) = SUBSET S
    BY <1>1, FS_FiniteSubsetsOfFinite
  <2>2. \A s \in S : Before(s) \in SUBSET S
    OBVIOUS
  <2>3. T # {}
    OBVIOUS
  <2> HIDE DEF Before
  <2> QED
    BY <2>1, <2>2, <2>3
<1>3. IsWellFoundedOn(R, FiniteSubsetsOf(S))
  BY FS_StrictSubsetOrderingWellFounded
<1>4. \E x \in T : \A y \in T : ~ (<<y, x>> \in R)
  <2> HIDE DEF T, R
  <2> QED
    BY <1>2, <1>3, WFMin
<1>5. PICK i \in S : \A y \in T : ~ (<<y, Before(i)>> \in R)
  BY <1>4
<1>6. ASSUME NEW k \in S, k < i PROVE FALSE
  <2>1. i \in Nat /\ k \in Nat /\ \A n \in S : n \in Nat
    BY DEF Times
  <2>2. k \in Before(i) /\ k \notin Before(k)
    BY <1>6, <2>1
  <2>2a. ASSUME NEW n \in S, n < k PROVE n < i
    BY <1>6, <2>1, <2>2a
  <2>2b. Before(k) \subseteq Before(i)
    BY <2>2a
  <2>3. <<Before(k), Before(i)>> \in R
    BY <2>2, <2>2b DEF StrictSubsetOrdering
  <2> QED
    BY <1>5, <2>3
<1>7. \A k \in S : i <= k
  BY <1>6 DEF Times
<1> QED
  BY <1>7

\* The next instant of a cron member exists as long as one is to come, and is
\* not later than any that is to come.
LEMMA NextCronExists ==
  ASSUME now \in Nat, NEW t \in Triggers, NEW c \in DOMAIN t.cron,
         NEW i \in t.cron[c], i > now
  PROVE  \E j \in NextCron(t, c) : j.kind = c /\ j.at <= i
<1> DEFINE S == {k \in t.cron[c] : k > now}
<1>1. S \in SUBSET Times /\ i \in S
  BY TriggerParts
<1>2. PICK a \in S : \A k \in S : a <= k
  BY <1>1, EarliestInstant
<1>3. [kind |-> c, at |-> a] \in NextCron(t, c)
  BY <1>2 DEF NextCron
<1> QED
  BY <1>1, <1>2, <1>3

\* A table just made waits for the next instant of every cron rule that is on.
LEMMA ReloadArms ==
  ASSUME TypeOK, UNCHANGED now,
         NEW tr \in [Rules -> Triggers], NEW en \in [Rules -> BOOLEAN],
         Reload(tr, en), trigger' = tr, enabled' = en
  PROVE  CronArmed'
<1> SUFFICES ASSUME NEW r \in Rules, NEW c \in DOMAIN tr[r].cron,
                    NEW i \in tr[r].cron[c], en[r], i > now
             PROVE  \E j \in job'[r] : j.kind = c /\ j.at <= i
  BY DEF CronArmed
<1>1. now \in Nat /\ tr[r] \in Triggers
  BY ScheduleAssumption DEF TypeOK
<1>2. NextCron(tr[r], c) \subseteq job'[r]
  BY DEF Reload, JobsOf, CronJobs
<1> QED
  BY <1>1, <1>2, NextCronExists

LEMMA RunJobArms ==
  ASSUME NEW r \in Rules, IInv, CronArmed, RunJob(r)
  PROVE  CronArmed'
<1>0. TypeOK
  BY DEF IInv
<1>1. PICK j \in job[r] :
        /\ j.at <= now
        /\ IF ~ busy[r] /\ OneTime(r)
           THEN /\ enabled' = [enabled EXCEPT ![r] = FALSE]
                /\ Reload(trigger, enabled')
           ELSE /\ job' = [job EXCEPT ![r] = Remaining(r, j)]
                /\ UNCHANGED <<enabled, loaded>>
  BY DEF RunJob
<1>2. now \in Nat /\ now' = now /\ up' = up /\ trigger' = trigger
  BY <1>0, ScheduleAssumption DEF TypeOK, RunJob
<1>3. CASE ~ busy[r] /\ OneTime(r)
  <2>1. trigger \in [Rules -> Triggers] /\ enabled' \in [Rules -> BOOLEAN]
    BY <1>0, <1>1, <1>3 DEF TypeOK
  <2> QED
    BY <1>0, <1>1, <1>2, <1>3, <2>1, ReloadArms
<1>4. CASE ~ (~ busy[r] /\ OneTime(r))
  <2> SUFFICES ASSUME NEW q \in Rules, NEW c \in DOMAIN trigger[q].cron,
                      NEW i \in trigger[q].cron[c], up, enabled[q], i > now
               PROVE  \E k \in job'[q] : k.kind = c /\ k.at <= i
    BY <1>1, <1>2, <1>4 DEF CronArmed
  <2>0. c # "once" /\ trigger[q] \in Triggers
    BY <1>0, TriggerParts DEF TypeOK
  <2>1. PICK k \in job[q] : k.kind = c /\ k.at <= i
    BY DEF CronArmed
  <2>2. /\ q # r => job'[q] = job[q]
        /\ job'[r] = Remaining(r, j)
    BY <1>0, <1>1, <1>4 DEF TypeOK
  <2>3. CASE q = r /\ k = j
    <3>1. \E n \in NextCron(trigger[r], c) : n.kind = c /\ n.at <= i
      BY <1>2, <2>0, <2>3, NextCronExists
    <3> QED
      BY <2>0, <2>1, <2>2, <2>3, <3>1 DEF Remaining
  <2>4. CASE ~ (q = r /\ k = j)
    BY <2>1, <2>2, <2>4 DEF Remaining
  <2> QED
    BY <2>3, <2>4
<1> QED
  BY <1>3, <1>4

LEMMA StepArms == IInv /\ CronArmed /\ [Next]_vars => CronArmed'
<1> SUFFICES ASSUME IInv, CronArmed, [Next]_vars PROVE CronArmed'
  OBVIOUS
<1>0. TypeOK
  BY DEF IInv
<1>1. CASE Tick
  <2>1. now \in Nat /\ now' = now + 1
    BY <1>0, <1>1, ScheduleAssumption DEF TypeOK, Tick
  <2>2. \A r \in Rules : \A c \in DOMAIN trigger[r].cron : trigger[r].cron[c] \subseteq Nat
    BY <1>0, TriggerParts DEF TypeOK, Times
  <2> QED
    BY <1>1, <2>1, <2>2 DEF CronArmed, Tick
<1>2. ASSUME NEW r \in Rules, RunJob(r) PROVE CronArmed'
  BY <1>2, RunJobArms
<1>3. ASSUME NEW r \in Rules, ChangeBusy(r) PROVE CronArmed'
  BY <1>3 DEF CronArmed, ChangeBusy
<1>4. ASSUME NEW r \in Rules, EditRule(r) PROVE CronArmed'
  <2>1. trigger' \in [Rules -> Triggers] /\ enabled' \in [Rules -> BOOLEAN]
    BY <1>0, <1>4 DEF EditRule, TypeOK
  <2>2. Reload(trigger', enabled') /\ now' = now
    BY <1>4 DEF EditRule
  <2> QED
    BY <1>0, <2>1, <2>2, ReloadArms
<1>5. CASE Crash
  BY <1>5 DEF CronArmed, Crash
<1>6. CASE Restart
  BY <1>0, <1>6, ReloadArms DEF Restart, TypeOK
<1>7. CASE UNCHANGED vars
  BY <1>7 DEF CronArmed, vars
<1>8. CASE \E r \in Rules : RunJob(r) \/ ChangeBusy(r) \/ EditRule(r)
  BY <1>2, <1>3, <1>4, <1>8
<1> QED
  BY <1>1, <1>5, <1>6, <1>7, <1>8 DEF Next

LEMMA InitArms == Init => CronArmed
<1> SUFFICES ASSUME Init, NEW r \in Rules, NEW c \in DOMAIN trigger[r].cron,
                    NEW i \in trigger[r].cron[c], i > now
             PROVE  \E j \in job[r] : j.kind = c /\ j.at <= i
  BY DEF CronArmed
<1>1. now \in Nat /\ trigger[r] \in Triggers /\ NextCron(trigger[r], c) \subseteq job[r]
  BY DEF Init, JobsOf, CronJobs
<1> QED
  BY <1>1, NextCronExists

LEMMA Invariant == Spec => []IInv
  BY InitInv, StepInv, PTL DEF Spec

\* The clock, the rules and the table keep their types; a cron member has one job
\* at most, however many members the rule has.
THEOREM TypeCorrect == Spec => []TypeOK
<1>1. IInv => TypeOK
  BY DEF IInv
<1> QED
  BY Invariant, <1>1, PTL

\* No job outlives the rule or the schedule it was made for.
THEOREM NoStaleJob == Spec => []JobsAreScheduled
<1>1. IInv => JobsAreScheduled
  BY DEF IInv
<1> QED
  BY Invariant, <1>1, PTL

\* Reloads, late timers, edits and restarts never let one member of a trigger
\* wake its rule twice for one instant.
THEOREM NoDoubleWake == Spec => []NoWakeTwice
<1>1. IInv => NoWakeTwice
  BY DEF IInv
<1> QED
  BY Invariant, <1>1, PTL

\* A one-time wake is lost to a reload only.
THEOREM OnlyReloadLoses == Spec => []OnceKeptSinceReload
<1>1. IInv => OnceKeptSinceReload
  BY DEF IInv, OnceArmed, OnceKeptSinceReload
<1> QED
  BY Invariant, <1>1, PTL

\* No cron member of a rule that is on is left without a job for its next instant: not
\* by the run of a late timer, an edit, a one-time rule switching itself off or
\* a restart.
THEOREM AlwaysArmed == Spec => []CronArmed
  BY Invariant, InitArms, StepArms, PTL DEF Spec
=============================================================================
