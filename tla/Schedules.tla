------------------------------ MODULE Schedules ------------------------------
(***************************************************************************)
(* The table of croner jobs.  Whenever a rule changes, every job of every  *)
(* rule is stopped and made again from the rules and the clock; a rule     *)
(* also changes when a one-time fire switches it off.  What a fire does    *)
(* beyond that is the subject of Automations; here it makes the rule busy  *)
(* until its run is closed.                                                *)
(*                                                                         *)
(* The clock counts the instants at which something may be scheduled.      *)
(* now = t covers everything from instant t until just before t + 1, and   *)
(* timers may be late: the machine sleeps.                                 *)
(***************************************************************************)
EXTENDS Naturals, FiniteSets

CONSTANTS
  Rules,
  Slots,       \* places for the cron and event members of a trigger
  MaxMembers,  \* MAX_GROUP_MEMBERS: members of a trigger (8)
  MaxTime,     \* bound: the last instant
  MaxEdits,    \* bound: changes to the rules
  Scenarios    \* which of the outside events may happen in one behaviour

ASSUME ScheduleAssumption ==
  /\ "once" \notin Slots
  /\ MaxMembers \in Nat
  /\ MaxTime \in Nat
  /\ MaxEdits \in Nat
  /\ Scenarios \subseteq SUBSET {"edit", "crash"}

Times == 1 .. MaxTime

\* The instants of the one-time members, and those of each cron member; an event
\* member, like a cron member that is never due, has none.
Triggers ==
  {t \in [once : SUBSET Times, cron : UNION {[S -> SUBSET Times] : S \in SUBSET Slots}] :
     Cardinality(t.once) + Cardinality(DOMAIN t.cron) \in 1 .. MaxMembers}

\* A job belongs to a one-time member or to the cron member of a slot.
Jobs == [kind : Slots \cup {"once"}, at : Times]

VARIABLES
  scenario,
  now,       \* the clock
  up,        \* the daemon is running
  trigger,   \* the schedule of each rule
  enabled,
  busy,      \* the rule has a run recorded as running
  job,       \* the armed jobs of each rule, each with the instant it waits for
  loaded,    \* when the table was made last
  woken,     \* how often each job of each rule has run
  edits      \* number of changes so far

vars == <<scenario, now, up, trigger, enabled, busy, job, loaded, woken, edits>>

\* A cron member has one job at most: it waits for one instant at a time.
OnePerMember(js) == \A j, k \in js : j.kind = k.kind /\ j.kind # "once" => j = k

TypeOK ==
  /\ scenario \in Scenarios
  /\ now \in 0 .. MaxTime
  /\ up \in BOOLEAN
  /\ trigger \in [Rules -> Triggers]
  /\ enabled \in [Rules -> BOOLEAN]
  /\ busy \in [Rules -> BOOLEAN]
  /\ job \in [Rules -> SUBSET Jobs]
  /\ \A r \in Rules : OnePerMember(job[r])
  /\ loaded \in 0 .. MaxTime
  /\ woken \in [Rules -> [Jobs -> Nat]]
  /\ edits \in 0 .. MaxEdits
-----------------------------------------------------------------------------
OnceJobs(t, due) == {[kind |-> "once", at |-> i] : i \in t.once \cap due}

\* new Cron(schedule): the first instant of the member after this one.
NextCron(t, c) ==
  {[kind |-> c, at |-> i] :
     i \in {i \in t.cron[c] : i > now /\ \A k \in t.cron[c] : k > now => i <= k}}

CronJobs(t) == UNION {NextCron(t, c) : c \in DOMAIN t.cron}

Later == {i \in Times : i > now}

\* Mutant: a one-time member that is due this very instant is armed again.
JobsOfDue(t) == OnceJobs(t, Later \cup {now}) \cup CronJobs(t)

\* Mutant: the cron members of a group hide its one-time members.
JobsOfOne(t) ==
  IF CronJobs(t) # {} THEN CronJobs(t) ELSE OnceJobs(t, Later)

\* One job per member; a one-time member whose time has come or gone gets none.
JobsOf(t) == OnceJobs(t, Later) \cup CronJobs(t)

\* reloadJobs.
Reload(tr, en) ==
  /\ job' = [r \in Rules |-> IF en[r] THEN JobsOf(tr[r]) ELSE {}]
  /\ loaded' = now

Init ==
  /\ scenario \in Scenarios
  /\ now = 0
  /\ up = TRUE
  /\ trigger \in [Rules -> Triggers]
  /\ enabled = [r \in Rules |-> TRUE]
  /\ busy = [r \in Rules |-> FALSE]
  /\ job = [r \in Rules |-> JobsOf(trigger[r])]
  /\ loaded = 0
  /\ woken = [r \in Rules |-> [j \in Jobs |-> 0]]
  /\ edits = 0

Tick ==
  /\ now < MaxTime
  /\ now' = now + 1
  /\ UNCHANGED <<scenario, up, trigger, enabled, busy, job, loaded, woken, edits>>

\* trigger.type === 'once': a group of one collapses to its member.
OneTime(r) == DOMAIN trigger[r].cron = {} /\ \E i \in Times : trigger[r].once = {i}

\* A job that has run is over, or waits for its next instant from now.
Remaining(r, j) ==
  (job[r] \ {j}) \cup
    (IF j.kind = "once" THEN {} ELSE NextCron(trigger[r], j.kind))

\* The callback of a job: fireById.
RunJob(r) ==
  /\ up
  /\ \E j \in job[r] :
       /\ j.at <= now
       /\ woken' = [woken EXCEPT ![r][j] = @ + 1]
       /\ IF ~ busy[r] /\ OneTime(r)
          THEN /\ enabled' = [enabled EXCEPT ![r] = FALSE]
               /\ Reload(trigger, enabled')
          ELSE /\ job' = [job EXCEPT ![r] = Remaining(r, j)]
               /\ UNCHANGED <<enabled, loaded>>
  /\ busy' = [busy EXCEPT ![r] = TRUE]
  /\ UNCHANGED <<scenario, now, up, trigger, edits>>

\* A run of the rule begins otherwise, or its run is closed.
ChangeBusy(r) ==
  /\ up
  /\ busy' = [busy EXCEPT ![r] = ~ @]
  /\ UNCHANGED <<scenario, now, up, trigger, enabled, job, loaded, woken, edits>>

\* Mutant: the change does not reach the engine.
EditRuleOnly(r) ==
  /\ "edit" \in scenario
  /\ up
  /\ edits < MaxEdits
  /\ edits' = edits + 1
  /\ enabled' = [enabled EXCEPT ![r] = ~ @]
  /\ UNCHANGED <<scenario, now, up, trigger, busy, job, loaded, woken>>

\* Any of the routes that change a rule: rulesChanged, hence reloadJobs.
EditRule(r) ==
  /\ "edit" \in scenario
  /\ up
  /\ edits < MaxEdits
  /\ edits' = edits + 1
  /\ \/ /\ enabled' = [enabled EXCEPT ![r] = ~ @]
        /\ UNCHANGED trigger
     \/ /\ trigger' \in {[trigger EXCEPT ![r] = t] : t \in Triggers}
        /\ UNCHANGED enabled
  /\ Reload(trigger', enabled')
  /\ UNCHANGED <<scenario, now, up, busy, woken>>

Crash ==
  /\ "crash" \in scenario
  /\ up
  /\ up' = FALSE
  /\ job' = [r \in Rules |-> {}]
  /\ UNCHANGED <<scenario, now, trigger, enabled, busy, loaded, woken, edits>>

\* Mutant: start() subscribes to changes and waits for one.
RestartIdle ==
  /\ ~ up
  /\ up' = TRUE
  /\ UNCHANGED <<scenario, now, trigger, enabled, busy, job, loaded, woken, edits>>

\* start().
Restart ==
  /\ ~ up
  /\ up' = TRUE
  /\ Reload(trigger, enabled)
  /\ UNCHANGED <<scenario, now, trigger, enabled, busy, woken, edits>>

Next ==
  \/ Tick
  \/ \E r \in Rules : RunJob(r) \/ ChangeBusy(r) \/ EditRule(r)
  \/ Crash
  \/ Restart

Spec == Init /\ [][Next]_vars
-----------------------------------------------------------------------------
\* When a member is due: what its job may wait for.
Instants(t, kind) ==
  IF kind = "once" THEN t.once
  ELSE IF kind \in DOMAIN t.cron THEN t.cron[kind]
  ELSE {}

\* A job in the table belongs to a rule that is on and to a member the rule has
\* now: a rule that was switched off, paused or given another schedule, by
\* whichever route and between whichever jobs, is not woken by the old one.
JobsAreScheduled ==
  \A r \in Rules : \A j \in job[r] :
    /\ up
    /\ enabled[r]
    /\ j.at \in Instants(trigger[r], j.kind)
    /\ j.at > loaded

\* However often the table is made again, no member wakes its rule twice for one
\* instant.  (Two members of a group may share an instant, and then each wakes
\* the rule; the second is skipped as long as the run of the first is open.)
NoWakeTwice == \A r \in Rules : \A j \in Jobs : woken[r][j] <= 1

\* Every cron member of a rule that is on waits for its next instant, or for one
\* that has come already, beside any other members of the group.
CronArmed ==
  \A r \in Rules : \A c \in DOMAIN trigger[r].cron : \A i \in trigger[r].cron[c] :
    up /\ enabled[r] /\ i > now =>
      \E j \in job[r] : j.kind = c /\ j.at <= i

Woken(r, j) == woken[r][j] > 0

\* A one-time member whose time has come since the table was made is still
\* armed or has woken its rule: only a reload can lose it.
OnceKeptSinceReload ==
  \A r \in Rules : \A i \in trigger[r].once :
    LET j == [kind |-> "once", at |-> i] IN
    up /\ enabled[r] /\ loaded < i /\ i <= now => j \in job[r] \/ Woken(r, j)
=============================================================================
