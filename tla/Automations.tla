----------------------------- MODULE Automations -----------------------------
(***************************************************************************)
(* The automation engine: rules fire on events, on schedules and on        *)
(* demand; each fire writes a run into the rule's history and enqueues a   *)
(* message; the run is closed by what the queue announces about that       *)
(* message.  The queue is any queue that keeps to MessageLifecycle: its    *)
(* steps are the steps of that module, all of them, and QueueDaemon is     *)
(* proved to make no others.  So what is shown of the engine here holds    *)
(* beside the daemon's queue.                                              *)
(***************************************************************************)
EXTENDS Naturals, FiniteSets, Sequences

CONSTANTS
  Rules,         \* rule ids, each rule with an agent of its own
  None,          \* no rule
  MaxRuns,       \* bound: fires in a behaviour
  MaxEvents,     \* bound: bus events in a behaviour
  MaxHistory,    \* AUTOMATION_MAX_RUN_HISTORY: rows kept per rule (20)
  MaxBatch,      \* MAX_EVENTS_PER_WAKE (25)
  MaxQueued,     \* MAX_QUEUED_EVENTS_PER_RULE (500)
  Scenarios      \* which of the outside events may happen in one behaviour

Runs   == 1 .. MaxRuns
Events == 1 .. MaxEvents

ASSUME EngineAssumption ==
  /\ None \notin Rules
  /\ MaxRuns \in Nat /\ MaxEvents \in Nat
  /\ MaxHistory \in Nat \ {0}
  /\ MaxBatch \in Nat \ {0}
  /\ MaxQueued \in Nat \ {0}
  /\ Scenarios \subseteq SUBSET {"kill", "crash", "edit"}

VARIABLES
  scenario,   \* the outside events of this behaviour
  rule,       \* "on", "off" or "gone"
  waiting,    \* the event batch of each rule, oldest first
  timer,      \* a flush of the batch is scheduled
  emitted,    \* number of bus events so far
  born,       \* number of runs so far; run ids grow with time
  of,         \* the rule of a run
  record,     \* the run's row in automation_runs
  carries,    \* the events the run's wake prompt was built from
  stage,      \* where the run's message is in its life
  closed,     \* an end of the message was announced
  up          \* the daemon is running

batchVars == <<waiting, timer, emitted>>
runVars   == <<born, of, record, carries>>
msgVars   == <<stage, closed>>
vars      == <<scenario, rule, batchVars, runVars, msgVars, up>>

\* A queue that may kill a message, or die over it, does not announce every end.
Rough == scenario \cap {"kill", "crash"} # {}

\* The queue of the runs' messages.
Lifecycle == INSTANCE MessageLifecycle WITH Msgs <- Runs, rough <- Rough

Records == {"none", "running", "ok", "error", "interrupted", "skipped", "evicted"}

Kept(r) == {q \in Runs : of[q] = r /\ record[q] \notin {"none", "evicted"}}

TypeOK ==
  /\ scenario \in Scenarios
  /\ rule \in [Rules -> {"on", "off", "gone"}]
  /\ waiting \in [Rules -> Seq(Events)]
  /\ \A r \in Rules : Len(waiting[r]) <= MaxQueued
  /\ timer \in [Rules -> BOOLEAN]
  /\ emitted \in 0 .. MaxEvents
  /\ born \in 0 .. MaxRuns
  /\ of \in [Runs -> Rules \cup {None}]
  /\ record \in [Runs -> Records]
  /\ carries \in [Runs -> Seq(Events)]
  /\ stage \in [Runs -> Lifecycle!Stages]
  /\ closed \in [Runs -> BOOLEAN]
  /\ up \in BOOLEAN

Init ==
  /\ scenario \in Scenarios
  /\ rule = [r \in Rules |-> "on"]
  /\ waiting = [r \in Rules |-> <<>>]
  /\ timer = [r \in Rules |-> FALSE]
  /\ emitted = 0
  /\ born = 0
  /\ of = [q \in Runs |-> None]
  /\ record = [q \in Runs |-> "none"]
  /\ carries = [q \in Runs |-> <<>>]
  /\ Lifecycle!Init
  /\ up = TRUE
-----------------------------------------------------------------------------
(***************************************************************************)
(* Event batches.                                                          *)
(***************************************************************************)
Smaller(a, b) == IF a < b THEN a ELSE b

\* The rules of getEnabledEventIndex for this event.
Listening == {r \in Rules : rule[r] = "on"}

\* Events beyond the limit are dropped from the old end.
Push(w, e) ==
  LET all == Append(w, e) IN
  IF Len(all) > MaxQueued THEN SubSeq(all, 1 + Len(all) - MaxQueued, Len(all))
  ELSE all

\* Mutant: the flush takes the latest events and forgets the oldest.
BatchNewest(w) == SubSeq(w, 1 + Len(w) - Smaller(MaxBatch, Len(w)), Len(w))

Batch(w) == SubSeq(w, 1, Smaller(MaxBatch, Len(w)))
Rest(w)  == SubSeq(w, 1 + Smaller(MaxBatch, Len(w)), Len(w))

\* Mutant: the flush leaves what did not fit for the next event.
RearmNever(w) == FALSE

\* The flush ends by scheduling the next one if anything is left.
Rearm(w) == w # <<>>

EmitEvent ==
  /\ up
  /\ emitted < MaxEvents
  /\ emitted' = emitted + 1
  /\ waiting' = [r \in Rules |-> IF r \in Listening THEN Push(waiting[r], emitted + 1)
                                 ELSE waiting[r]]
  /\ timer' = [r \in Rules |-> timer[r] \/ r \in Listening]
  /\ UNCHANGED <<scenario, rule, runVars, msgVars, up>>
-----------------------------------------------------------------------------
(***************************************************************************)
(* Firing.  Between its first statement and its last fire() has no await;  *)
(* only a crash can separate the run's row from its message.               *)
(***************************************************************************)
InProgress(r) == \E q \in Runs : of[q] = r /\ record[q] = "running"

\* Row q of the rule is not among the newest MaxHistory once a run is added.
Evict(r, q) == 1 + Cardinality({p \in Kept(r) : p > q}) >= MaxHistory

\* beginAutomationRun.
Begin(r, status, events) ==
  LET new == born + 1 IN
  /\ born < MaxRuns
  /\ born' = new
  /\ of' = [of EXCEPT ![new] = r]
  /\ record' = [q \in Runs |-> IF q = new THEN status
                               ELSE IF q \in Kept(r) /\ Evict(r, q)
                               THEN "evicted" ELSE record[q]]
  /\ carries' = [carries EXCEPT ![new] = events]

Fire(r, how, events) ==
  \/ /\ how # "event"
     /\ InProgress(r)
     /\ Begin(r, "skipped", <<>>)
     /\ UNCHANGED msgVars
  \/ /\ how = "event" \/ ~ InProgress(r)
     /\ Begin(r, "running", events)
     /\ \E s \in Lifecycle!InFlight : stage' = [stage EXCEPT ![born + 1] = s]
     /\ UNCHANGED closed

\* The debounce timer: one wake for the oldest events of the batch, or none if
\* the rule was switched off or deleted meanwhile.
FlushBatch(r) ==
  /\ up
  /\ timer[r]
  /\ waiting' = [waiting EXCEPT ![r] = Rest(@)]
  /\ timer' = [timer EXCEPT ![r] = Rearm(Rest(waiting[r]))]
  /\ IF rule[r] = "on"
     THEN Fire(r, "event", Batch(waiting[r]))
     ELSE UNCHANGED <<runVars, msgVars>>
  /\ UNCHANGED <<scenario, rule, emitted, up>>

\* fireById, called by a schedule: Schedules says when.
ScheduleTick(r) ==
  /\ up
  /\ rule[r] = "on"
  /\ Fire(r, "schedule", <<>>)
  /\ UNCHANGED <<scenario, rule, batchVars, up>>

\* "Run now" works for a rule that is switched off, too.
RunNow(r) ==
  /\ up
  /\ rule[r] # "gone"
  /\ Fire(r, "manual", <<>>)
  /\ UNCHANGED <<scenario, rule, batchVars, up>>

\* Toggle, pause and resume.
ToggleRule(r) ==
  /\ "edit" \in scenario
  /\ up
  /\ rule[r] # "gone"
  /\ rule' = [rule EXCEPT ![r] = IF @ = "on" THEN "off" ELSE "on"]
  /\ UNCHANGED <<scenario, batchVars, runVars, msgVars, up>>

DeleteRule(r) ==
  /\ "edit" \in scenario
  /\ up
  /\ rule[r] # "gone"
  /\ rule' = [rule EXCEPT ![r] = "gone"]
  /\ UNCHANGED <<scenario, batchVars, runVars, msgVars, up>>
-----------------------------------------------------------------------------
(***************************************************************************)
(* The queue, and closeRun on what it announces: the listener runs inside  *)
(* the queue's own step.                                                   *)
(***************************************************************************)
\* agent:response, agent:error and agent:cancelled.
Outcomes == {"ok", "error", "interrupted"}

\* Mutant: a stopped run stays open.
CloseUnlessStopped(q, status) ==
  IF record[q] = "running" /\ status # "interrupted" THEN status ELSE record[q]

\* Mutant: a run is closed as long as its rule is there.
CloseOfRule(q, status) ==
  IF record[q] = "running" /\ rule[of[q]] # "gone" THEN status ELSE record[q]

\* closeRun: only a run still recorded as running is closed.
Close(q, status) ==
  IF record[q] = "running" THEN status ELSE record[q]

\* Any step of the queue; only a fire takes a new message in.  The engine hears
\* every end that is announced, the first of a message and any later one.
QueueStep ==
  /\ up
  /\ UNCHANGED <<scenario, rule, batchVars, born, of, carries, up>>
  /\ Lifecycle!Next
  /\ \A q \in Runs : stage[q] = "new" => stage'[q] = "new"
  /\ record' \in [Runs -> Records]
  /\ \A q \in Runs :
       \/ /\ closed'[q]
          /\ \E said \in Outcomes : record'[q] = Close(q, said)
       \/ /\ closed'[q] => closed[q]
          /\ record'[q] = record[q]

\* The process dies between two segments, or in fire() between the run's row
\* and its message.
Crash ==
  /\ "crash" \in scenario
  /\ up
  /\ up' = FALSE
  /\ waiting' = [r \in Rules |-> <<>>]
  /\ timer' = [r \in Rules |-> FALSE]
  /\ \/ UNCHANGED runVars
     \/ \E r \in Rules :
          /\ rule[r] # "gone"
          /\ ~ InProgress(r)
          /\ Begin(r, "running", <<>>)
  /\ UNCHANGED <<scenario, rule, emitted, msgVars>>

\* Rows left in flight wait again, or are dead after too many restarts; run
\* rows are left as they are.
Restart ==
  /\ ~ up
  /\ up' = TRUE
  /\ \E lost \in SUBSET {q \in Runs : stage[q] = "running"} :
       stage' = [q \in Runs |-> IF stage[q] # "running" THEN stage[q]
                                ELSE IF q \in lost THEN "dead" ELSE "waiting"]
  /\ UNCHANGED <<scenario, rule, batchVars, runVars, closed>>
-----------------------------------------------------------------------------
RuleStep(r) ==
  \/ FlushBatch(r)
  \/ ScheduleTick(r)
  \/ RunNow(r)
  \/ ToggleRule(r)
  \/ DeleteRule(r)

Next ==
  \/ EmitEvent
  \/ \E r \in Rules : RuleStep(r)
  \/ QueueStep
  \/ Crash
  \/ Restart

Spec == Init /\ [][Next]_vars

\* EventuallySettled of QueueDaemon: a message in flight settles in the end.
QueueSettles ==
  \A q \in Runs :
    stage[q] \in Lifecycle!InFlight ~> stage[q] \notin Lifecycle!InFlight

\* The timers and the supervisor are fair.
LiveSpec ==
  /\ Spec
  /\ WF_vars(Restart)
  /\ \A r \in Rules : WF_vars(FlushBatch(r))
  /\ QueueSettles
-----------------------------------------------------------------------------
\* A batch with events in it has a flush scheduled: no event waits for another
\* one to come, however the batch was cut, dropped from or flushed while the
\* rule was off.
TimerArmed == \A r \in Rules : waiting[r] # <<>> => timer[r]

EventsOf(q) == {carries[q][i] : i \in 1 .. Len(carries[q])}

\* An event wakes a rule once at most, and wakes tell the events in the order in
\* which they happened, over batches and over what is still waiting.
WakesInOrder ==
  \A r \in Rules :
    LET woken == {q \in Runs : of[q] = r} IN
    /\ \A q \in woken : \A i, j \in 1 .. Len(carries[q]) :
         i < j => carries[q][i] < carries[q][j]
    /\ \A p, q \in woken : p < q =>
         \A d \in EventsOf(p), e \in EventsOf(q) : d < e
    /\ \A q \in woken : \A d \in EventsOf(q), i \in 1 .. Len(waiting[r]) :
         d < waiting[r][i]

\* Unless the queue may kill messages or lose its process, a run recorded as
\* running has a message that will still be run or is being run: whatever ends
\* the message closes the run, after any number of pauses, failures and retries.
RunningMeansInFlight ==
  ~ Rough =>
    \A q \in Runs : record[q] = "running" => stage[q] \in Lifecycle!InFlight

\* Without kills and crashes every run is closed in the end, or drops out of
\* the history, so that its rule can fire on schedule again, whatever became of
\* the rule meanwhile.
RunsClose ==
  ~ Rough =>
    \A q \in Runs : record[q] = "running" ~> record[q] # "running"
=============================================================================
