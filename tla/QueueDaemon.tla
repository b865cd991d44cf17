----------------------------- MODULE QueueDaemon -----------------------------
(***************************************************************************)
(* The message queue of the daemon: the rows of the messages table, the    *)
(* chain of promises that runs one agent's messages one after another, the *)
(* CLI process each run spawns, and everybody who interferes with a run    *)
(* while it is suspended at an await - the dashboard's cancel, kill, retry *)
(* and delete, the watchdog, a crash, a restart, a graceful shutdown.      *)
(*                                                                         *)
(* The daemon is one JavaScript process, so the unit of interleaving is    *)
(* the code between two awaits: every action below is one such segment, or *)
(* one HTTP handler, or one timer callback, from its first statement to    *)
(* the next await (or to its end).                                         *)
(***************************************************************************)
EXTENDS MessageRows, FiniteSets

CONSTANTS
  Msgs,          \* row ids, in order of arrival
  Keys,          \* values of COALESCE(agent, 'default') found in the table
  Agents,        \* the agents configured in settings.json
  None,          \* no chain, no message
  Scenarios      \* which outside events may happen in one behaviour

Disturbances == {"cancel", "kill", "retry", "delete", "prune", "watchdog",
                 "crash", "shutdown"}

ASSUME DaemonAssumption ==
  /\ Msgs \subseteq Nat
  /\ None \notin Msgs
  /\ None \notin Keys
  /\ Scenarios \subseteq SUBSET Disturbances

VARIABLES
  scenario,   \* the outside events of this behaviour, chosen at the start
  row,        \* the messages table
  mail,       \* what a message says: its chain key, its lane, its agent
  pc,         \* where the chain of a key is suspended ("none": no chain)
  cur,        \* the row the chain is working on
  stale,      \* agent:killed was emitted since the chain started
  cli,        \* the CLI process of the chain's current run
  active,     \* activeProcesses: the chain whose CLI an agent id stands for
  orphans,    \* agents with a CLI left behind by a daemon that is gone
  mode,       \* of the daemon process
  answered,   \* the current run has enqueued its response (or was quiet)
  closed      \* agent:response, :error or :cancelled was emitted for the message

rowVars   == <<row, mail>>
chainVars == <<pc, cur, stale>>
procVars  == <<cli, active, orphans>>
outVars   == <<answered, closed>>
vars      == <<rowVars, chainVars, procVars, outVars, mode, scenario>>

Lanes == {"user", "background"}

\* A row that names a configured agent runs as that agent.  Any other row is
\* routed by its text ("@name ...") or falls back to 'fonte' when it runs.
Mail == {l \in [key : Keys, lane : Lanes, agent : Agents] :
           l.key \in Agents => l.agent = l.key}

\* "hooks": awaiting runIncomingHooks; "run": awaiting invokeAgent; "deliver":
\* awaiting runOutgoingHooks; "done" and "threw": processMessage has settled
\* and the chain resumes; "winding": the loop has ended, finally() has not run.
Phases == {"none", "hooks", "run", "deliver", "done", "threw", "winding"}
Busy   == {"hooks", "run", "deliver", "done", "threw"}

TypeOK ==
  /\ scenario \in Scenarios
  /\ row \in [Msgs -> Row]
  /\ mail \in [Msgs -> Mail]
  /\ pc \in [Keys -> Phases]
  /\ cur \in [Keys -> Msgs \cup {None}]
  /\ stale \in [Keys -> BOOLEAN]
  /\ cli \in [Keys -> {"none", "live", "killed"}]
  /\ active \in [Agents -> Keys \cup {None}]
  /\ orphans \subseteq Agents
  /\ mode \in {"up", "stopping", "down"}
  /\ answered \in [Msgs -> BOOLEAN]
  /\ closed \in [Msgs -> BOOLEAN]

Init ==
  /\ scenario \in Scenarios
  /\ row = [m \in Msgs |-> Blank]
  /\ mail \in [Msgs -> Mail]
  /\ pc = [k \in Keys |-> "none"]
  /\ cur = [k \in Keys |-> None]
  /\ stale = [k \in Keys |-> FALSE]
  /\ cli = [k \in Keys |-> "none"]
  /\ active = [a \in Agents |-> None]
  /\ orphans = {}
  /\ mode = "up"
  /\ answered = [m \in Msgs |-> FALSE]
  /\ closed = [m \in Msgs |-> FALSE]

Alive == mode \in {"up", "stopping"}
-----------------------------------------------------------------------------
(***************************************************************************)
(* Claiming.  The user lane goes first, then arrival.                      *)
(***************************************************************************)
\* Mutant: arrival only.
AheadByArrival(m, n) == m < n

Ahead(m, n) ==
  \/ mail[m].lane = "user" /\ mail[n].lane = "background"
  \/ mail[m].lane = mail[n].lane /\ m < n

Waiting(t, k) == {m \in Msgs : t[m].status = "pending" /\ mail[m].key = k}

First(t, k) ==
  {m \in Waiting(t, k) : \A n \in Waiting(t, k) \ {m} : Ahead(m, n)}

Take(r) == MarkProcessing(Claim(r))

FreeKeys == {k \in Keys : pc[k] = "none"}

\* processQueue: every key of "free" that has a pending row gets a chain, and
\* each new chain runs up to its first await, the row's incoming hooks.
StartChains(t, free) ==
  LET idle == {k \in free : Waiting(t, k) # {}} IN
  \E next \in [idle -> Msgs] :
    LET taken == {next[k] : k \in idle} IN
    /\ \A k \in idle : next[k] \in First(t, k)
    /\ row' = [m \in Msgs |-> IF m \in taken THEN Take(t[m]) ELSE t[m]]
    /\ answered' = [m \in Msgs |-> m \notin taken /\ answered[m]]
    /\ pc' = [k \in Keys |-> IF k \in idle THEN "hooks"
                             ELSE IF k \in free THEN "none" ELSE pc[k]]
    /\ cur' = [k \in Keys |-> IF k \in idle THEN next[k]
                              ELSE IF k \in free THEN None ELSE cur[k]]
    /\ stale' = [k \in Keys |-> k \notin free /\ stale[k]]

\* The head of the chain's loop, on the table t the last turn left.  No row:
\* the loop ends.  The user killed the agent since the chain started: every
\* pending row of the key is claimed and failed until none is left.
NextTurn(k, t) ==
  \/ /\ Waiting(t, k) = {}
     /\ row' = t
     /\ pc' = [pc EXCEPT ![k] = "winding"]
     /\ cur' = [cur EXCEPT ![k] = None]
     /\ UNCHANGED answered
  \/ /\ Waiting(t, k) # {}
     /\ stale[k]
     /\ row' = [m \in Msgs |->
                  IF m \in Waiting(t, k) THEN Drain(t[m]) ELSE t[m]]
     /\ pc' = [pc EXCEPT ![k] = "winding"]
     /\ cur' = [cur EXCEPT ![k] = None]
     /\ UNCHANGED answered
  \/ /\ ~ stale[k]
     /\ \E m \in First(t, k) :
          /\ row' = [t EXCEPT ![m] = Take(@)]
          /\ cur' = [cur EXCEPT ![k] = m]
          /\ answered' = [answered EXCEPT ![m] = FALSE]
     /\ pc' = [pc EXCEPT ![k] = "hooks"]
-----------------------------------------------------------------------------
(***************************************************************************)
(* CLI processes.  activeProcesses is indexed by the agent a run was       *)
(* routed to; killAgentProcess is called with the key of the row.          *)
(***************************************************************************)
KillProcesses(names) ==
  /\ cli' = [k \in Keys |->
               IF \E a \in names \cap Agents : active[a] = k
               THEN "killed" ELSE cli[k]]
  /\ active' = [a \in Agents |-> IF a \in names THEN None ELSE active[a]]

Announce(m) == closed' = [closed EXCEPT ![m] = TRUE]

EnqueueMessage(m) ==
  /\ mode = "up"
  /\ row[m].status = "new"
  /\ \A n \in Msgs : n < m => row[n].status # "new"
  /\ StartChains([row EXCEPT ![m] = Insert(@)], FreeKeys)
  /\ UNCHANGED <<mail, procVars, closed, mode, scenario>>

\* The five-second poll, for rows no event closed.
Poll ==
  /\ mode = "up"
  /\ \E k \in FreeKeys : Waiting(row, k) # {}
  /\ StartChains(row, FreeKeys)
  /\ UNCHANGED <<mail, procVars, closed, mode, scenario>>

\* The incoming hooks return; the agent's CLI is spawned, or invokeAgent
\* throws before it gets there (no such provider).
SpawnCli(k) ==
  /\ Alive
  /\ pc[k] = "hooks"
  /\ pc' = [pc EXCEPT ![k] = "run"]
  /\ cli' = [cli EXCEPT ![k] = "live"]
  /\ active' = [active EXCEPT ![mail[cur[k]].agent] = k]
  /\ UNCHANGED <<rowVars, cur, stale, orphans, outVars, mode, scenario>>

LaunchFails(k) ==
  /\ Alive
  /\ pc[k] = "hooks"
  /\ pc' = [pc EXCEPT ![k] = "run"]
  /\ UNCHANGED <<rowVars, cur, stale, procVars, outVars, mode, scenario>>

\* Mutant: processMessage can still throw after the response was enqueued.
ThrowLate(k) ==
  /\ Alive
  /\ pc[k] \in {"hooks", "deliver", "done"}
  /\ pc' = [pc EXCEPT ![k] = "threw"]
  /\ UNCHANGED <<rowVars, cur, stale, procVars, outVars, mode, scenario>>

\* processMessage throws: before its first await (no agents, the reset flag
\* cannot be removed) or while it delivers (the long response cannot be
\* saved, a plugin's metadata cannot be serialised).
Throw(k) ==
  /\ Alive
  /\ pc[k] \in {"hooks", "deliver"}
  /\ pc' = [pc EXCEPT ![k] = "threw"]
  /\ UNCHANGED <<rowVars, cur, stale, procVars, outVars, mode, scenario>>

\* The CLI closes (or never started) and processMessage goes on: it looks at
\* the row again and drops the result of a run that was stopped or paused.
Settle(k) ==
  LET m == cur[k] IN
  /\ Alive
  /\ pc[k] = "run"
  /\ cli' = [cli EXCEPT ![k] = "none"]
  /\ active' = [a \in Agents |-> IF active[a] = k THEN None ELSE active[a]]
  /\ \/ /\ row[m].status \in {"cancelled", "pending"}
        /\ pc' = [pc EXCEPT ![k] = "done"]
        /\ UNCHANGED <<row, outVars>>
     \/ /\ row[m].status \notin {"cancelled", "pending"}     \* runError
        /\ Announce(m)
        /\ row' = [row EXCEPT ![m] = DeadLetter(@)]
        /\ pc' = [pc EXCEPT ![k] = "deliver"]
        /\ UNCHANGED answered
     \/ /\ row[m].status \notin {"cancelled", "pending"}     \* "[quiet]"
        /\ cli[k] # "none"
        /\ Announce(m)
        /\ answered' = [answered EXCEPT ![m] = TRUE]
        /\ pc' = [pc EXCEPT ![k] = "done"]
        /\ UNCHANGED row
     \/ /\ row[m].status \notin {"cancelled", "pending"}     \* an answer
        /\ cli[k] # "none"
        /\ Announce(m)
        /\ pc' = [pc EXCEPT ![k] = "deliver"]
        /\ UNCHANGED <<row, answered>>
  /\ UNCHANGED <<mail, cur, stale, orphans, mode, scenario>>

\* The outgoing hooks return and the response row is inserted.
Deliver(k) ==
  /\ Alive
  /\ pc[k] = "deliver"
  /\ answered' = [answered EXCEPT ![cur[k]] = TRUE]
  /\ pc' = [pc EXCEPT ![k] = "done"]
  /\ UNCHANGED <<rowVars, cur, stale, procVars, closed, mode, scenario>>

\* processMessage returned: complete the row and take the next turn.
Finish(k) ==
  /\ Alive
  /\ pc[k] = "done"
  /\ NextTurn(k, [row EXCEPT ![cur[k]] = Complete(@)])
  /\ UNCHANGED <<mail, stale, procVars, closed, mode, scenario>>

\* Mutant: the status the row had decides, not the outcome of the failure.
LastFailureBefore(r) == r.status = "dead"

LastFailure(r) == r.status \in Stored /\ FailOutcome(r) = "dead"

\* processMessage threw: fail the row, report it if that was its last retry,
\* and take the next turn.
FailTurn(k) ==
  LET m == cur[k] IN
  /\ Alive
  /\ pc[k] = "threw"
  /\ IF LastFailure(row[m])
     THEN Announce(m) ELSE UNCHANGED closed
  /\ NextTurn(k, [row EXCEPT ![m] = Fail(@)])
  /\ UNCHANGED <<mail, stale, procVars, mode, scenario>>

\* The chain's finally(): leave agentChains and look at the queue again.
WindDown(k) ==
  /\ Alive
  /\ pc[k] = "winding"
  /\ StartChains(row, FreeKeys \cup {k})
  /\ UNCHANGED <<mail, procVars, closed, mode, scenario>>
-----------------------------------------------------------------------------
(***************************************************************************)
(* What the outside does while a chain is suspended.                       *)
(***************************************************************************)
CancelMessage(m) ==
  /\ "cancel" \in scenario
  /\ mode = "up"
  /\ row[m].status \in Active
  /\ row' = [row EXCEPT ![m] = Cancel(@)]
  /\ IF row[m].status = "processing"
     THEN KillProcesses({mail[m].key}) ELSE UNCHANGED <<cli, active>>
  /\ Announce(m)
  /\ UNCHANGED <<mail, chainVars, orphans, answered, mode, scenario>>

\* A row that is only waiting kills the agent's process all the same.
KillMessage(m) ==
  /\ "kill" \in scenario
  /\ mode = "up"
  /\ row[m].status \in Active
  /\ KillProcesses({mail[m].key})
  /\ row' = [row EXCEPT ![m] = Fail(@)]
  /\ stale' = [stale EXCEPT ![mail[m].key] = pc[mail[m].key] # "none"]
  /\ UNCHANGED <<mail, pc, cur, orphans, outVars, mode, scenario>>

RetryDeadMessage(m) ==
  /\ "retry" \in scenario
  /\ mode = "up"
  /\ row[m].status = "dead"
  /\ StartChains([row EXCEPT ![m] = RetryDead(@)], FreeKeys)
  /\ UNCHANGED <<mail, procVars, closed, mode, scenario>>

DeleteDeadMessage(m) ==
  /\ "delete" \in scenario
  /\ mode = "up"
  /\ row[m].status = "dead"
  /\ row' = [row EXCEPT ![m] = DeleteDead(@)]
  /\ UNCHANGED <<mail, chainVars, procVars, outVars, mode, scenario>>

\* pruneCompletedMessages: rows settled for a day.  No run lasts that long
\* after its row has settled, so a row still held by a chain is too young.
Prune ==
  LET old == {m \in Msgs : /\ row[m].status \in {"completed", "cancelled"}
                           /\ \A k \in Keys : cur[k] # m} IN
  /\ "prune" \in scenario
  /\ mode = "up"
  /\ \E gone \in SUBSET old \ {{}} :
       row' = [m \in Msgs |->
                 IF m \in gone THEN PruneSettled(row[m]) ELSE row[m]]
  /\ UNCHANGED <<mail, chainVars, procVars, outVars, mode, scenario>>

\* Background runs with a user row of their key waiting behind them.  Which of
\* those rows has waited 45 seconds is left open.
Displaced ==
  {m \in Msgs : /\ row[m].status = "processing"
                /\ mail[m].lane = "background"
                /\ \E n \in Waiting(row, mail[m].key) : mail[n].lane = "user"}

Watchdog ==
  /\ "watchdog" \in scenario
  /\ mode = "up"
  /\ \E paused \in SUBSET Displaced \ {{}} :
       /\ row' = [m \in Msgs |->
                    IF m \in paused THEN Interrupt(row[m]) ELSE row[m]]
       /\ KillProcesses({mail[m].key : m \in paused})
  /\ UNCHANGED <<mail, chainVars, orphans, outVars, mode, scenario>>

\* Only the tables survive the process; a CLI is detached and lives on.
ProcessGone ==
  /\ mode' = "down"
  /\ pc' = [k \in Keys |-> "none"]
  /\ cur' = [k \in Keys |-> None]
  /\ stale' = [k \in Keys |-> FALSE]
  /\ cli' = [k \in Keys |-> "none"]
  /\ active' = [a \in Agents |-> None]
  /\ orphans' = orphans \cup
       {mail[cur[k]].agent : k \in {j \in Keys : cli[j] = "live"}}
  /\ UNCHANGED <<mail, outVars, scenario>>

\* The process dies between two segments, or halfway through the claim of a
\* new chain's first row.
Crash ==
  /\ "crash" \in scenario
  /\ Alive
  /\ \/ UNCHANGED row
     \/ \E k \in FreeKeys : \E m \in First(row, k) :
          row' = [row EXCEPT ![m] = Claim(@)]
  /\ ProcessGone

\* shutdown(): timers stop, every registered CLI is signalled; the chains go
\* on until teardown is over (five seconds at most).
Shutdown ==
  /\ "shutdown" \in scenario
  /\ mode = "up"
  /\ mode' = "stopping"
  /\ KillProcesses(Agents)
  /\ UNCHANGED <<rowVars, chainVars, orphans, outVars, scenario>>

Exit ==
  /\ mode = "stopping"
  /\ ProcessGone
  /\ UNCHANGED row

Restart ==
  /\ mode = "down"
  /\ mode' = "up"
  /\ row' = [m \in Msgs |-> Recover(row[m])]
  /\ UNCHANGED <<mail, chainVars, procVars, outVars, scenario>>

OrphanEnds(a) ==
  /\ a \in orphans
  /\ orphans' = orphans \ {a}
  /\ UNCHANGED <<rowVars, chainVars, cli, active, outVars, mode, scenario>>
-----------------------------------------------------------------------------
ChainStep(k) ==
  \/ SpawnCli(k)
  \/ LaunchFails(k)
  \/ Throw(k)
  \/ Settle(k)
  \/ Deliver(k)
  \/ Finish(k)
  \/ FailTurn(k)
  \/ WindDown(k)

MessageStep(m) ==
  \/ EnqueueMessage(m)
  \/ CancelMessage(m)
  \/ KillMessage(m)
  \/ RetryDeadMessage(m)
  \/ DeleteDeadMessage(m)

Next ==
  \/ \E k \in Keys : ChainStep(k)
  \/ \E m \in Msgs : MessageStep(m)
  \/ Poll
  \/ Prune
  \/ Watchdog
  \/ Crash
  \/ Shutdown
  \/ Exit
  \/ Restart
  \/ \E a \in Agents : OrphanEnds(a)

Spec == Init /\ [][Next]_vars
-----------------------------------------------------------------------------
(***************************************************************************)
(* Fairness.  A chain's continuations, the poll and the watchdog are run   *)
(* by the event loop; whoever supervises the daemon restarts it.  That a   *)
(* CLI ends by itself is an assumption about the provider: nothing in the  *)
(* daemon bounds a run.  People, crashes and shutdowns are not fair.       *)
(***************************************************************************)
EventLoop ==
  /\ WF_vars(Poll)
  /\ WF_vars(Watchdog)
  /\ WF_vars(Exit)
  /\ WF_vars(Restart)

LiveSpec == Spec /\ EventLoop /\ \A k \in Keys : WF_vars(ChainStep(k))
-----------------------------------------------------------------------------
(***************************************************************************)
(* Safety.                                                                 *)
(***************************************************************************)

\* While the daemon runs, a row marked processing is the row some chain is
\* working on, and no row is stuck between claim and mark: nothing the daemon
\* took can be forgotten (recoverStaleMessages runs at startup only).
InFlightOwned ==
  Alive => \A m \in Msgs :
             /\ row[m].status # "queued"
             /\ row[m].status = "processing" =>
                  /\ pc[mail[m].key] \in Busy
                  /\ cur[mail[m].key] = m

\* Conversely, a chain holds a row of its own key, and keeps it while it is
\* suspended; the row may have been cancelled, paused or failed meanwhile, but
\* it is never handed to a second chain, claimed a second time under it, or
\* completed before the chain has seen its own run through.
ChainHoldsRow ==
  \A k \in Keys :
    IF pc[k] \in Busy
    THEN /\ cur[k] \in Msgs
         /\ mail[cur[k]].key = k
         /\ row[cur[k]].status \notin {"new", "queued", "completed"}
    ELSE cur[k] = None

\* A row that waits or runs has at least one retry left, after any number of
\* failures, kills, dead-letterings, recoveries and retries by hand: failMessage
\* sends it to the dead letter list in time, and nothing brings it back from
\* there with its count used up.
PendingHasRetries ==
  \A m \in Msgs : row[m].status \in Active => row[m].retries < MaxRetries

\* A message is completed only if this run answered it: the result of a run
\* that was stopped, paused or killed is dropped, and then its row must not be
\* completed by the code that runs next.
CompletedAnswered ==
  \A m \in Msgs : row[m].status = "completed" => answered[m]

\* A row a chain still holds can be failed once more without leaving the range
\* of its counter.
HeldRetries ==
  \A k \in Keys : pc[k] \in Busy => row[cur[k]].retries <= MaxRetries

\* A run that ended without an answer does not leave its row processing, where
\* the chain would complete it.
DoneAnswered ==
  \A k \in Keys : pc[k] = "done" /\ row[cur[k]].status = "processing"
                     => answered[cur[k]]

\* A CLI belongs to the chain that waits for it, and activeProcesses names only
\* such CLIs: no agent is left registered to a chain that has gone on.
RegisteredRuns ==
  /\ \A k \in Keys : cli[k] # "none" => pc[k] = "run"
  /\ \A a \in Agents : active[a] # None => cli[active[a]] # "none"

\* The inductive invariant: each part needs others to be preserved.
QueueInv ==
  /\ TypeOK
  /\ InFlightOwned
  /\ ChainHoldsRow
  /\ PendingHasRetries
  /\ CompletedAnswered
  /\ HeldRetries
  /\ DoneAnswered
  /\ RegisteredRuns

\* "A person typing never waits behind a queue of background wakes"
\* (queues.ts): when a background row starts, no user row of its agent waits.
UserLaneFirst ==
  [][\A m \in Msgs :
       /\ row[m].status # "processing"
       /\ row'[m].status = "processing"
       /\ mail[m].lane = "background"
       => \A n \in Msgs : /\ mail[n].key = mail[m].key
                          /\ mail[n].lane = "user"
                          => row'[n].status # "pending"]_vars

\* "A user-cancelled row is terminal, so neither a late completion nor a
\* retry may overwrite it" (queues.ts).
CancelIsTerminal ==
  [][\A m \in Msgs : row[m].status = "cancelled" =>
                       row'[m].status \in {"cancelled", "gone"}]_vars

\* Unless it is killed, paused, caught by a crash or a shutdown, or retried by a
\* person, a message is answered once: a row never waits to be run again after
\* its response was enqueued, however its runs fail and whoever cancels it.
\* (A person may retry a row whose run failed while that run still awaits the
\* outgoing hooks: the row waits again, and then the old run answers it.)
AnsweredOnce ==
  scenario \cap {"kill", "watchdog", "crash", "shutdown", "retry"} = {} =>
  \A m \in Msgs : row[m].status = "pending" => ~ answered[m]

\* Whoever waits for a message's end (the automation engine closes its run on
\* these events) is told: unless it was killed or died with the daemon, a
\* settled row had a closing event.
SettledIsAnnounced ==
  scenario \cap {"kill", "crash", "shutdown"} = {} =>
  \A m \in Msgs : row[m].status \in Settled => closed[m]

(***************************************************************************)
(* Liveness.                                                               *)
(***************************************************************************)

\* Once the daemon stays up, every message taken in is eventually settled,
\* whatever was cancelled, killed or paused on the way.  (A user who kills and
\* retries one message for ever keeps it ahead of the ones behind it.)
EventuallySettled ==
  <>[](mode = "up") =>
    \A m \in Msgs : row[m].status \in Active ~>
                       row[m].status \in Settled \cup {"gone"}
-----------------------------------------------------------------------------
(***************************************************************************)
(* What comments in the code say, and the code does not do.                *)
(***************************************************************************)

\* "A stopped run must never deliver its partial answer to any channel."
\* (main/src/index.ts, before the check that implements it)
CancelledNeverAnswered ==
  [][\A m \in Msgs : row[m].status = "cancelled" =>
                       (answered'[m] => answered[m])]_vars
-----------------------------------------------------------------------------
(***************************************************************************)
(* The queue implements the life of a message its clients rely on.         *)
(***************************************************************************)
StageOf(status) ==
  CASE status = "pending"                  -> "waiting"
    [] status \in {"queued", "processing"} -> "running"
    [] OTHER                               -> status

Lifecycle == INSTANCE MessageLifecycle WITH
  stage <- [m \in Msgs |-> StageOf(row[m].status)],
  rough <- scenario \cap {"kill", "crash", "shutdown"} # {}

\* Every step takes each message onward in its life and ends none unannounced: what the automation engine is modelled against.
LifecycleSpec == Lifecycle!Spec
=============================================================================
