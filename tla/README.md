# Fonte: specification and verification

Fonte is a self-hosted assistant: a daemon that runs command-line agents
(Claude Code, Codex, Gemini, OpenCode) on queued messages, drives a Transmission
client, watches for releases, fires automations on events and schedules, and
bridges WhatsApp. This directory holds TLA+ models of it, TLC configurations
that check them on small instances, and TLAPS proofs of what holds for every
size.

## 1. The system

Everything below runs in one Node.js process, so state changes only between two
`await`s: a handler, a timer callback or a promise continuation is atomic up to
its next `await`. What interleaves is those segments, the SQLite tables they
share, the agent processes they spawn, Transmission, WhatsApp and the other
external services, and crashes of the process itself.

| Component | Source | State it keeps | Operations |
|---|---|---|---|
| Message queue store | `packages/core/src/queues.ts` | tables `messages`, `responses`, `agent_messages` | enqueue, claim, mark, complete, fail, dead-letter, interrupt, cancel, recover, retry, delete, prune |
| Queue processor | `packages/main/src/index.ts` | `agentChains`, kill epochs, timers | poll, one promise chain per agent, `processMessage`, watchdog, maintenance, start, shutdown |
| CLI process registry | `packages/core/src/invoke.ts` | `activeProcesses` | spawn, stream, grace timer, kill |
| Queue and message routes | `packages/server/src/routes/queue.ts`, `messages.ts` | none | enqueue, cancel, kill, retry, delete |
| Automations | `packages/torrent/src/automation-*.ts` | tables `automation_rules`, `automation_runs`; event batches, cron jobs, failure counts | fire, batch, flush, close a run, edit rules |
| Torrent manager | `packages/torrent/src/torrent-manager.ts`, `torrent-db.ts` | table `torrents`; polling state | add, pause, resume, remove, move in the queue, sync with Transmission, configure |
| Watchlist | `packages/torrent/src/watchlist-runner.ts`, `watchlist-db.ts`, `packages/server/src/routes/watchlist.ts` | tables `watchlist`, `watchlist_results`; the check in flight, back-off | check, grab, search, edit, add, vote |
| WhatsApp bridge | `packages/torrent/src/whatsapp-service.ts` | socket, generation, reconnect timer, ids seen, response poller | start, stop, pair, reconnect, receive, deliver |
| Settings | `packages/core/src/config.ts`, `packages/server/src/routes/settings.ts`, `dashboard/src/app/settings`, `lib/auto-save.ts` | `settings.json`, the page's copy of it, per card a queue of commits | save a field, a text, a section; apply to Transmission |
| Dashboard chat | `dashboard/src/hooks/use-agent-chat.ts` | outbox, transcript, refresh under way | send, retry, rerun, stop, poll, switch |
| Downloads row | `dashboard/src/app/page.tsx`, `hooks/use-queue-drag.ts`, `hooks/use-poof-removal.ts`, `lib/torrent-order.ts` | cards, drag, hidden cards, polls in flight | poll, drag, nudge, remove, clear |
| Search | `packages/torrent/src/search-aggregator.ts` and clients | caches, indexer status | search, merge, rank |
| Subtitles, posters | `subtitle-manager.ts`, `poster-manager.ts` | table `subtitles`, files | search, download, translate |
| Agent workspaces | `packages/core/src/agent.ts`, `memory.ts` | files | provisioning |
| Plugins | `packages/core/src/plugins.ts` | loaded hooks | incoming and outgoing hooks |
| Adapters | `packages/core/src/adapters/` | none | command lines, stream parsing |
| Command line, other views, installers | `packages/cli`, `dashboard`, scripts | PID file | REST calls, process control |

Components meet in four places. *Tables*: a WhatsApp message, a dashboard
message and an automation all become rows of `messages`. *The event bus*
(`emitEvent`): the queue processor announces `agent:response`, `agent:error`,
`agent:cancelled`, `agent:interrupted`, and the automation engine closes its
runs on them; the torrent manager and the watchlist announce what automations
listen for. *Processes*: a chain owns the CLI it spawned, but the registry that
kill uses is indexed by agent. *The page*: a hook of the dashboard keeps its own
view of a table, shows a change before it is made, and polls.

What makes each component correct, and hard:

* **Queue**: nothing taken is forgotten, nothing is completed unanswered, a
  cancelled row stays cancelled, retries run out exactly when they should, the
  user lane goes first, everything settles. Hard because cancel, kill, watchdog,
  crash and shutdown all arrive while a chain is suspended.
* **Automations**: a run's record closes when its message settles, events are
  neither lost nor delivered twice, a stuck run does not silence its rule.
* **Torrents**: the row agrees with Transmission in the end, a removed torrent
  does not come back, "completed" is announced once. Hard because every call to
  Transmission is an `await` and the polling sync works on an old snapshot.
* **WhatsApp**: nothing connects after a stop, a session that dropped is taken up
  again, a command is queued once, a reply is delivered whole. Hard because WhatsApp
  delivers again, shows the bridge its own sends and closes when it likes.
* **Watchlist**: what the user voted down, or removed with a known info hash, is not
  fetched again, no two workers are on one entry, no entry drops out of the checks. Hard because a check works on a copy that ages while
  routes change the same tables.
* **Settings**: no save takes back another's change, what is applied is what is
  stored. Hard because the API replaces whole sections, and answers get lost.
* **Chat**: nothing typed vanishes, no send stays undecided, the screen shows the
  agent it names. Hard because sends, polls and switches overlap.
* **Downloads row**: a removed card stays away, a card lands where it is dropped, the
  row ends up showing the truth. Hard because the page, the sync and other clients
  all write positions.

## 2. Plan

Done, in this order:

1. `MessageRows`, `QueueDaemon`: the queue with everything that disturbs it.
   `MessageLifecycle` is its abstract specification, `DrainLoop` justifies the one
   loop taken as a single step. Proofs in `QueueDaemonProofs`.
2. `Automations`: the engine that turns events and fires into runs, over any queue
   that keeps to `MessageLifecycle`, as `QueueDaemon` is proved to;
   `Schedules`: its croner jobs against a clock. Proofs in `AutomationsProofs` and
   `SchedulesProofs`.
3. `Torrents`: add, pause, resume, verify, remove and the sync against
   Transmission (`TorrentsMC` has the loads of the run). Proofs in `TorrentsProofs`.
4. `WhatsAppLink`: the connection; `WhatsAppBridge`: the messages on it. Proofs in
   `WhatsAppProofs`.
5. `Watchlist`: checks, grabs, votes and removals (`WatchlistMC` has the links of the
   run). Proofs in `WatchlistProofs`.
6. `Settings`: from the page to `settings.json` and Transmission. Proofs in
   `SettingsProofs`.
7. `AgentChat`: the chat hook over the message API. Proofs in `DashboardProofs`.
8. `DownloadsRow`: the cards of the home page, and the queue positions behind them.
   Proofs in `DashboardProofs` too.

To do, in this order:

9. The life of the daemon process: the PID file, the port as a lock, `fonte stop`,
   `start` and `restart`, the API's restart. To check: one daemon at a time opens
   WhatsApp, the PID file names the daemon that runs, startup recovers no row that
   a living daemon works on. The last does not hold as the code is: recovery comes
   before the port is bound, so a second daemon takes back the first one's
   running rows before it finds the port taken and exits.
10. The rest of the torrent manager: file priorities, stall tracking, swap.
11. Search: merging and ranking against a reference definition, caches.
12. Subtitles: the queue of downloads after a completed torrent.

## 3. The queue

### `MessageRows`

A row is its status and its two counters. Every guarded `UPDATE` of `queues.ts`
is an operator from the row it finds to the row it leaves; a `WHERE` clause that
does not match leaves the row alone, as in SQLite. `Row`'s `new` stands for a row
not inserted yet, `gone` for a deleted one. Text, channel, sender and timestamps
are left out: no guard looks at them (claim order by `created_at` is the order of
`Msgs`).

### `QueueDaemon`

One action is one segment between two awaits.

| Action | Code |
|---|---|
| `EnqueueMessage` | `POST /api/message`, enqueue, and the `processQueue` it triggers |
| `Poll`, `Prune`, `Watchdog` | the interval callbacks of `index.ts` |
| `SpawnCli`, `LaunchFails` | from the incoming hooks to `invokeAgent`'s await |
| `Settle` | the CLI closed: look at the row again, drop, dead-letter or go on |
| `Deliver` | the outgoing hooks returned: insert the response |
| `Throw` | `processMessage` rejects |
| `Finish`, `FailTurn` | complete or fail the row, then claim the next one |
| `WindDown` | the chain's `finally` |
| `CancelMessage`, `KillMessage`, `RetryDeadMessage`, `DeleteDeadMessage` | the REST handlers |
| `Crash`, `Restart`, `Shutdown`, `Exit`, `OrphanEnds` | the process |

`pc` says where the chain of a key is suspended, `cur` which row it holds. `stale`
is the kill epoch reduced to what the code asks of it: has it moved since the
chain started. `mail` (key, lane, routed agent) is chosen in `Init` and never
changes; the key of a row without an agent is a key of its own, as `COALESCE(agent,
'default')` makes it. `cli`, `active` and `orphans` are the processes: `active` is
`activeProcesses`, indexed by agent, while kill looks up the row's key.

Two pieces of code are taken as one step although they are loops: `StartChains`
(the `for` over agents, with no await between two of them) and the drain of a
killed chain (claim, see the epoch, fail, again). The second is `Drain`; `DrainLoop`
is the loop, one claim at a time, and it is proved that from any table it can end
only in the table `Drain` gives.

A crash can hit between two segments, or between the claim and the mark of a
row: that is the only way a `queued` row becomes visible, and recovery handles it.

Abstractions: which waiting row has waited 45 seconds is left open (`Watchdog`
may pause any background run with a user row behind it); a row settled for a
day is one no chain holds any more (`Prune`); the 30-second grace timer of the
registry is left out, as it only ends a process whose run has been answered;
handlers run only while the daemon is up; a CLI killed by a shutdown is assumed
to exit.

### What the runs show

`queue_safety` (`QueueSafety.cfg`): two messages, keys `fonte` and `default`, one
agent, two retries, two recoveries, each of five sets of disturbances. Two
messages are enough for one to be ahead of the other, to share a key or not, and
for a user row behind a background run; two retries and two recoveries give each
counter a middle and an end. All eight disturbances at once make a state space
four times as large with no new behaviour of a pair (it was run by hand); the five
sets cover every pair that meets in the code.

* `InFlightOwned`: while the daemon runs, a row marked processing is the row a
  live chain of its key works on. Recovery runs at startup only, so a row that
  slipped out would be lost until the next restart.
* `ChainHoldsRow`: a chain keeps its row to itself while suspended.
* `PendingHasRetries`: a row that waits or runs has a retry left, whatever failed,
  was killed, recovered or retried by hand before.
* `CompletedAnswered`: a row is completed only if this run was answered; the
  result of a run that was cancelled, paused or killed is dropped.
* `CancelIsTerminal`: nothing revives a cancelled row.
* `UserLaneFirst`: when a background row starts, no user row of its agent waits.
* `AnsweredOnce`: without kill, pause, retry by hand, crash or restart, a row never
  waits to run again after its response was enqueued. A retry has to be excluded: a
  run that fails is dead-lettered before its error text is delivered, and retried
  while the outgoing hooks are awaited it waits to run again with that text enqueued.
* `SettledIsAnnounced`: without kill or crash, a settled row had its closing event.
* `LifecycleSpec`: the daemon implements `MessageLifecycle`: a message goes through its
  life by the paths given there, and its end is announced unless something rough may
  happen. It allows a queue to fail more than it should and to announce an end twice.

`queue_live` (`QueueLive.cfg`): under `LiveSpec` every message is settled in the end,
once the daemon stays up, whatever was cancelled, killed or paused before. Fairness: the
event loop runs continuations, the poll and the watchdog; whoever supervises the
daemon restarts it; and a CLI ends some day, which is an assumption about the
provider, as nothing in the daemon bounds a run. People, crashes and shutdowns are
not fair. The run leaves retries out: a message that is killed and retried for ever
keeps its place ahead of those that came after it.

`cancel_race` finds what the code does otherwise than its comment says: the status
is checked before the outgoing hooks are awaited, and the answer is inserted after
them; a cancel in between is accepted and the answer is delivered.

More behaviours of the model are worth knowing, and no run is about them:

* After a kill the chain claims and fails its own next rows, the killed one
  included, until they are dead: one kill uses up every retry of every waiting row
  of the agent (`LoopDrains` says that the loop ends so).
* `failMessage` returns "dead" for a cancelled row whose count is used up, without
  touching it, and the loop announces an error for a message that was cancelled.
* A row without an agent runs as `fonte` beside `fonte`'s own chain; a kill looks up
  the key of the row and not the agent it runs as, and of a row that only waits it
  kills the process of whichever row runs.
* The watchdog pauses a run whose CLI is not registered yet; nothing is killed, and
  the user's message waits for the run it was to overtake.
* A crash after the response is enqueued and before the row is completed has the
  message run and answered again.
* A run whose error text cannot be delivered is failed after it was dead-lettered,
  and is pending again.
* A graceful shutdown kills the CLIs registered at that moment; a chain in its
  hooks goes on and may spawn one that outlives the daemon.

Deadlock is not checked (`CHECK_DEADLOCK FALSE`): a finite set of messages settles
and the queue then really has nothing left to do.

### What is proved

`QueueDaemonProofs` proves, for any set of messages, keys and agents, any retry and
recovery limits (`RowAssumption`: positive naturals) and any disturbances:

* `QueueInvariant`: `Spec => []QueueInv`, and from it `TypeCorrect`,
  `NothingForgotten` (`InFlightOwned`), `OneHolder` (`ChainHoldsRow`), `RetriesLeft`
  (`PendingHasRetries`) and `CompletedMeansAnswered` (`CompletedAnswered`);
* `OneAnswer` (`AnsweredOnce`) and `EndsAreTold` (`SettledIsAnnounced`), each with an
  invariant of its own on top of `QueueInv`;
* `PersonFirst` (`UserLaneFirst`) and `CancelTerminal` (`CancelIsTerminal`), which are
  about steps;
* `ImplementsLifecycle`: `Spec => LifecycleSpec`.

No part of `QueueInv` is inductive alone. That a completed row was answered needs
that a chain about to complete a row still in processing has answered it
(`DoneAnswered`); that the retry count stays in range needs a bound on held rows
(`HeldRetries`), since a dead row may be failed once more by the run still
unwinding; that a restart's orphans are agents needs that a live CLI belongs to a
chain that waits for it (`RegisteredRuns`).

The argument has three layers. `RowTypes`, `MildStatements` and `StatementsOnward`
say what single statements do to a row. `StartChainsInv` and `NextTurnInv` say
that taking a turn on a table whose holder has let go restores the invariant;
`LetGo` says that settling a row lets it go. The steps are then the three kinds
of action: those that only take rows back (`MildStep`), those that move a chain
between awaits (`PhaseStep`), and those that take turns (`StartChainsStep`, `Finish`,
`FailTurn`). For the refinement, `Onward` compares the row before a whole step
with the row after it, since a step may settle a row and take it again.

`AnsweredOnce` says that a row which waits is unanswered; that needs the same of every
row a chain holds, but for one that is about to complete it (`Unanswered`), and that a
row a chain holds is not pending, or another turn could take it. `SettledIsAnnounced`
needs that no chain drains its queue (`stale` is what a kill leaves behind), and that
whoever is about to complete a row has had its end announced (`Told`). Both are stated
of the table in the middle of a step too (`StartUnanswered`, `StartTold`), since a step
may settle a row and take the next one. `UserLaneFirst` needs no invariant but the
types: what a turn takes is the first row of the lane it looks at first.

`LoopDrains` holds of `DrainLoop` for any set of rows and any retry limit: `Drain` of
the rows now is an invariant of the loop (`Owed`), as each turn (`TurnCounts`)
takes a row one failure nearer to what `Drain` says of it.

Only model-checked: liveness (`EventuallySettled`).

## 4. Automations

### State and actions

A fire writes a row into `automation_runs`, then enqueues a message whose id the
row keeps; events of the bus close the row. `Automations` has one run for each
fire: `record` is the row's status, `carries` the events its prompt was built
from, `stage` and `closed` its message.

| Action | Code |
|---|---|
| `EmitEvent` | `onBusEvent`, `evaluateEvent`, `enqueueEvent`: every listening rule gets the event, the oldest is dropped at the limit |
| `FlushBatch` | the flush timer: cut a batch, fire, schedule again if events are left |
| `ScheduleTick`, `RunNow` | `fireById` from a croner job, the trigger route |
| `ToggleRule`, `DeleteRule` | the rule routes |
| `QueueStep` | any step of the queue, and `onBusEvent` with `closeRun` on each end it announces |
| `Crash`, `Restart` | the process: batches and timers are lost, rows and messages are not |

The queue in this module is `MessageLifecycle` itself: `QueueStep` takes any step
`MessageLifecycle` allows but the arrival of a message, which only a fire brings about.
`QueueDaemonProofs` proves that the daemon makes no other steps (`ImplementsLifecycle`), so
whatever the daemon does is among the steps the engine is checked beside, and what
holds of the engine here holds beside the daemon. The abstract queue may also do what
the daemon does not, such as announce an end twice, or announce one that is none; the
engine's properties hold all the same. Taken on trust is how the announced event
follows from the step: any of the three, for any end. The abstract queue ends a
message unannounced only in behaviours that may kill or crash (`rough`).

Abstractions: a rule has an agent of its own and listens to events as well as to
a schedule; the flush is one step, as the code awaits nothing in it; prompt
wording, trigger parsing and description, the legacy import and the consecutive
failure counter are left out; one-time rules switching themselves off is in
`Schedules`.

### Runs

`automations`: one rule, two fires, four events, a history of one row, batches of
one event and a backlog of two, in three sets of disturbances (edits; kills;
crashes). Two fires are enough for one to find the
other in progress and to evict it; four events fill the backlog, drop one, and
cut it into several wakes. Rules do not share state other than the bus, so one
rule is enough.

* `TimerArmed`: no event waits in a batch without a flush to come.
* `WakesInOrder`: over drops, cuts and flushes an event wakes a rule once at most
  and wakes tell events in order.
* `RunningMeansInFlight`: a row that is running has a message that may still
  settle, for all the orders in which pauses, retries, cancels and answers come and
  are announced.
* `RunsClose`: every run is closed, or evicted, in the end. Fairness: timers fire,
  the supervisor restarts the daemon, and a message in flight settles in the end
  (`QueueSettles`), which is `EventuallySettled` of the queue. Kills and
  crashes are excluded, and have to be: a kill announces nothing, and a crash may
  come between the run's row and its message, so the row stays `running` and every
  later fire of the rule is skipped as "Previous run still in progress".

### What is proved

`AutomationsProofs` proves, for any rules, fires, events, limits and disturbances, from
`EngineAssumption`: `AlwaysFlushed` (`TimerArmed`), `TellsInOrder` (`WakesInOrder`) and
`RunsHaveMessages` (`RunningMeansInFlight`), beside every queue that keeps to
`MessageLifecycle`.

The invariant is `EngineInv`. `BatchInv` has the order of wakes: backlogs and wakes rise
(`Rising`), and what a wake carries came before all that still waits (`Before`); so the
next wake cut from the backlog is after all wakes before it, wherever it is cut, and
whatever was dropped at the other end (`StretchRises`). `FlightInv` has the runs:
without kill and crash the daemon is up, and a running row's message waits or runs. A
step of the queue that ends a message closes its run, so a row which is still
running has a message whose end was not announced: `MessageInv`.
`Unborn` says that none of this has begun for a fire still to come.

`RunsClose` is liveness and model-checked only.

### `Schedules`

The clock is a number of instants. A trigger is a group of up to `MaxMembers` members:
one-time members, each with its instant, and cron members, each with a slot
(`Slots`) and the instants it names; an event member is a slot without instants.
`job` is the table of croner jobs, one for each member that has something to come;
`Reload` is the function that stops all of them and makes them again (`JobsOf`), which
any change of any rule calls. `RunJob` is a job's callback, possibly late (`Tick` may
pass a job by: the machine slept); `Remaining` is what croner keeps after it, the
member's own next instant. A rule that is one one-time member switches itself off when
it fires, which is a change of a rule. `busy` stands for a run in progress: the fire
is then skipped and the rule stays on. `woken` counts the callbacks of each job, the
skipped ones included.

`schedules`: two rules with every pair of triggers of one or two members over two
instants, one edit at any moment, or crashes. Two rules are needed for the change of
one to reload the jobs of the other; two members are two cron members, two
one-time ones or one of each; two instants give a past, a present and a future.

* `JobsAreScheduled`: no job of a schedule or a rule that is no more.
* `NoWakeTwice`: however often the table is made again, no member wakes its rule twice
  for one instant. Two members that share an instant each wake the rule, as each has
  a job of its own; the second is skipped only while the run of the first is open.
* `CronArmed`: every cron member of a rule that is on waits for its next instant.
* `OnceKeptSinceReload`: a one-time wake that has come due since the last reload is
  armed or has happened.

`OnceKeptSinceReload` says "since the last reload" because a reload does lose a
one-time wake, without any edit or crash: the first of two one-time rules for one
instant stops the job of the second when it switches itself off, and the second
never fires, although it is still described as "Once on ...".

`SchedulesProofs` proves `TypeOK` (with one job at most for a cron member),
`JobsAreScheduled`, `NoWakeTwice` and `OnceKeptSinceReload` for any rules, slots, clock
and scenarios, from `ScheduleAssumption`. The inductive invariant `IInv` adds `JobsAreFresh` (no armed job has woken its rule
yet), without which `NoWakeTwice` is not inductive, and
`OnceArmed`, the form of `OnceKeptSinceReload` that a step preserves. `AlwaysArmed`
(`CronArmed`) rests on what croner keeps after a callback: the earliest instant that is
left, which exists because instants are naturals (`EarliestInstant`).

## 5. Torrents

### State and actions

`row` is table `torrents`: status, hash, whether progress is complete (`done`) and
whether `completed_at` is set (`stamped`). `tids` is `transmissionIds`. `tr` is what
Transmission holds; `issued` remembers which torrent an id was given to, so that
a property can say whose it is. `op` is the request each client of the API is
suspended in, with what it read before its call; `sync` the walks in progress,
each with its snapshot and the torrents still to visit.

| Action | Code |
|---|---|
| `AddTorrent`, `AddAnswered`, `AddFailed` | `addTorrent` to its `torrent-add`, after its answer, and in its `catch` |
| `Request`, `RequestAnswered`, `RequestFailed` | `pauseTorrent`, `resumeTorrent`, `verifyTorrent`, `removeTorrent` (with and without files) to the call, after it, and when it throws |
| `Lookup` | the `torrent-get` by hash of `resumeTorrent` |
| `SyncStats`, `SyncTorrent`, `Reconcile` | one pass of `syncStats`: the snapshot, one torrent up to the await of its files, the reconciliation |
| `Restart` | the daemon stops and starts; `buildTransmissionIdMap` |
| `Serve`, `Move` | external: Transmission carries out a call, makes progress, or is changed by another client |

`setInterval` does not wait for a sync that is under way, so several may walk the
table at once. A call may be refused, carried out, or carried out without its
answer coming in time: `AddFailed` and `RequestFailed` are possible before and
after `Serve`. The single retry of `TransmissionRpc.call` repeats a call, which for
these calls has the effect of making it once. That a call is carried out only
after the daemon gave up on it is not modelled, nor is a restart of Transmission,
which numbers its torrents anew.

Abstractions: progress is done or not; `downloading` stands for `queued` too, as
the code treats the two alike; a failed sync changes nothing; speeds, names,
files, posters, stall tracking, queue positions and priorities are left out, and
so is what a removal tells the watchlist. A snapshot taken before an await and
used after it covers both the walk's awaits of files and the one in which
settings are applied again. Row ids and torrents nobody used yet are alike, and
the model takes any one of them (`NextId`, `NextHash`).

### Runs

`torrents`: two rows and four loads, which `TorrentsMC` lists: one torrent, one request
and one sync at a time, with three requests and two changes from outside; two torrents
and two requests at a time beside a sync; two syncs at a time, of one torrent or of
two. A change from outside is progress, another client's or a restart. Two rows are
enough for a duplicate; two requests for an add followed or overlapped by any
request, three for a torrent that is finished, paused and paused again; two syncs
for an old snapshot to write after a newer one.

* `OneRowPerHash`: the check before `torrent-add` and the one after it keep
  `info_hash` unique, when one add knows its hash and the other does not.
* `OwnTorrent`: the map, and the id a suspended request took from it, name the
  row's own torrent.
* `AnnouncedOnce`: while syncs do not overlap, a completion is announced once, but for
  each time the torrent became unfinished in Transmission (`regressed`), and for each
  pause that had read the row before its last announcement (`overtaken`).
* `RemovedStaysRemoved`: a sync never brings a removed row back, however old its
  snapshot.
* `EventuallyMirrored`: when users and other clients have stopped, the table settles
  on what Transmission holds, whatever was written before. Fairness: the interval
  timer fires, promises settle (every call has a timeout), and a sync is answered
  in the end. Nothing is assumed of users and other clients; the bounds
  `MaxRequests` and `MaxMoves` make them stop.

`EventuallyMirrored` is about rows the table holds. `addTorrent` explains that a
reconciliation landing during its await can strand the download, and pulls its
row out of `removed`. The reconciliation can also land after the add has finished,
when its sync took its snapshot before and was suspended meanwhile; then nothing
pulls the row out, and the download is stranded.

A comment of `syncStats` says "Fire completion once per torrent". Taken alone the check
beside it does not do that. A pause reads the row, is suspended at its call to
Transmission, the sync announces the completion, and the pause, which has seen an
unstamped row, announces it again. This came out of the attempt to prove
`AnnouncedOnce` of one request and one sync, with a load the run did not have at the
time: the invariant that was needed was false. Hence `overtaken`. Two syncs that overlap
may each announce it, too.

### What is proved

`TorrentsProofs` proves `TypeOK`, `OneRowPerHash`, `OwnTorrent`, `AnnouncedOnce` (as
`OneAnnouncement`) and `RemovedStaysRemoved`, for any torrents, rows, loads and syncs in
progress, from `TorrentAssumption` (row ids are no hashes, there is a row id, a load
says who takes part and how often).

`OwnTorrent` is not inductive: that the id in the map is the row's torrent's needs
the same of what Transmission holds and of every snapshot (`HeldInv`), and that a
row's hash does not change under a request that is suspended (`OpInv`). The hash
does change, once, when the answer of an add arrives. The argument turns on this
step (`AddAnsweredStep`): until then the row has a hash of its own, which is no
torrent's, so no request on it can hold an id (`HashInv`, `OpOk`), and no other row can
have the torrent's hash afterwards, as it was just looked for. All other steps
keep the hash of every row (`RowsKept`), for which the lemmas `RowsStay`, `MapStays`,
`OpsStay` and `HeldStays` say once and for all that the invariant stays.

For `AnnouncedOnce`, `AnnounceInv` keeps an account of each row. A row that is stamped has
used up its announcement, and if it has no other due, everybody who could find the
torrent unfinished and so open the account again has a reason to: Transmission says
so, or a snapshot from before (`StampedOk`). A row that is not stamped has one
announcement left, and whoever remembers its torrent as finished, the row itself, a
suspended pause or a snapshot, is right (`UnstampedOk`). `Aged` is what ties snapshots to
`regressed`: a snapshot that remembers as finished what is so no longer has missed a
regress. `Seen` bounds what suspended requests remember.

Only model-checked: `EventuallyMirrored`.

## 6. WhatsApp

The service is two things that meet only in "there is an open socket": how the
connection comes and goes, and what passes over it. Each has a module.

### `WhatsAppLink`: state and actions

`sock` is `this.sock` with the credentials it was opened with, `auth` what is on
disk (0 is "no account", other numbers tell one link of the device from the next),
`generation` the count of stops by which an attempt knows it has been overtaken.
A generation has one connect attempt at most (`attempt`), as a second caller shares
the first one's promise. `rearms` is the `catch` of the reconnect timer, which tries
again where a `start` of the user's does not.

| Action | Code |
|---|---|
| `Start`, `RequestPairing`, `PairingEnds` | `start`, `requestPairingCode` and its wait |
| `CredsLoaded`, `VersionFetched`, `AttemptFails` | `connect` after each of its awaits |
| `TimerFires` | the callback of `scheduleReconnect` |
| `Qr`, `Paired`, `Open`, `Close` | `connection.update` and `creds.update` of the current socket; `Close` by the code WhatsApp gives |
| `Stop`, `LoggedOut` | `stop` to its await, and after the logout is answered |
| `Crash` | the daemon starts anew; what is on disk stays |

Time is not modelled: an armed timer may fire, so the length of a back-off makes no
difference. Wiping the credentials may fail. Events of a socket that is not the
current one are ignored by the code's own check and are left out with it.

`whatsapp_link`: two stops (`MaxGeneration`) and two links of the device (`MaxCreds`).
Two stops put an attempt of the past beside an attempt of the present and leave
room for another; after a second link the credentials of the first are old ones.

* `StaysStopped`: after a stop and until somebody asks for a start there is no
  socket, no timer and no poller, whichever attempt was loading credentials.
* `NotAbandoned`: a linked session that was cut off has a socket, an attempt or a
  timer, whatever failed since.

The model shows two sockets at one time around a logout: `stop` gives the socket up
before it waits for the logout, and a start in between opens another one.

`WhatsAppProofs` proves both for any bounds, from `LinkAssumption` and
`NoSocketAssumption`. `NotAbandoned` is not inductive: that an attempt which fails
leaves a timer behind needs that the attempt was the timer's (`Reconnecting`), and
`StaysStopped` that no generation after the current one has begun (`FutureIdle`) and
that the one a stop has begun is idle until a start (`StopIdle`).

### `WhatsAppBridge`: state and actions

`handler` holds the events of `messages.upsert` in progress: the handler awaits the
download of a message's media, and WhatsApp may bring another event meanwhile.
`poll` holds the polls of the response queue in progress; the interval does not wait
for the poll before it. `seen` is `seenIds`, `old` what `bootTime` makes history.

| Action | Code |
|---|---|
| `Deliver`, `Handle`, `Downloaded` | the event, `handleIncoming` to its download, and after it |
| `Forget` | `SEEN_TTL` of `seenIds` |
| `PollStarts`, `Send`, `SendOk`, `SendFails` | one poll: the rows it found, and for each its files and its text |
| `SocketUp`, `Cut`, `StopBridge`, `Restart` | the socket and the daemon; `StopBridge` clears `seenIds`, `Restart` moves `bootTime` |
| `Write`, `Answer` | external: somebody writes; the queue has a response |

`whatsapp_bridge`: a picture with a caption that may be delivered any number of times,
a reply of two parts, two events and two polls in progress, one cut, stop or
restart, one forgotten id. Two of each is what it takes for one to overtake the
other; a reply of two parts is the least that can be cut in between. Each message
has its own ids, so a second message would add no new case.

* `CommandOnce`: a message becomes a command once, and one of the bridge's own sends
  never, but for each time its id was forgotten.
* `Delivered`: every reply is delivered, all of it, and acknowledged. Fairness: the
  interval fires, calls end, the socket is connected again after a cut, and a send
  that is tried again and again works some time (`SF`). The last two are
  assumptions about WhatsApp, and the first half of the third is what
  `NotAbandoned` is for.

Assumed: a send that failed does not come back as an echo; `stop` is one step here.
The model shows that a reply is sent twice when two polls overlap or a restart comes
between its parts, and that a message whose media cannot be downloaded and that has
no caption is lost; no source promises otherwise.

`WhatsAppProofs` proves `OneCommand` (`CommandOnce`) for any messages, replies, events and
polls in progress, from `BridgeAssumption`. The invariant is an account (`Accounted`): the
commands an id has become, the downloads of it in progress, and one more if it
would still be taken, are together no more than it is allowed. So two events with
one message do not both get past `seenIds` although each waits for its download: the
mark comes before the wait. That the account starts right needs that no event holds an
id WhatsApp does not know yet (`Known`). `Delivered` is liveness and model-checked only.

## 7. Watchlist

`snap` is the copy of the entries `runWatchlistCheck` makes at its start, `worker` its
workers, `torrent` the torrents table by info hash. A find is known by its link. A
magnet (`Hashed`) carries the info hash; what an indexer's link leads to (`Leads`) shows
only once it is followed, and its result has no info hash. How finds are ranked is
left open: any that passes the gate may be taken, stored or not, since 50 finds are
stored (`Limit`) and all are ranked; which of them are stored is open as well.

| Action | Code |
|---|---|
| `Tick`, `CheckNow` | the runner's tick, the check route; a check in flight is joined |
| `TakeEntry`, `SearchFails`, `SearchFinds` | a worker takes an entry; its search ends, and nothing is added |
| `Grab`, `Resolved`, `Grabbed` | `persistAndGrab` to the first await of `addTorrent`; the indexer's link has been followed, past the duplicate check; `addTorrent` has ended |
| `Create`, `EditQuery`, `Edit`, `Delete`, `Search`, `Vote` | the routes, to their awaits |
| `Add`, `AddResolved`, `Added` | an addition by hand, with the same three parts |
| `SearchEnds` | a search that a route has started |
| `Remove` | a torrent is removed: `blockResultsByInfoHash` |
| `RetryDue` | the back-off of an entry is over |

`watchlist` (`WatchlistMC`): an entry and one still to be made, a magnet and an
indexer's link that lead to one torrent, a search that stores one find of two, two
workers, two things the user does and one search of a route. Two entries let a
check go on with one while a route changes the other; two links are what a torrent
needs to be found again under another one; a limit below the number of finds
leaves one without a row; two acts are a vote or a removal, and what might undo it.

* `NoDoubleGrab`: "A check requested while one is running joins it; the startup run and
  a manual one otherwise grab the same release twice" (`watchlist-runner.ts:81`): no two
  workers are on one entry.
* `NeverComesBack`: "Downvoted and removal-blocked releases are the exception: those never
  come back" (`watchlist-runner.ts:220`). No check adds a find the user has voted down, or
  whose torrent was removed while its result held the info hash, nor another magnet
  of that torrent, however often it is found again, whatever an edit has cleared
  since, from whatever copy.
* `KeepsLooking`: an entry that is watched is taken up by a check, or stops being
  watched. Fairness: ticks come, searches and additions end, back-offs end.

What `NeverComesBack` does not say, because the code does not keep it: a removal blocks
the results with the torrent's info hash and no others (`watchlist-db.ts:240-244`).
A release that was added from an indexer's link, or was not among the stored finds,
is found again and comes back after it was removed.

`NoDoubleGrab` is about the checks. The model also shows a release added for an entry
that an addition by hand has just fulfilled, and a second copy for a bounded watch (the
copy of the entries predates its fulfilment); and finds of a query that has been edited
since being kept and added: nobody looks at the entry again after the search.

`WatchlistProofs` proves `BannedStaysOut` (`NeverComesBack`) and `OneWorkerEach`
(`NoDoubleGrab`) for any entries, finds, torrents, limit and workers. The invariant of
the first is that what is banned has a result the gate turns away (`BannedTurned`): a
result that carries a vote or a block outlives every insert (`InsertedKeeps`) and
every clearing (`ClearedKeeps`), so the gate, which reads the table of now, finds it
(`GateHolds`). The second needs that workers are at work only while a check is in
flight, so that a new one begins with all of them idle. `KeepsLooking` is
model-checked only.

## 8. Settings

The page keeps the settings as it last saw them (`page`), a card its commits in a
queue (`queue`) and shows what is not saved yet (`pending`). A save sends the whole
section, composed from `page` with one field changed; the API replaces the
section in the file. `base` and `text` are the raw editor. `config` is the torrent
manager's own copy of its section, which it changes and applies to Transmission
before the route saves it. Then the file may fail to be written (`Persist`): the
route answers with an error and the manager keeps the value. `unsaved` remembers
the fields for which that has happened.

| Action | Code |
|---|---|
| `Commit`, `Save`, `Saved` | a field is changed, its turn comes, its answer arrives |
| `Handle`, `Refuse`, `LoseAnswer` | `PUT /api/settings`; the request or its answer fails |
| `EditText`, `SaveText`, `TextSaved` | the raw editor: `rawJsonPatch`, `restoreSecrets` |
| `Route`, `Refreshed` | routes that change settings by themselves, and `refreshSettings` |
| `UpdateConfig`, `RefuseConfig`, `ConfigApplied`, `ConfigFails`, `Asked`, `LoseConfig`, `TorrentSaved` | the torrent card, its route and `updateConfig` with its roll-back |
| `Restart` | the daemon dies; the manager reads the file again |

`settings`: two sections with a card, one without, two fields of which one is a
secret, two values, three changes, in four loads: one card alone through restarts,
the torrent card through restarts, the raw editor beside a card, and beside the
routes. Three changes are two that queue up and one that disturbs them; two fields
are one that is saved and one that might be taken back.

* `ConfigSaved`: but for the fields whose write has failed, what the manager works with
  is what is saved, whether Transmission takes the values, refuses them or is down,
  and whatever dies in between.
* `SiblingsKept`: with one card in use no save takes another field back.
* `UnrelatedKept`: a save of the raw editor changes no section that was not edited in
  it, however old its text.
* `SavesEnd`: no field is saving for ever. Fairness: the page and the daemon run, every
  request is answered or fails.

`FreshSections`, in the module, says the same as `SiblingsKept` of several cards at once,
and does not hold: answers of two cards arrive in another order than they were
handled, `page` goes back in time, and the next save of the section takes a saved
field back. (Set `Cards` to include a second card that is not the torrent card and
`Loads` to the set of those two.) The model shows three things that no property is
about: text typed while a text is being saved is lost; a save whose answer is
lost counts as failed, so that the next save of the card takes the value back; and
when `settings.json` cannot be written, a torrent setting is reported as not saved
while the manager and Transmission go on with it until the daemon restarts or the
field is saved again. That the mask of a secret is never saved as its value is not
checked: `UnrelatedKept` is about the sections that were not edited.

The module has one page. With several clients, `updateConfig` would restore the
settings it read before its await also over a concurrent update that succeeded
meanwhile. What Transmission itself holds is not in the model: the sync clears
`reapplyConfig` before it applies the settings, so values are not sent again when
that fails.

`SettingsProofs` proves `ConfigKept`, `UnrelatedStay` and `SiblingsStay` for any sections,
cards, fields, values and loads. All three rest on `Turns`: what is being saved is
the first commit of its card. `ConfigInv` says what the manager may hold while it
asks Transmission, and in which fields (`Agree`), `EditorInv` that what was not touched is as it was loaded,
`AloneInv` that with one card at work the page has what that card was told, and so
composes every section from it. `SavesEnd` is model-checked only.

## 9. Dashboard chat

`outbox` is the hook's list of messages that are not in the transcript yet, `rows` the
transcript, `procs` what the queue is said to run. `refresh` is the refresh under way:
its two calls are answered at different moments, for the agent it was asked of, and
the transcript is served with its newest `Limit` rows. `step` says where `deliver` of a
message is: cancelling the run it replaces, truncating the transcript, posting.
`status` is the queue behind the API as far as a chat can tell, `said` and `replies` the
rows of the transcript that are a message's text and what its runs said.

| Action | Code |
|---|---|
| `Poll`, `ServeRows`, `ServeProcs`, `Refreshed`, `RefreshFails` | `refresh` with its two calls, and the second one that `dirty` asks for |
| `Send`, `Retry`, `Discard` | the outbox |
| `StopRun`, `Truncate`, `Posted`, `DeliverFails`, `AnswerLost` | `deliver`, and the routes it calls |
| `Cancel`, `RetryRun`, `Switch` | stop, cancelling what waits; a failed run again; another agent |
| `TakeUp`, `Says`, `SaysStopped`, `SaysFailed`, `Completes`, `Breaks` | the queue and the agent: a run begins, says something, ends, is stopped, fails for good, or its message waits again (a failure that is tried again, a pause, recovery) |

`agent_chat`: two agents, two messages, three things the user does or runs that fail,
with switches, or reruns, or cancels and failures; a transcript of which two rows
are served, and runs that say no more once there are two. Two messages are one
that runs and one that waits or replaces it; three acts are two sends and a
retry, a discard or a switch; two rows served are few enough for a text to be
pushed out by replies.

* `NothingVanishes`: what was sent is in the outbox or in the transcript, until it is
  discarded, cut off by an edit, pushed out by newer rows (`PushedOut`), or the user looks
  at another agent.
* `OwnTranscript`: transcript and run on the screen are the shown agent's.
* `SendsSettle`: no send stays pending; it is echoed or fails, or newer rows fill the page
  before it was seen. Fairness: the page polls, calls end, and a refresh that is tried
  again and again works some time. Reruns are excluded, as they may cut off a text
  before it was seen.

The code loses a text of its own in one case, which `NothingVanishes` names (`cutOff`)
and leaves out: an edit that got through, but whose answer was lost, is tried again.
The retry truncates the transcript from the edited row on (`use-agent-chat.ts:249`),
which deletes the row the first try has posted; the second POST is refused as a
duplicate, which counts as delivered (`use-agent-chat.ts:264-266`), and the text is in
neither place. (Take `cutOff` out of `NothingVanishes` and check `agent_chat` to see it.)

Left out: the text of a run while it streams, the quiet reply that replaces what a
run has said, rows that others write into a transcript, which session a rerun forks
from, resets of an agent, and the pruning of messages that were settled a day ago,
or are deleted, after which the queue no longer knows their ids.

`DashboardProofs` proves `ShowsOwn` and `StaysInSight` for any agents, messages and limit.
`StaysInSight` is the hard one, as the two answers of a refresh are of different
moments: `SeenInv` says that an answer on its way which would take a message out of
the outbox, or replace a transcript that has it, has it or is full of newer rows
(`Promised`). This needs that rows belong to one message and are numbered upwards
(`ServerInv`), so that the newest rows that hold a later row of a message hold its text
too or are as many as are served (`Full`), and that answers belong to the agent they
were asked of (`PageInv`). `SendsSettle` is model-checked only.

## 10. Downloads row

`queue` is Transmission's queue, `positions` the positions the daemon has written, `lane`
the cards the page shows, `fetches` the polls in flight. `order`, `held` and `hold` are
the drag; `moves` the moves on their way, `batches` the removals, each with its
animation, deletes and fetch.

| Action | Code |
|---|---|
| `PollRow`, `FetchAll`, `Answer`, `Adopt`, `FetchFails` | `fetchAllUnlessDragging`, `fetchAll` and the route |
| `PickUp`, `Drop`, `CancelDrag` | `use-queue-drag`, and `commitQueueMove` |
| `Nudge` | `nudgeQueue`, by key |
| `Carry`, `ReadPositions`, `WritePositions`, `MoveFails`, `MoveOver` | `moveInQueue` with `syncQueuePositions`, between its awaits |
| `Poof`, `Poofed`, `Delete`, `DeleteFails`, `Deleted` | `poofThenRemove`, of a card or of those that are cleared |
| `TickRead`, `TickWrite` | `syncStats`, for positions |
| `OtherClient` | external: another client moves or removes a torrent |

`downloads`: three torrents, two of them seeding (which a pill shows alone), two things
users do, and in five loads: drags with a torrent that has no position yet; drags and
nudges under a pill; drags beside another client under a pill; removals; removals with
faults under a pill. Three torrents put one between two others, or hide it there; one
poll is in flight beside the fetches that moves and removals make. Torrents stay
downloading or seeding, and a delete is one step, which `Torrents` takes apart.

* `NoFlash`: once its deletion is confirmed a card is gone or still playing its animation,
  whichever older fetch arrives.
* `DropLands`: a card dropped while the page knows Transmission's positions lands right
  behind the card it was dropped behind, or first, whatever is hidden in between.
* `RowSettles`: the row comes to show what Transmission has. Fairness: polls, timers and
  the sync come, calls end, a card that is picked up is put down.

`StaysCorrect`, in the module, drops the assumption of `DropLands`, and does not hold:
after a first drop under a pill the page shows made-up positions, and a second drop
before the first is answered lands elsewhere. The model also shows that the answer of
an earlier move lets polls go on during a second drag; that a nudge under a pill moves
past the hidden neighbour only; that a fetch which fails right after a delete ends
the animation while the old list is shown; that a sync which read the positions
before a move writes them after it, until the next sync; and, outside the model's
states, a paused or completed torrent that another client removes stays in the row,
because the sync keeps it.

`DashboardProofs` proves `NoResurrection` (`NoFlash`) for any cards, removals, fetches and
loads without faults, from `DownloadsAssumption`. The invariant (`RowInv`) follows a
removal through its phases: while the animation plays its cards are `exiting`, then
they are `hidden`, and a hidden card the page still holds is exiting. The danger is the
end of a removal, which takes its cards out of `exiting`: they must not be in `lane` any
more. That they are not is because a fetch which may end a removal is one that was
asked for when its deletions were over, and the removal of a later number has asked for
none (`BatchesInv`); and because `filterHidden` is applied to whatever a fetch brings.

`DropsLand` (`DropLands`) is proved for any torrents, queues and loads. `DropInv` has what it
rests on: no list drops or doubles a torrent (`Once`), whatever is moved, placed or
removed (`MovedOnce`, `PlacedOnce`, `DeleteOnce`), and a move that was sent is the one
computed for the slot from what the page showed (`FromDrop`). `Lands` is the arithmetic of
`queueDropPosition`: taking the card out shifts those behind it, so a card that comes
from before its new neighbour needs that one's position, and a card from behind it
the next. That a row which is picked up shows each card once has to be proved of the
sort, too: an order by position and number exists (`SortedExists`), as the number of
cards before a card tells cards apart.

`RowSettles` is liveness and model-checked only.

## 11. What is not proved, and what is not modelled

Liveness under fairness is checked by TLC only, here and in the other sections: the
provers reason about safety and steps. All other properties of the runs are proved but one:
`CancelledNeverAnswered` does not hold, which its run shows. No module with a theorem
uses a recursive operator. Every module states its types in `TypeOK` (`BridgeTypes`,
`RowTypes` and so on where a proof module extends two modules, which then cannot share
a name); these are proved with the invariants (`QueueDaemon`, `Automations`, `Schedules`,
`Torrents`, `WhatsAppLink`) or were checked by TLC beside the runs, whose properties are
about more than types.

Not modelled, with the reasons:

* *Search*: what a search brings is an input of `Watchlist`. Merging and ranking are
  functions of titles and dates, whose detail is in the strings.
* *Subtitles, posters*: files beside the media, which nothing else reads back.
* *Adapters, logging, installers, views*: formatting, one line or one screen at a
  time, with no state two parties change.
* *Command line*: a client of the REST API. Its control of the daemon's process is
  the next part of the plan.
* *Agent workspaces*: files written when an agent is made.
* *Operations of modelled components*: the routes that enqueue and acknowledge a
  response (`routes/queue.ts:69-101`), which touch the rows of the outgoing queue
  only; stall tracking, file priorities, reannounce, swap and creation of torrents;
  the legacy import and the failure counter of automations; the chat list of
  WhatsApp; adding a link from a search; the validation, locking and backup of
  `settings.json`. Its lock makes each write of the file one step, which `Settings`
  takes for granted.
  `PROJECT.json` lists them under "components".
