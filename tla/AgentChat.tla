------------------------------ MODULE AgentChat ------------------------------
(***************************************************************************)
(* The chat with an agent, as the dashboard keeps it.  What the user sends *)
(* waits in an outbox until the transcript, which is polled, shows it      *)
(* under its message id.  A send may fail, also after it got through, and  *)
(* be tried again under the same id; it may be an edit of an earlier       *)
(* message, which stops the run and truncates the transcript first.  All   *)
(* of this is suspended at calls of the API while polls and other sends go *)
(* on, and while the user switches to another agent.  The queue behind the *)
(* API is that of QueueDaemon, reduced to what a chat can tell.  Left out  *)
(* are the session a rerun forks from, rows that others write into the     *)
(* transcript, the quiet reply that replaces what a run has said, and the  *)
(* removal of messages from the queue (settled for a day, or dead and      *)
(* deleted), after which an id could be taken again.                       *)
(***************************************************************************)
EXTENDS Naturals, FiniteSets

CONSTANTS
  Agents,    \* agents to chat with
  Msgs,      \* messages, numbered as they are sent
  None,      \* sentinel: no message
  Limit,     \* rows of the transcript that are served
  MaxActs,   \* bound: things the user does, and failures of the runs
  MaxRows,   \* bound: a run says nothing more once there are as many rows
  Loads      \* what happens beside sends: "rerun", "switch", "cancel" by the
             \* user, and "failures" of the runs

ASSUME ChatAssumption ==
  /\ Msgs \subseteq Nat /\ Agents # {} /\ None \notin Msgs \cup Agents
  /\ Limit \in Nat \ {0} /\ MaxActs \in Nat /\ MaxRows \in Nat

VARIABLES
  load,
  \* the server
  status,   \* table messages
  said,     \* agent_messages: the row id of a message's text, 0 before
  replies,  \* agent_messages: the row ids of what its runs said
  table,    \* agent_messages: the row ids that are there
  nextRow,
  \* the page
  shown,    \* the agent shown
  rows,     \* serverRows: row ids
  procs,    \* processing: messages waiting and running
  outbox,   \* the phase of each message in the outbox
  refresh,  \* the refresh under way: its agent and what it has been answered
  dirty,    \* dirty.current
  step,     \* how far deliver is with a message
  victim,   \* the run it stops
  \* messages
  to,       \* the agent a message was sent to
  edits,    \* the message it is an edit of
  acts,     \* bound: acts and failures so far
  expected, \* history: messages the user may expect to see
  cutOff    \* history: messages whose own edit, tried again, cut off their text

server == <<status, said, replies, table, nextRow>>
vars == <<load, status, said, replies, table, nextRow, shown, rows, procs, outbox,
          refresh, dirty, step, victim, to, edits, acts, expected, cutOff>>

NoRefresh == [on |-> FALSE, agent |-> CHOOSE a \in Agents : TRUE,
              rows |-> {}, procs |-> [m \in Msgs |-> "none"], due |-> {}]
Quiet == [m \in Msgs |-> "none"]

Init ==
  /\ load \in Loads
  /\ status = Quiet
  /\ said = [m \in Msgs |-> 0] /\ replies = [m \in Msgs |-> {}]
  /\ table = {} /\ nextRow = 1
  /\ shown = CHOOSE a \in Agents : TRUE
  /\ rows = {} /\ procs = Quiet /\ outbox = Quiet
  /\ refresh = NoRefresh /\ dirty = FALSE
  /\ step = [m \in Msgs |-> "idle"] /\ victim = [m \in Msgs |-> None]
  /\ to = [m \in Msgs |-> None] /\ edits = [m \in Msgs |-> None]
  /\ acts = 0
  /\ expected = {} /\ cutOff = {}

-----------------------------------------------------------------------------
(* Refreshing. *)

\* Asked for by the poll, by an event, and after every call.
Ask(a) == refresh' = [NoRefresh EXCEPT !.on = TRUE, !.agent = a, !.due = {"rows", "procs"}]

Refresh(a) ==
  IF refresh.on THEN dirty' = TRUE /\ UNCHANGED refresh
                ELSE dirty' = FALSE /\ Ask(a)

Poll ==
  /\ Refresh(shown)
  /\ UNCHANGED <<load, server, shown, rows, procs, outbox, step, victim, to, edits,
                 acts, expected, cutOff>>

\* The rows of a message id.
RowsFor(m) == {said[m]} \cup replies[m]

RowsOf(a) == {i \in table : \E m \in Msgs : to[m] = a /\ i \in RowsFor(m)}

Since(a, oldest) == {i \in RowsOf(a) : i >= oldest}

\* All the rows of the agent, or the newest ones; those of one millisecond are
\* taken in the order of their ids.
ServeRows ==
  /\ "rows" \in refresh.due
  /\ \E oldest \in RowsOf(refresh.agent) \cup {0} :
       LET newest == Since(refresh.agent, oldest) IN
       /\ Cardinality(newest) = Limit \/ (oldest = 0 /\ Cardinality(newest) < Limit)
       /\ refresh' = [refresh EXCEPT !.rows = newest, !.due = @ \ {"rows"}]
  /\ UNCHANGED <<load, server, shown, rows, procs, outbox, dirty, step, victim, to,
                 edits, acts, expected, cutOff>>

Active == {"waiting", "running"}

ServeProcs ==
  /\ "procs" \in refresh.due
  /\ refresh' = [refresh EXCEPT
       !.procs = [m \in Msgs |-> IF to[m] = refresh.agent /\ status[m] \in Active
                                   THEN status[m] ELSE "none"],
       !.due = @ \ {"procs"}]
  /\ UNCHANGED <<load, server, shown, rows, procs, outbox, dirty, step, victim, to,
                 edits, acts, expected, cutOff>>

\* A row of its message id, whoever said it, takes a message out of the outbox.
Echoed(m) == refresh.rows \cap RowsFor(m) # {}

\* Mutant: the answer is shown whoever is shown.
AlwaysCurrent == TRUE
\* agentRef.current === agentId
Current == shown = refresh.agent

Refreshed ==
  /\ refresh.on /\ refresh.due = {}
  /\ IF Current
       THEN /\ rows' = refresh.rows
            /\ procs' = refresh.procs
            /\ outbox' = [m \in Msgs |-> IF Echoed(m) THEN "none" ELSE outbox[m]]
            /\ IF dirty THEN dirty' = FALSE /\ Ask(refresh.agent)
                        ELSE refresh' = NoRefresh /\ UNCHANGED dirty
       ELSE refresh' = NoRefresh /\ UNCHANGED <<rows, procs, outbox, dirty>>
  /\ UNCHANGED <<load, server, shown, step, victim, to, edits, acts, expected, cutOff>>

\* A failed call ends the refresh; what the other has answered is not used.
RefreshFails ==
  /\ refresh.on /\ refresh.due = {}
  /\ refresh' = NoRefresh
  /\ UNCHANGED <<load, server, shown, rows, procs, outbox, dirty, step, victim, to,
                 edits, acts, expected, cutOff>>

-----------------------------------------------------------------------------
(* Sending. *)

Act == acts < MaxActs /\ acts' = acts + 1

\* The run the page shows, for runRef.
Run ==
  LET those(s) == {m \in Msgs : procs[m] = s}
      first(S) == CHOOSE m \in S : \A n \in S : said[m] <= said[n]
  IN IF those("running") # {} THEN first(those("running"))
     ELSE IF those("waiting") # {} THEN first(those("waiting")) ELSE None

\* editableRowId: the last text of the user's that is shown.
Editable == {m \in Msgs : said[m] # 0 /\ said[m] \in rows
                       /\ \A n \in Msgs : said[n] \in rows => said[n] <= said[m]}

\* deliver, up to its first call.
Deliver(m, edited) ==
  /\ step' = [step EXCEPT ![m] = IF edited = None THEN "post"
                                 ELSE IF Run # None THEN "cancel" ELSE "truncate"]
  /\ victim' = [victim EXCEPT ![m] = IF edited = None THEN None ELSE Run]

Send(m, edited) ==
  /\ Act
  /\ to[m] = None /\ \A n \in Msgs : n < m => to[n] # None
  /\ to' = [to EXCEPT ![m] = shown]
  /\ edits' = [edits EXCEPT ![m] = edited]
  /\ outbox' = [outbox EXCEPT ![m] = "pending"]
  /\ expected' = expected \cup {m}
  /\ Deliver(m, edited)
  /\ UNCHANGED <<load, server, shown, rows, procs, refresh, dirty, cutOff>>

Retry(m) ==
  /\ Act
  /\ outbox[m] = "failed"
  /\ outbox' = [outbox EXCEPT ![m] = "pending"]
  /\ Deliver(m, edits[m])
  /\ UNCHANGED <<load, server, shown, rows, procs, refresh, dirty, to, edits,
                 expected, cutOff>>

Discard(m) ==
  /\ Act
  /\ outbox[m] = "failed"
  /\ outbox' = [outbox EXCEPT ![m] = "none"]
  /\ expected' = expected \ {m}
  /\ UNCHANGED <<load, server, shown, rows, procs, refresh, dirty, step, victim, to,
                 edits, cutOff>>

\* patchOutbound, for a message that may have left the outbox.
Patched(m, phase) == [outbox EXCEPT ![m] = IF @ = "none" THEN "none" ELSE phase]

\* POST .../cancel: a run that is going on is killed, and unwinds.
Cancelled(m) ==
  status' = [status EXCEPT ![m] = IF @ = "running" THEN "unwinding" ELSE "cancelled"]

StopRun(m) ==
  /\ step[m] = "cancel" /\ status[victim[m]] \in Active
  /\ Cancelled(victim[m])
  /\ step' = [step EXCEPT ![m] = "truncate"] /\ victim' = [victim EXCEPT ![m] = None]
  /\ UNCHANGED <<load, said, replies, table, nextRow, shown, rows, procs, outbox,
                 refresh, dirty, to, edits, acts, expected, cutOff>>

\* deleteAgentMessagesFrom.  What was sent after the edited text is cut off with
\* it; where the edit itself got through before, also its own text.
Truncate(m) ==
  /\ step[m] = "truncate"
  /\ LET cut == {i \in RowsOf(to[m]) : i >= said[edits[m]]} IN
     /\ table' = table \ cut
     /\ expected' = {n \in expected : n = m \/ said[n] \notin cut}
     /\ cutOff' = IF said[m] \in cut THEN cutOff \cup {m} ELSE cutOff
  /\ step' = [step EXCEPT ![m] = "post"]
  /\ UNCHANGED <<load, status, said, replies, nextRow, shown, rows, procs, outbox,
                 refresh, dirty, victim, to, edits, acts>>

\* The message id is unique in the queue.
Taken(m) == status[m] # "none"

\* POST /api/message, as the server handles it.
Enqueue(m) ==
  IF Taken(m)
    THEN UNCHANGED server
    ELSE /\ status' = [status EXCEPT ![m] = "waiting"]
         /\ said' = [said EXCEPT ![m] = nextRow]
         /\ table' = table \cup {nextRow}
         /\ nextRow' = nextRow + 1
         /\ UNCHANGED replies

\* Mutant: what was accepted leaves the outbox.
AcceptedGone(m) == [outbox EXCEPT ![m] = "none"]
\* What was accepted waits for its echo.
Accepted(m) == Patched(m, IF Run # None THEN "queued" ELSE "pending")

\* Accepted, or refused as a duplicate, which is the same to the page.
Posted(m) ==
  /\ step[m] = "post"
  /\ Enqueue(m)
  /\ step' = [step EXCEPT ![m] = "idle"]
  /\ outbox' = Accepted(m)
  /\ Refresh(to[m])
  /\ UNCHANGED <<load, shown, rows, procs, victim, to, edits, acts, expected, cutOff>>

\* Mutant: the failure is only logged.
StaysPending(m) == outbox
FailedPhase(m) == Patched(m, "failed")

\* A call is refused or does not get through.
DeliverFails(m) ==
  /\ step[m] # "idle"
  /\ step' = [step EXCEPT ![m] = "idle"] /\ victim' = [victim EXCEPT ![m] = None]
  /\ outbox' = FailedPhase(m)
  /\ UNCHANGED <<load, server, shown, rows, procs, refresh, dirty, to, edits,
                 acts, expected, cutOff>>

\* The message gets through, and its answer does not come back.
AnswerLost(m) ==
  /\ step[m] = "post"
  /\ Enqueue(m)
  /\ step' = [step EXCEPT ![m] = "idle"]
  /\ outbox' = FailedPhase(m)
  /\ UNCHANGED <<load, shown, rows, procs, refresh, dirty, victim, to, edits, acts,
                 expected, cutOff>>

-----------------------------------------------------------------------------
(* What else the user does. *)

\* stop, and cancelQueued; then a refresh.
Cancel(m) ==
  /\ Act
  /\ "cancel" \in load /\ procs[m] # "none" /\ status[m] \in Active
  /\ Cancelled(m)
  /\ Refresh(shown)
  /\ UNCHANGED <<load, said, replies, table, nextRow, shown, rows, procs, outbox, step,
                 victim, to, edits, expected, cutOff>>

\* retryFailed, at the row that says that the run failed; then a refresh.
RetryRun(m) ==
  /\ Act
  /\ "failures" \in load /\ status[m] = "dead" /\ rows \cap replies[m] # {}
  /\ status' = [status EXCEPT ![m] = "waiting"]
  /\ Refresh(shown)
  /\ UNCHANGED <<load, said, replies, table, nextRow, shown, rows, procs, outbox, step,
                 victim, to, edits, expected, cutOff>>

\* The page drops what it has of the agent before.
Switch(a) ==
  /\ Act
  /\ "switch" \in load /\ a # shown
  /\ shown' = a
  /\ rows' = {} /\ procs' = Quiet /\ outbox' = Quiet
  /\ expected' = {}
  /\ UNCHANGED <<load, server, refresh, dirty, step, victim, to, edits, cutOff>>

-----------------------------------------------------------------------------
(* The agents' runs, as the daemon has them. *)

onPage == <<shown, rows, procs, outbox, refresh, dirty, step, victim, to, edits>>

TakeUp(m) ==
  /\ status[m] = "waiting"
  /\ \A n \in Msgs : to[n] = to[m] => status[n] \notin {"running", "unwinding"}
  /\ status' = [status EXCEPT ![m] = "running"]
  /\ UNCHANGED <<load, said, replies, table, nextRow, onPage, acts, expected, cutOff>>

NewRow(m) ==
  /\ replies' = [replies EXCEPT ![m] = @ \cup {nextRow}]
  /\ table' = table \cup {nextRow}
  /\ nextRow' = nextRow + 1

\* A text or a tool call of the run.
Says(m) ==
  /\ status[m] \in {"running", "unwinding"} /\ nextRow <= MaxRows
  /\ NewRow(m)
  /\ UNCHANGED <<load, status, said, onPage, acts, expected, cutOff>>

\* The run says that it was stopped.
SaysStopped(m) ==
  /\ status[m] = "unwinding"
  /\ status' = [status EXCEPT ![m] = "cancelled"]
  /\ NewRow(m)
  /\ UNCHANGED <<load, said, onPage, acts, expected, cutOff>>

\* The run ends; one that was stopped while its answer was on the way, or whose
\* daemon died, says nothing of that.
Completes(m) ==
  /\ status[m] \in {"running", "unwinding"}
  /\ status' = [status EXCEPT ![m] = IF @ = "running" THEN "done" ELSE "cancelled"]
  /\ UNCHANGED <<load, said, replies, table, nextRow, onPage, acts, expected, cutOff>>

\* The run fails for good, and says so.
SaysFailed(m) ==
  /\ Act
  /\ "failures" \in load /\ status[m] = "running"
  /\ status' = [status EXCEPT ![m] = "dead"]
  /\ NewRow(m)
  /\ UNCHANGED <<load, said, onPage, expected, cutOff>>

\* It fails in another way, or the daemon dies: the message waits again, or has
\* been tried too often.
Breaks(m) ==
  /\ Act
  /\ "failures" \in load /\ status[m] = "running"
  /\ \E s \in {"waiting", "dead"} : status' = [status EXCEPT ![m] = s]
  /\ UNCHANGED <<load, said, replies, table, nextRow, onPage, expected, cutOff>>

-----------------------------------------------------------------------------
Next ==
  \/ Poll \/ ServeRows \/ ServeProcs \/ Refreshed \/ RefreshFails
  \/ \E m \in Msgs :
       \/ Send(m, None)
       \/ "rerun" \in load /\ \E n \in Editable : Send(m, n)
       \/ Retry(m) \/ Discard(m)
       \/ StopRun(m) \/ Truncate(m) \/ Posted(m) \/ DeliverFails(m) \/ AnswerLost(m)
       \/ Cancel(m) \/ RetryRun(m)
       \/ TakeUp(m) \/ Says(m) \/ SaysStopped(m) \/ Completes(m)
       \/ SaysFailed(m) \/ Breaks(m)
  \/ \E a \in Agents : Switch(a)

Spec == Init /\ [][Next]_vars

\* The page polls, and every call ends; a refresh that is tried again and again
\* works some time, for the agent that is shown.
Fairness ==
  /\ WF_vars(Poll) /\ WF_vars(ServeRows \/ ServeProcs)
  /\ SF_vars(Refreshed)
  /\ \A m \in Msgs : WF_vars(StopRun(m) \/ Truncate(m) \/ Posted(m) \/ DeliverFails(m))

LiveSpec == Spec /\ Fairness

-----------------------------------------------------------------------------
TypeOK ==
  /\ load \in Loads
  /\ status \in [Msgs -> {"none", "waiting", "running", "unwinding", "done", "dead",
                       "cancelled"}]
  /\ said \in [Msgs -> Nat] /\ replies \in [Msgs -> SUBSET Nat]
  /\ nextRow \in Nat /\ table \subseteq 1..nextRow - 1
  /\ shown \in Agents /\ rows \subseteq 1..nextRow - 1
  /\ procs \in [Msgs -> Active \cup {"none"}]
  /\ outbox \in [Msgs -> {"none", "pending", "queued", "failed"}]
  /\ step \in [Msgs -> {"idle", "cancel", "truncate", "post"}]
  /\ victim \in [Msgs -> Msgs \cup {None}]
  /\ to \in [Msgs -> Agents \cup {None}] /\ edits \in [Msgs -> Msgs \cup {None}]

\* The page is full of rows that are newer than a message's text.
PushedOut(m) ==
  said[m] # 0 /\ Cardinality(rows) = Limit /\ \A i \in rows : said[m] < i

\* What the user has sent does not vanish from the screen: it is in the outbox
\* or in the transcript, through failures, retries, answers that are lost, runs
\* that fail and begin anew, and refreshes whose two answers are of different
\* moments; unless the user discarded it, cut it off by an edit or looks at
\* another agent, or newer rows fill the page.  One loss is the code's own and
\* left out by name: an edit that got through without an answer is tried again,
\* truncates its own text (use-agent-chat.ts:249), and the duplicate counts as
\* delivered.
NothingVanishes ==
  \A m \in expected \ cutOff : outbox[m] # "none" \/ said[m] \in rows \/ PushedOut(m)

\* The transcript and the run on the screen are those of the agent shown, also
\* when the answer of a refresh comes after a switch.
OwnTranscript ==
  \A m \in Msgs : (rows \cap RowsFor(m)) \ {0} # {} \/ procs[m] # "none" => to[m] = shown

\* No send stays undecided: it is echoed or fails, unless its text is cut off by
\* an edit or pushed out by newer rows before it was seen.
SendsSettle ==
  "rerun" \notin load =>
    \A m \in Msgs :
      outbox[m] \in {"pending", "queued"} ~> outbox[m] \in {"none", "failed"} \/ PushedOut(m)
=============================================================================
