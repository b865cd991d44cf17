--------------------------- MODULE DashboardProofs ---------------------------
(***************************************************************************)
(* What holds of the dashboard's chat for any agents and any number of     *)
(* messages: the screen shows the agent it says it shows, and what was     *)
(* sent does not vanish from it.  And of its Downloads row for any cards   *)
(* and any number of polls: no poll brings a removed card back, and a card *)
(* lands where it is dropped.                                              *)
(***************************************************************************)
EXTENDS AgentChat, DownloadsRow, SequenceTheorems, FiniteSetTheorems, TLAPS

Statuses == {"none", "waiting", "running", "unwinding", "done", "dead", "cancelled"}

Steps == {"idle", "cancel", "truncate", "post"}

Refreshes ==
  [on : BOOLEAN, agent : Agents, rows : SUBSET Nat,
   procs : [Msgs -> {"none", "waiting", "running"}], due : SUBSET {"rows", "procs"}]

\* Row ids that have been given out.
Past(S, next) == \A i \in S : i \in Nat /\ i # 0 /\ i < next

\* Rows that no message of another agent has written.
Own(S, a, sd, rp, t) ==
  \A m \in Msgs : \A i \in S : i # 0 /\ i \in {sd[m]} \cup rp[m] => t[m] = a

\* Only what was sent is in the outbox, or on its way.
SentInv ==
  /\ to \in [Msgs -> Agents \cup {None}]
  /\ step \in [Msgs -> Steps]
  /\ outbox \in [Msgs -> {"none", "pending", "queued", "failed"}]
  /\ \A m \in Msgs : outbox[m] # "none" \/ step[m] # "idle" => to[m] # None
  /\ shown \in Agents

\* The server: a row belongs to one message, which was sent, and what a message
\* says comes first.
ServerInv ==
  /\ status \in [Msgs -> Statuses]
  /\ said \in [Msgs -> Nat] /\ replies \in [Msgs -> SUBSET Nat]
  /\ nextRow \in Nat \ {0} /\ Past(table, nextRow)
  /\ \A m \in Msgs : said[m] < nextRow /\ Past(replies[m], nextRow)
  /\ \A m, n \in Msgs : \A i \in Nat :
       i # 0 /\ i \in {said[m]} \cup replies[m] /\ i \in {said[n]} \cup replies[n] => m = n
  /\ \A m \in Msgs : to[m] = None => status[m] = "none" /\ said[m] = 0 /\ replies[m] = {}
  /\ \A m \in Msgs : status[m] # "none" <=> said[m] # 0
  /\ \A m \in Msgs : replies[m] # {} => said[m] # 0

\* The page: what it shows, and what it has been answered, is of one agent.
PageInv ==
  /\ shown \in Agents /\ refresh \in Refreshes
  /\ procs \in [Msgs -> {"none", "waiting", "running"}]
  /\ Past(rows, nextRow) /\ Past(refresh.rows, nextRow)
  /\ Own(rows, shown, said, replies, to)
  /\ Own(refresh.rows, refresh.agent, said, replies, to)
  /\ \A m \in Msgs : procs[m] # "none" => to[m] = shown
  /\ \A m \in Msgs : refresh.procs[m] # "none" => to[m] = refresh.agent

\* A page of rows that are newer than one.
Full(S, row) == Cardinality(S) = Limit /\ \A i \in S : row < i

\* What an answer that is on its way promises of a message that has left the
\* outbox, or that it would take out.
Promised(m) ==
  refresh.on /\ refresh.agent = shown /\ "rows" \notin refresh.due
    /\ (outbox[m] = "none" \/ replies[m] \cap refresh.rows # {})
    => said[m] \in refresh.rows \/ Full(refresh.rows, said[m])

\* The messages whose text is looked for.
Kept == expected \ cutOff

\* Such a message is the shown agent's, its text stays in the table, and an
\* answer that is on its way has it or is full of newer rows.
SeenInv ==
  /\ expected \subseteq Msgs
  /\ \A m \in Kept : to[m] = shown
  /\ \A m \in Kept : said[m] # 0 => said[m] \in table
  /\ \A m \in Kept : Promised(m)
  /\ NothingVanishes

-----------------------------------------------------------------------------
(* What was sent. *)

\* What becomes of the outbox when a send ends keeps what is not there out of it.
LEMMA PatchedOutbox ==
  ASSUME SentInv, NEW n \in Msgs, NEW p \in {"none", "pending", "queued", "failed"},
         outbox' = Patched(n, p)
  PROVE  /\ outbox' \in [Msgs -> {"none", "pending", "queued", "failed"}]
         /\ \A m \in Msgs : outbox'[m] # "none" => outbox[m] # "none"
BY DEF SentInv, Patched

\* A delivery that begins, of a message that was sent.
LEMMA DeliverSent ==
  ASSUME SentInv, NEW n \in Msgs, NEW e, Deliver(n, e),
         outbox' = [outbox EXCEPT ![n] = "pending"], shown' = shown,
         to' \in [Msgs -> Agents \cup {None}], to'[n] # None,
         \A m \in Msgs : m # n => to'[m] = to[m]
  PROVE  SentInv'
<1>1. step' \in [Msgs -> Steps] /\ \A m \in Msgs : m # n => step'[m] = step[m]
  BY DEF Deliver, SentInv, Steps
<1>2. /\ outbox' \in [Msgs -> {"none", "pending", "queued", "failed"}]
      /\ \A m \in Msgs : m # n => outbox'[m] = outbox[m]
  BY DEF SentInv
<1> QED
  BY <1>1, <1>2 DEF SentInv

\* A delivery that goes on or ends.
LEMMA DeliveredSent ==
  ASSUME SentInv, NEW n \in Msgs, NEW p \in {"none", "pending", "queued", "failed"},
         NEW q \in Steps, step[n] # "idle", step' = [step EXCEPT ![n] = q],
         outbox' = outbox \/ outbox' = Patched(n, p), UNCHANGED <<to, shown>>
  PROVE  SentInv'
<1>1. /\ step' \in [Msgs -> Steps]
      /\ \A m \in Msgs : step'[m] # "idle" => step[m] # "idle"
  BY DEF SentInv
<1>2. /\ outbox' \in [Msgs -> {"none", "pending", "queued", "failed"}]
      /\ \A m \in Msgs : outbox'[m] # "none" => outbox[m] # "none"
  BY PatchedOutbox DEF SentInv
<1> QED
  BY <1>1, <1>2 DEF SentInv

\* Every step keeps it.
LEMMA SentStep == SentInv /\ [Next]_vars => SentInv'
<1> SUFFICES ASSUME SentInv, [Next]_vars PROVE SentInv'
  OBVIOUS
<1>1. ASSUME UNCHANGED <<to, step, outbox, shown>> PROVE SentInv'
  BY <1>1 DEF SentInv
<1>2. CASE Poll \/ ServeRows \/ ServeProcs \/ RefreshFails
  BY <1>1, <1>2 DEF Poll, ServeRows, ServeProcs, RefreshFails
<1>3. CASE Refreshed
  <2>1. /\ outbox' \in [Msgs -> {"none", "pending", "queued", "failed"}]
        /\ \A m \in Msgs : outbox'[m] # "none" => outbox[m] # "none"
    BY <1>3 DEF Refreshed, SentInv
  <2> QED
    BY <1>3, <2>1 DEF Refreshed, SentInv
<1>4. ASSUME NEW m \in Msgs, NEW n, Send(m, n) PROVE SentInv'
  <2>1. to' = [to EXCEPT ![m] = shown]
    BY <1>4 DEF Send
  <2>2. /\ to' \in [Msgs -> Agents \cup {None}] /\ to'[m] # None
        /\ \A k \in Msgs : k # m => to'[k] = to[k]
    BY <2>1, ChatAssumption DEF SentInv
  <2> QED
    BY <1>4, <2>2, DeliverSent DEF Send
<1>5. ASSUME NEW m \in Msgs, Retry(m) PROVE SentInv'
  BY <1>5, DeliverSent DEF Retry, SentInv
<1>6. ASSUME NEW m \in Msgs, Discard(m) PROVE SentInv'
  BY <1>6 DEF Discard, SentInv
<1>7. ASSUME NEW m \in Msgs, StopRun(m) \/ Truncate(m) PROVE SentInv'
  <2>1. /\ step[m] # "idle" /\ UNCHANGED <<to, shown, outbox>>
        /\ \E q \in Steps : step' = [step EXCEPT ![m] = q]
    BY <1>7 DEF StopRun, Truncate, Steps
  <2> QED
    BY <2>1, DeliveredSent
<1>8. ASSUME NEW m \in Msgs, Posted(m) \/ AnswerLost(m) \/ DeliverFails(m) PROVE SentInv'
  <2>1. /\ step[m] # "idle" /\ UNCHANGED <<to, shown>>
        /\ step' = [step EXCEPT ![m] = "idle"] /\ "idle" \in Steps
        /\ \E p \in {"none", "pending", "queued", "failed"} : outbox' = Patched(m, p)
    BY <1>8 DEF Posted, AnswerLost, DeliverFails, Accepted, FailedPhase, Steps
  <2> QED
    BY <2>1, DeliveredSent
<1>9. ASSUME NEW m \in Msgs, \/ Cancel(m) \/ RetryRun(m) \/ TakeUp(m) \/ Says(m)
                             \/ SaysStopped(m) \/ SaysFailed(m) \/ Completes(m) \/ Breaks(m)
      PROVE  SentInv'
  BY <1>1, <1>9 DEF Cancel, RetryRun, TakeUp, Says, SaysStopped, SaysFailed, Completes, Breaks,
                    onPage
<1>10. ASSUME NEW a \in Agents, Switch(a) PROVE SentInv'
  BY <1>10 DEF Switch, SentInv, Quiet
<1>11. CASE UNCHANGED vars
  BY <1>1, <1>11 DEF vars
<1> QED
  BY <1>2, <1>3, <1>4, <1>5, <1>6, <1>7, <1>8, <1>9, <1>10, <1>11 DEF Next

-----------------------------------------------------------------------------
(* The server. *)

\* Whatever cancels a message leaves the server in order.
LEMMA CancelledServer ==
  ASSUME ServerInv, NEW n, status[n] \in Active, Cancelled(n),
         UNCHANGED <<said, replies, table, nextRow, to>>
  PROVE  ServerInv'
<1>1. status' \in [Msgs -> Statuses]
  BY DEF Cancelled, ServerInv, Statuses
<1>2. \A m \in Msgs : status[m] = "none" <=> status'[m] = "none"
  BY DEF Cancelled, ServerInv, Active
<1> QED
  BY <1>1, <1>2 DEF ServerInv, Past

\* Enqueueing gives a message that was sent a row of its own.
LEMMA EnqueuedServer ==
  ASSUME ServerInv, NEW n \in Msgs, to[n] # None, Enqueue(n), to' = to
  PROVE  ServerInv'
<1>2. CASE Taken(n)
  BY <1>2 DEF Enqueue, server, ServerInv, Past
<1>3. CASE ~Taken(n)
  <2>1. /\ status' = [status EXCEPT ![n] = "waiting"]
        /\ said' = [said EXCEPT ![n] = nextRow]
        /\ table' = table \cup {nextRow} /\ nextRow' = nextRow + 1 /\ replies' = replies
    BY <1>3 DEF Enqueue
  <2>2. status' \in [Msgs -> Statuses]
    BY <2>1 DEF ServerInv, Statuses
  <2>3. /\ said' \in [Msgs -> Nat] /\ nextRow' \in Nat \ {0} /\ nextRow \in Nat \ {0}
        /\ \A m \in Msgs : said'[m] < nextRow'
    BY <2>1, SMT DEF ServerInv
  <2>8. ASSUME NEW m \in Msgs PROVE Past(replies'[m], nextRow')
    BY <2>1, SMT DEF ServerInv, Past
  <2>9. \A m \in Msgs : said'[m] = IF m = n THEN nextRow ELSE said[m]
    BY <2>1 DEF ServerInv
  <2>10. ASSUME NEW m \in Msgs PROVE nextRow \notin {said[m]} \cup replies[m]
    BY <2>3, SMT DEF ServerInv, Past
  <2>4. Past(table', nextRow')
    BY <2>1, SMT DEF ServerInv, Past
  <2>5. ASSUME NEW m \in Msgs, NEW k \in Msgs, NEW i \in Nat, i # 0,
               i \in {said'[m]} \cup replies'[m], i \in {said'[k]} \cup replies'[k]
        PROVE  m = k
    <3>1. CASE i = nextRow
      BY <2>1, <2>5, <2>9, <2>10, <3>1
    <3>2. CASE i # nextRow
      <4>1. i \in {said[m]} \cup replies[m] /\ i \in {said[k]} \cup replies[k]
        BY <2>1, <2>5, <2>9, <3>2 DEF Taken, ServerInv
      <4> QED
        BY <2>5, <4>1 DEF ServerInv
    <3> QED
      BY <3>1, <3>2
  <2>6. \A m \in Msgs : to'[m] = None => status'[m] = "none" /\ said'[m] = 0 /\ replies'[m] = {}
    BY <2>1 DEF ServerInv
  <2>7. /\ \A m \in Msgs : status'[m] # "none" <=> said'[m] # 0
        /\ \A m \in Msgs : replies'[m] # {} => said'[m] # 0
    BY <2>1 DEF ServerInv
  <2> QED
    BY <2>1, <2>2, <2>3, <2>4, <2>5, <2>6, <2>7, <2>8 DEF ServerInv
<1> QED
  BY <1>2, <1>3

\* A run gives its message a row of its own, or says nothing; and it lets it
\* wait again, or ends it.
LEMMA RunServer ==
  ASSUME ServerInv, NEW n \in Msgs, status[n] # "none",
         NEW s \in Statuses \ {"none"}, status' = [status EXCEPT ![n] = s],
         NewRow(n) \/ UNCHANGED <<replies, table, nextRow>>, UNCHANGED <<said, to>>
  PROVE  ServerInv'
<1>1. /\ status' \in [Msgs -> Statuses]
      /\ \A m \in Msgs : status'[m] # "none" <=> status[m] # "none"
  BY DEF ServerInv
<1>2. CASE UNCHANGED <<replies, table, nextRow>>
  BY <1>1, <1>2 DEF ServerInv, Past
<1>3. CASE NewRow(n)
  <2>1. /\ replies' = [replies EXCEPT ![n] = @ \cup {nextRow}]
        /\ table' = table \cup {nextRow} /\ nextRow' = nextRow + 1 /\ nextRow \in Nat \ {0}
    BY <1>3 DEF NewRow, ServerInv
  <2>2. /\ replies' \in [Msgs -> SUBSET Nat] /\ nextRow' \in Nat \ {0}
        /\ \A m \in Msgs : said'[m] < nextRow'
    BY <2>1, SMT DEF ServerInv
  <2>3. Past(table', nextRow')
    BY <2>1, SMT DEF ServerInv, Past
  <2>4. \A m \in Msgs : replies'[m] = IF m = n THEN replies[m] \cup {nextRow} ELSE replies[m]
    BY <2>1 DEF ServerInv
  <2>5. ASSUME NEW m \in Msgs PROVE Past(replies'[m], nextRow')
    BY <2>1, <2>4, SMT DEF ServerInv, Past
  <2>6. ASSUME NEW m \in Msgs PROVE nextRow \notin {said[m]} \cup replies[m]
    BY <2>1, SMT DEF ServerInv, Past
  <2>7. ASSUME NEW m \in Msgs, NEW k \in Msgs, NEW i \in Nat, i # 0,
               i \in {said'[m]} \cup replies'[m], i \in {said'[k]} \cup replies'[k]
        PROVE  m = k
    <3>1. CASE i = nextRow
      BY <2>4, <2>6, <2>7, <3>1
    <3>2. CASE i # nextRow
      <4>1. i \in {said[m]} \cup replies[m] /\ i \in {said[k]} \cup replies[k]
        BY <2>4, <2>7, <3>2
      <4> QED
        BY <2>7, <4>1 DEF ServerInv
    <3> QED
      BY <3>1, <3>2
  <2>8. \A m \in Msgs : to'[m] = None => status'[m] = "none" /\ said'[m] = 0 /\ replies'[m] = {}
    BY <1>1, <2>4 DEF ServerInv
  <2>9. \A m \in Msgs : replies'[m] # {} => said'[m] # 0
    BY <2>4 DEF ServerInv
  <2> QED
    BY <1>1, <2>2, <2>3, <2>5, <2>7, <2>8, <2>9 DEF ServerInv
<1> QED
  BY <1>2, <1>3

\* Every step keeps the server in order.
LEMMA ServerStep == ServerInv /\ SentInv /\ [Next]_vars => ServerInv'
<1> SUFFICES ASSUME ServerInv, SentInv, [Next]_vars PROVE ServerInv'
  OBVIOUS
<1>1. ASSUME UNCHANGED <<status, said, replies, table, nextRow, to>> PROVE ServerInv'
  BY <1>1 DEF ServerInv, Past
<1>2. CASE Poll \/ ServeRows \/ ServeProcs \/ Refreshed \/ RefreshFails
  BY <1>1, <1>2 DEF Poll, ServeRows, ServeProcs, Refreshed, RefreshFails, server
<1>3. ASSUME NEW m \in Msgs, NEW n, Send(m, n) PROVE ServerInv'
  <2>1. to' = [to EXCEPT ![m] = shown] /\ UNCHANGED <<status, said, replies, table, nextRow>>
    BY <1>3 DEF Send, server
  <2>2. \A k \in Msgs : to'[k] = None => to[k] = None
    BY <2>1, ChatAssumption DEF SentInv
  <2> QED
    BY <2>1, <2>2 DEF ServerInv, Past
<1>4. ASSUME NEW m \in Msgs, Retry(m) \/ Discard(m) \/ DeliverFails(m) PROVE ServerInv'
  BY <1>1, <1>4 DEF Retry, Discard, DeliverFails, server
<1>5. ASSUME NEW m \in Msgs, StopRun(m) PROVE ServerInv'
  BY <1>5, CancelledServer DEF StopRun
<1>6. ASSUME NEW m \in Msgs, Cancel(m) PROVE ServerInv'
  BY <1>6, CancelledServer DEF Cancel
<1>7. ASSUME NEW m \in Msgs, Truncate(m) PROVE ServerInv'
  <2>1. Past(table', nextRow')
    BY <1>7 DEF Truncate, ServerInv, Past
  <2> QED
    BY <1>7, <2>1 DEF Truncate, ServerInv
<1>8. ASSUME NEW m \in Msgs, Posted(m) \/ AnswerLost(m) PROVE ServerInv'
  BY <1>8, EnqueuedServer DEF Posted, AnswerLost, SentInv
<1>9. ASSUME NEW m \in Msgs, \/ RetryRun(m) \/ TakeUp(m) \/ SaysStopped(m) \/ SaysFailed(m)
                             \/ Completes(m) \/ Breaks(m)
      PROVE  ServerInv'
  <2>1. /\ status[m] # "none" /\ UNCHANGED <<said, to>>
        /\ \E s \in Statuses \ {"none"} : status' = [status EXCEPT ![m] = s]
        /\ NewRow(m) \/ UNCHANGED <<replies, table, nextRow>>
    BY <1>9 DEF RetryRun, TakeUp, SaysStopped, SaysFailed, Completes, Breaks, onPage, Statuses
  <2> QED
    BY <2>1, RunServer
<1>10. ASSUME NEW m \in Msgs, Says(m) PROVE ServerInv'
  <2>1. /\ status[m] \in Statuses \ {"none"} /\ status' = [status EXCEPT ![m] = status[m]]
        /\ NewRow(m) /\ UNCHANGED <<said, to>>
    BY <1>10 DEF Says, onPage, Statuses, ServerInv
  <2> QED
    BY <2>1, RunServer
<1>11. ASSUME NEW a \in Agents, Switch(a) PROVE ServerInv'
  BY <1>1, <1>11 DEF Switch, server
<1>12. CASE UNCHANGED vars
  BY <1>1, <1>12 DEF vars
<1> QED
  BY <1>2, <1>3, <1>4, <1>5, <1>6, <1>7, <1>8, <1>9, <1>10, <1>11, <1>12 DEF Next

-----------------------------------------------------------------------------
(* The page. *)

\* A new refresh has no answer yet.
LEMMA AskIs ==
  ASSUME NEW a \in Agents, Ask(a)
  PROVE  /\ refresh' \in Refreshes
         /\ refresh'.agent = a /\ refresh'.rows = {} /\ "rows" \in refresh'.due
         /\ \A m \in Msgs : refresh'.procs[m] = "none"
<1> DEFINE c == CHOOSE x \in Agents : TRUE
<1>1. c \in Agents
  BY ChatAssumption
<1> HIDE DEF c
<1>2. NoRefresh = [on |-> FALSE, agent |-> c, rows |-> {},
                   procs |-> [m \in Msgs |-> "none"], due |-> {}]
  BY DEF NoRefresh, c
<1>3. refresh' = [on |-> TRUE, agent |-> a, rows |-> {},
                  procs |-> [m \in Msgs |-> "none"], due |-> {"rows", "procs"}]
  BY <1>2 DEF Ask
<1> QED
  BY <1>3 DEF Refreshes

\* Nor has one that is not under way.
LEMMA NoRefreshIs ==
  /\ NoRefresh \in Refreshes
  /\ ~NoRefresh.on /\ NoRefresh.rows = {}
  /\ \A m \in Msgs : NoRefresh.procs[m] = "none"
<1> DEFINE c == CHOOSE x \in Agents : TRUE
<1>1. c \in Agents
  BY ChatAssumption
<1> HIDE DEF c
<1>2. NoRefresh = [on |-> FALSE, agent |-> c, rows |-> {},
                   procs |-> [m \in Msgs |-> "none"], due |-> {}]
  BY DEF NoRefresh, c
<1> QED
  BY <1>1, <1>2 DEF Refreshes

\* Whose row an id is only changes when it is given out, and to whom a message
\* was sent only when it is sent.
Writes ==
  /\ nextRow' \in Nat /\ nextRow <= nextRow'
  /\ \A m \in Msgs : /\ said'[m] \in {said[m], nextRow} /\ replies'[m] \subseteq replies[m] \cup {nextRow}
                     /\ to'[m] = to[m] \/ to[m] = None

\* No step writes more.
LEMMA WritesOnly == ServerInv /\ SentInv /\ [Next]_vars => Writes
<1> SUFFICES ASSUME ServerInv, SentInv, [Next]_vars PROVE Writes
  OBVIOUS
<1>1. ASSUME UNCHANGED <<said, replies, nextRow, to>> PROVE Writes
  BY <1>1 DEF Writes, ServerInv
<1>2. CASE Poll \/ ServeRows \/ ServeProcs \/ Refreshed \/ RefreshFails
  BY <1>1, <1>2 DEF Poll, ServeRows, ServeProcs, Refreshed, RefreshFails, server
<1>3. ASSUME NEW m \in Msgs, NEW n, Send(m, n) PROVE Writes
  BY <1>3 DEF Send, server, Writes, ServerInv, SentInv
<1>4. ASSUME NEW m \in Msgs, \/ Retry(m) \/ Discard(m) \/ DeliverFails(m) \/ StopRun(m)
                             \/ Cancel(m) \/ Truncate(m) \/ TakeUp(m) \/ RetryRun(m)
                             \/ Completes(m) \/ Breaks(m)
      PROVE  Writes
  BY <1>1, <1>4
     DEF Retry, Discard, DeliverFails, StopRun, Cancel, Truncate, TakeUp, RetryRun, Completes,
         Breaks, onPage, server
<1>5. ASSUME NEW m \in Msgs, Posted(m) \/ AnswerLost(m) PROVE Writes
  <2>1. Enqueue(m) /\ to' = to
    BY <1>5 DEF Posted, AnswerLost
  <2>2. CASE Taken(m)
    BY <1>1, <2>1, <2>2 DEF Enqueue, server
  <2>3. CASE ~Taken(m)
    BY <2>1, <2>3 DEF Enqueue, Writes, ServerInv
  <2> QED
    BY <2>2, <2>3
<1>6. ASSUME NEW m \in Msgs, Says(m) \/ SaysStopped(m) \/ SaysFailed(m) PROVE Writes
  <2>1. NewRow(m) /\ UNCHANGED <<said, to>>
    BY <1>6 DEF Says, SaysStopped, SaysFailed, onPage
  <2> QED
    BY <2>1 DEF NewRow, Writes, ServerInv
<1>7. ASSUME NEW a \in Agents, Switch(a) PROVE Writes
  BY <1>1, <1>7 DEF Switch, server
<1>8. CASE UNCHANGED vars
  BY <1>1, <1>8 DEF vars
<1> QED
  BY <1>2, <1>3, <1>4, <1>5, <1>6, <1>7, <1>8 DEF Next

\* So rows of one agent stay that agent's.
LEMMA OwnStays ==
  ASSUME ServerInv, Writes, NEW a \in Agents, NEW S,
         Past(S, nextRow), Own(S, a, said, replies, to)
  PROVE  Past(S, nextRow') /\ Own(S, a, said', replies', to')
<1>1. Past(S, nextRow')
  BY SMT DEF Past, Writes, ServerInv
<1>2. ASSUME NEW m \in Msgs, NEW i \in S, i # 0, i \in {said'[m]} \cup replies'[m]
      PROVE  to'[m] = a
  <2>1. i \in Nat /\ i < nextRow
    BY DEF Past
  <2>2. i # nextRow
    BY <2>1 DEF ServerInv
  <2>3. i \in {said[m]} \cup replies[m]
    BY <1>2, <2>2 DEF Writes
  <2>4. to[m] = a /\ a # None
    BY <1>2, <2>3, ChatAssumption DEF Own
  <2> QED
    BY <2>4 DEF Writes
<1> QED
  BY <1>1, <1>2 DEF Own

\* And so do the messages of one agent.
LEMMA ProcsStay ==
  ASSUME Writes, NEW a \in Agents, NEW P, \A m \in Msgs : P[m] # "none" => to[m] = a
  PROVE  \A m \in Msgs : P[m] # "none" => to'[m] = a
BY ChatAssumption DEF Writes

\* What the server answers for an agent is that agent's.
LEMMA RowsOfAre ==
  ASSUME ServerInv, NEW a \in Agents, NEW S, S \subseteq RowsOf(a)
  PROVE  S \subseteq Nat /\ Past(S, nextRow) /\ Own(S, a, said, replies, to)
BY DEF ServerInv, RowsOf, RowsFor, Past, Own

\* A refresh that is asked for, or left to the one under way, is in order.
LEMMA RefreshPage ==
  ASSUME PageInv, ServerInv, Writes, NEW a \in Agents, Refresh(a) \/ Ask(a) \/ refresh' = refresh
  PROVE  /\ refresh' \in Refreshes
         /\ Past(refresh'.rows, nextRow')
         /\ Own(refresh'.rows, refresh'.agent, said', replies', to')
         /\ \A m \in Msgs : refresh'.procs[m] # "none" => to'[m] = refresh'.agent
<1>1. CASE refresh' = refresh
  <2>1. refresh.agent \in Agents
    BY DEF PageInv, Refreshes
  <2>2. Past(refresh.rows, nextRow') /\ Own(refresh.rows, refresh.agent, said', replies', to')
    BY <2>1, OwnStays DEF PageInv
  <2>3. \A m \in Msgs : refresh.procs[m] # "none" => to'[m] = refresh.agent
    BY <2>1, ProcsStay DEF PageInv
  <2> QED
    BY <1>1, <2>2, <2>3 DEF PageInv
<1>2. CASE Ask(a)
  BY <1>2, AskIs DEF Past, Own
<1> QED
  BY <1>1, <1>2 DEF Refresh

\* A page that shows what it did is in order.
LEMMA ShownPage ==
  ASSUME PageInv, ServerInv, Writes, UNCHANGED <<shown, rows, procs>>,
         refresh' \in Refreshes, Past(refresh'.rows, nextRow'),
         Own(refresh'.rows, refresh'.agent, said', replies', to'),
         \A m \in Msgs : refresh'.procs[m] # "none" => to'[m] = refresh'.agent
  PROVE  PageInv'
<1>1. Past(rows, nextRow') /\ Own(rows, shown, said', replies', to')
  BY OwnStays DEF PageInv
<1>2. \A m \in Msgs : procs[m] # "none" => to'[m] = shown
  BY ProcsStay DEF PageInv
<1> QED
  BY <1>1, <1>2 DEF PageInv

\* Every step keeps the page in order.
LEMMA PageStep ==
  PageInv /\ ServerInv /\ SentInv /\ [Next]_vars => PageInv'
<1> SUFFICES ASSUME PageInv, ServerInv, SentInv, [Next]_vars PROVE PageInv'
  OBVIOUS
<1>w. Writes
  BY WritesOnly
<1>a. refresh.agent \in Agents /\ shown \in Agents
  BY DEF PageInv, Refreshes
<1>1. ASSUME UNCHANGED <<shown, rows, procs, refresh>> PROVE PageInv'
  BY <1>1, <1>w, <1>a, RefreshPage, ShownPage
<1>2. CASE Poll
  BY <1>2, <1>w, <1>a, RefreshPage, ShownPage DEF Poll
<1>3. CASE ServeRows
  <2>1. PICK S \in SUBSET RowsOf(refresh.agent) :
               refresh' = [refresh EXCEPT !.rows = S, !.due = @ \ {"rows"}]
    BY <1>3 DEF ServeRows, Since
  <2>2. UNCHANGED <<said, replies, nextRow, to, shown, rows, procs>>
    BY <1>3 DEF ServeRows, server
  <2>3. S \subseteq Nat /\ Past(S, nextRow) /\ Own(S, refresh.agent, said, replies, to)
    BY <1>a, RowsOfAre
  <2>4. /\ refresh' \in Refreshes /\ refresh'.rows = S
        /\ refresh'.agent = refresh.agent /\ refresh'.procs = refresh.procs
    BY <2>1, <2>3 DEF PageInv, Refreshes
  <2> QED
    BY <1>w, <2>2, <2>3, <2>4, ShownPage DEF PageInv
<1>4. CASE ServeProcs
  <2> DEFINE P == [m \in Msgs |-> IF to[m] = refresh.agent /\ status[m] \in Active
                                    THEN status[m] ELSE "none"]
  <2>1. /\ refresh' = [refresh EXCEPT !.procs = P, !.due = @ \ {"procs"}]
        /\ UNCHANGED <<said, replies, nextRow, to, shown, rows, procs>>
    BY <1>4 DEF ServeProcs, server
  <2>2. P \in [Msgs -> {"none", "waiting", "running"}]
    BY DEF Active
  <2>3. \A m \in Msgs : P[m] # "none" => to[m] = refresh.agent
    OBVIOUS
  <2> HIDE DEF P
  <2>4. /\ refresh' \in Refreshes /\ refresh'.rows = refresh.rows
        /\ refresh'.agent = refresh.agent /\ refresh'.procs = P
    BY <2>1, <2>2 DEF PageInv, Refreshes
  <2> QED
    BY <1>w, <2>1, <2>3, <2>4, ShownPage DEF PageInv
<1>5. CASE Refreshed
  <2>1. UNCHANGED <<shown, said, replies, nextRow, to>>
    BY <1>5 DEF Refreshed, server
  <2>2. Ask(refresh.agent) \/ refresh' = NoRefresh
    BY <1>5 DEF Refreshed
  <2>3. /\ refresh' \in Refreshes /\ refresh'.rows = {}
        /\ \A m \in Msgs : refresh'.procs[m] = "none"
    BY <1>a, <2>2, AskIs, NoRefreshIs
  <2>4. CASE Current
    <3>1. shown = refresh.agent /\ rows' = refresh.rows /\ procs' = refresh.procs
      BY <1>5, <2>4 DEF Refreshed, Current
    <3>2. procs' \in [Msgs -> {"none", "waiting", "running"}]
      BY <3>1 DEF PageInv, Refreshes
    <3> QED
      BY <2>1, <2>3, <3>1, <3>2 DEF PageInv, Past, Own
  <2>5. CASE ~Current
    BY <1>5, <1>w, <2>1, <2>3, <2>5, ShownPage DEF Refreshed, Past, Own
  <2> QED
    BY <2>4, <2>5
<1>6. CASE RefreshFails
  BY <1>6, <1>w, NoRefreshIs, ShownPage DEF RefreshFails, Past, Own
<1>7. ASSUME NEW m \in Msgs, NEW n, Send(m, n) PROVE PageInv'
  BY <1>1, <1>7 DEF Send
<1>8. ASSUME NEW m \in Msgs, \/ Retry(m) \/ Discard(m) \/ DeliverFails(m) \/ AnswerLost(m)
                             \/ StopRun(m) \/ Truncate(m) \/ TakeUp(m) \/ Says(m)
                             \/ SaysStopped(m) \/ SaysFailed(m) \/ Completes(m) \/ Breaks(m)
      PROVE  PageInv'
  BY <1>1, <1>8
     DEF Retry, Discard, DeliverFails, AnswerLost, StopRun, Truncate, TakeUp, Says,
         SaysStopped, SaysFailed, Completes, Breaks, onPage
<1>9. ASSUME NEW m \in Msgs, Posted(m) PROVE PageInv'
  <2>1. to[m] \in Agents /\ Refresh(to[m]) /\ UNCHANGED <<shown, rows, procs>>
    BY <1>9 DEF Posted, SentInv
  <2> QED
    BY <1>w, <2>1, RefreshPage, ShownPage
<1>10. ASSUME NEW m \in Msgs, Cancel(m) \/ RetryRun(m) PROVE PageInv'
  BY <1>10, <1>w, <1>a, RefreshPage, ShownPage DEF Cancel, RetryRun
<1>11. ASSUME NEW a \in Agents, Switch(a) PROVE PageInv'
  <2>1. /\ shown' = a /\ rows' = {} /\ procs' = Quiet /\ refresh' = refresh
    BY <1>11 DEF Switch
  <2>2. /\ refresh \in Refreshes /\ Past(refresh.rows, nextRow')
        /\ Own(refresh.rows, refresh.agent, said', replies', to')
        /\ \A m \in Msgs : refresh.procs[m] # "none" => to'[m] = refresh.agent
    BY <1>a, <1>w, <2>1, RefreshPage
  <2> QED
    BY <2>1, <2>2 DEF PageInv, Past, Own, Quiet
<1>12. CASE UNCHANGED vars
  BY <1>1, <1>12 DEF vars
<1> QED
  BY <1>2, <1>3, <1>4, <1>5, <1>6, <1>7, <1>8, <1>9, <1>10, <1>11, <1>12 DEF Next

-----------------------------------------------------------------------------
(* Nothing vanishes. *)

\* A step that expects no more, writes nothing and takes nothing from the page
\* keeps what was promised, if it leaves the refresh alone or begins a new one.
LEMMA SeenStays ==
  ASSUME SeenInv, PageInv, UNCHANGED <<said, replies, to, table, rows, shown>>,
         expected' \subseteq expected, cutOff' = cutOff,
         refresh' = refresh \/ Ask(shown) \/ (\E m \in Msgs : to[m] \in Agents /\ Ask(to[m])),
         \A m \in expected' : outbox[m] # "none" => outbox'[m] # "none"
  PROVE  SeenInv'
<1>1. refresh' = refresh \/ "rows" \in refresh'.due
  BY AskIs DEF PageInv
<1> QED
  BY <1>1 DEF SeenInv, Kept, Promised, NothingVanishes, PushedOut

\* The answer of POST /api/message adds a row for a message that had none.
LEMMA SeenPosted ==
  ASSUME SeenInv, ServerInv, SentInv, PageInv, NEW n \in Msgs, step[n] = "post", Enqueue(n),
         UNCHANGED <<to, rows, shown, expected, cutOff>>,
         refresh' = refresh \/ Ask(to[n]),
         \A m \in Msgs : outbox[m] # "none" => outbox'[m] # "none"
  PROVE  SeenInv'
<1>1. CASE Taken(n)
  <2>1. UNCHANGED <<said, replies, table>>
    BY <1>1 DEF Enqueue, server
  <2>2. to[n] \in Agents
    BY DEF SentInv
  <2> QED
    BY <2>1, <2>2, SeenStays DEF SeenInv
<1>2. CASE ~Taken(n)
  <2>1. /\ said' = [said EXCEPT ![n] = nextRow] /\ table' = table \cup {nextRow}
        /\ replies' = replies /\ said[n] = 0 /\ replies[n] = {}
    BY <1>2 DEF Enqueue, Taken, ServerInv
  <2>2. said'[n] = nextRow /\ \A m \in Msgs : m # n => said'[m] = said[m]
    BY <2>1 DEF ServerInv
  <2>3. n \in Kept => outbox[n] # "none"
    BY <2>1 DEF SeenInv, Kept, NothingVanishes, PushedOut, PageInv, Past
  <2>4. refresh' = refresh \/ "rows" \in refresh'.due
    BY AskIs DEF SentInv
  <2>5. ASSUME NEW m \in Kept PROVE Promised(m)'
    <3>1. CASE m = n
      BY <2>1, <2>3, <2>4, <3>1 DEF Promised, Kept, SeenInv
    <3>2. CASE m # n
      <4>1. m \in Msgs /\ Promised(m) /\ said'[m] = said[m] /\ replies'[m] = replies[m]
        BY <2>1, <2>2, <3>2 DEF Kept, SeenInv
      <4>2. outbox'[m] = "none" => outbox[m] = "none"
        BY <4>1
      <4> QED
        BY <2>4, <4>1, <4>2 DEF Promised
    <3> QED
      BY <3>1, <3>2
  <2>6. ASSUME NEW m \in Kept, outbox'[m] = "none"
        PROVE  said'[m] \in rows \/ PushedOut(m)'
    <3>1. m \in Msgs /\ outbox[m] = "none"
      BY <2>6 DEF Kept, SeenInv
    <3>2. m # n /\ said'[m] = said[m]
      BY <2>2, <2>3, <3>1
    <3>3. said[m] \in rows \/ PushedOut(m)
      BY <3>1 DEF SeenInv, Kept, NothingVanishes
    <3> QED
      BY <3>2, <3>3 DEF PushedOut
  <2>7. \A m \in Kept : said'[m] # 0 => said'[m] \in table'
    BY <2>1, <2>2 DEF SeenInv, Kept
  <2>8. Kept' = Kept
    BY DEF Kept
  <2>9. NothingVanishes'
    BY <2>6, <2>8 DEF NothingVanishes, Kept
  <2> QED
    BY <2>5, <2>7, <2>8, <2>9 DEF SeenInv
<1> QED
  BY <1>1, <1>2

\* A message that has left the outbox, or whose run has said something, is on
\* the page that is served, or pushed out of it.
LEMMA Served ==
  ASSUME SeenInv, PageInv, ServerInv, ServeRows, NEW m \in Kept
  PROVE  Promised(m)'
<1>1. PICK oldest \in RowsOf(refresh.agent) \cup {0} :
        LET newest == Since(refresh.agent, oldest) IN
        /\ Cardinality(newest) = Limit \/ (oldest = 0 /\ Cardinality(newest) < Limit)
        /\ refresh' = [refresh EXCEPT !.rows = newest, !.due = @ \ {"rows"}]
  BY DEF ServeRows
<1> DEFINE newest == Since(refresh.agent, oldest)
<1>2. /\ Cardinality(newest) = Limit \/ oldest = 0
      /\ refresh' = [refresh EXCEPT !.rows = newest, !.due = @ \ {"rows"}]
  BY <1>1
<1>3. UNCHANGED <<said, replies, to, table, shown, rows, outbox, expected, cutOff>>
  BY DEF ServeRows, server
<1>4. m \in Msgs /\ to[m] = shown
  BY DEF SeenInv, Kept
<1>5. newest \subseteq RowsOf(refresh.agent) /\ RowsOf(refresh.agent) \subseteq Nat
  BY DEF Since, RowsOf, ServerInv, Past
<1>6. refresh'.rows = newest /\ refresh'.agent = refresh.agent
  BY <1>2 DEF PageInv, Refreshes
<1>7. SUFFICES ASSUME refresh.agent = shown,
                      outbox[m] = "none" \/ replies[m] \cap newest # {}
               PROVE  said[m] \in newest \/ Full(newest, said[m])
  BY <1>3, <1>6 DEF Promised
<1>8. said[m] # 0
  <2>1. CASE outbox[m] = "none"
    BY <2>1, <1>4 DEF SeenInv, NothingVanishes, Kept, PushedOut, PageInv, Past
  <2>2. CASE replies[m] \cap newest # {}
    BY <2>2, <1>4 DEF ServerInv
  <2> QED
    BY <1>7, <2>1, <2>2
<1>9. said[m] \in RowsOf(refresh.agent) /\ said[m] \in Nat
  BY <1>4, <1>7, <1>8 DEF SeenInv, RowsOf, RowsFor, ServerInv
<1>10. oldest \in Nat
  BY <1>5
<1>11. CASE said[m] >= oldest
  BY <1>9, <1>11 DEF Since
<1>12. CASE said[m] < oldest
  <2>1. Cardinality(newest) = Limit
    BY <1>2, <1>9, <1>12
  <2>2. \A i \in newest : i \in Nat /\ i >= oldest
    BY <1>5 DEF Since
  <2>3. \A i \in newest : said[m] < i
    BY <1>9, <1>10, <1>12, <2>2
  <2> QED
    BY <2>1, <2>3 DEF Full
<1> QED
  BY <1>9, <1>10, <1>11, <1>12

\* Every step keeps what is expected in sight.
LEMMA SeenStep ==
  SeenInv /\ PageInv /\ ServerInv /\ SentInv /\ [Next]_vars => SeenInv'
<1> SUFFICES ASSUME SeenInv, PageInv, ServerInv, SentInv, [Next]_vars PROVE SeenInv'
  OBVIOUS
<1>e. expected \subseteq Msgs
  BY DEF SeenInv
<1>1. CASE Poll
  BY <1>1, SeenStays DEF Poll, Refresh, server
<1>2. CASE ServeRows
  <2>1. UNCHANGED <<said, replies, to, table, shown, rows, outbox, expected, cutOff>>
    BY <1>2 DEF ServeRows, server
  <2>2. \A m \in Kept : Promised(m)'
    BY <1>2, Served
  <2>3. Kept' = Kept /\ NothingVanishes'
    BY <2>1 DEF Kept, SeenInv, NothingVanishes, PushedOut
  <2> QED
    BY <2>1, <2>2, <2>3 DEF SeenInv
<1>3. CASE ServeProcs
  <2>1. /\ refresh'.rows = refresh.rows /\ refresh'.agent = refresh.agent
        /\ refresh'.on = refresh.on /\ ("rows" \in refresh'.due <=> "rows" \in refresh.due)
    BY <1>3 DEF ServeProcs, PageInv, Refreshes
  <2>2. UNCHANGED <<said, replies, to, table, shown, rows, outbox, expected, cutOff>>
    BY <1>3 DEF ServeProcs, server
  <2>3. Kept' = Kept /\ NothingVanishes'
    BY <2>2 DEF Kept, SeenInv, NothingVanishes, PushedOut
  <2>4. \A m \in Kept : Promised(m)'
    BY <2>1, <2>2 DEF SeenInv, Promised, Full
  <2> QED
    BY <2>2, <2>3, <2>4 DEF SeenInv
<1>4. CASE Refreshed
  <2>1. UNCHANGED <<said, replies, to, table, shown, expected, cutOff>>
    BY <1>4 DEF Refreshed, server
  <2>2. ~refresh'.on \/ "rows" \in refresh'.due
    BY <1>4, AskIs, NoRefreshIs DEF Refreshed, PageInv, Refreshes
  <2>3. Kept' = Kept /\ \A m \in Kept : Promised(m)'
    BY <2>1, <2>2 DEF Kept, Promised
  <2>4. NothingVanishes'
    <3>1. CASE Current
      <4>1. /\ rows' = refresh.rows /\ refresh.on /\ refresh.due = {} /\ refresh.agent = shown
            /\ outbox' = [m \in Msgs |-> IF Echoed(m) THEN "none" ELSE outbox[m]]
        BY <1>4, <3>1 DEF Refreshed, Current
      <4>2. ASSUME NEW m \in Kept, outbox'[m] = "none"
            PROVE  said[m] \in refresh.rows \/ Full(refresh.rows, said[m])
        <5>1. m \in Msgs /\ Promised(m)
          BY DEF Kept, SeenInv
        <5>2. CASE said[m] \in refresh.rows
          BY <5>2
        <5>3. CASE said[m] \notin refresh.rows
          <6>1. outbox[m] = "none" \/ replies[m] \cap refresh.rows # {}
            BY <4>1, <4>2, <5>1, <5>3 DEF Echoed, RowsFor
          <6> QED
            BY <4>1, <5>1, <6>1 DEF Promised
        <5> QED
          BY <5>2, <5>3
      <4>3. ASSUME NEW m \in Kept, outbox'[m] = "none"
            PROVE  said[m] # 0
        <5>1. m \in Msgs
          BY DEF Kept, SeenInv
        <5>2. CASE outbox[m] = "none"
          BY <5>1, <5>2 DEF SeenInv, NothingVanishes, Kept, PushedOut, PageInv, Past
        <5>3. CASE outbox[m] # "none"
          <6>1. refresh.rows \cap RowsFor(m) # {}
            BY <4>1, <4>3, <5>1, <5>3 DEF Echoed
          <6> QED
            BY <5>1, <6>1 DEF RowsFor, PageInv, Past, ServerInv
        <5> QED
          BY <5>2, <5>3
      <4> QED
        BY <2>1, <2>3, <4>1, <4>2, <4>3 DEF NothingVanishes, Kept, PushedOut, Full
    <3>2. CASE ~Current
      BY <1>4, <2>1, <3>2 DEF Refreshed, SeenInv, NothingVanishes, PushedOut
    <3> QED
      BY <3>1, <3>2
  <2> QED
    BY <2>1, <2>3, <2>4 DEF SeenInv
<1>5. CASE RefreshFails
  <2>1. /\ UNCHANGED <<said, replies, to, table, shown, rows, outbox, expected, cutOff>>
        /\ ~refresh'.on
    BY <1>5, NoRefreshIs DEF RefreshFails, server
  <2> QED
    BY <2>1 DEF SeenInv, Kept, Promised, NothingVanishes, PushedOut
<1>6. ASSUME NEW m \in Msgs, NEW n, Send(m, n) PROVE SeenInv'
  <2>1. /\ to[m] = None /\ to' = [to EXCEPT ![m] = shown]
        /\ outbox' = [outbox EXCEPT ![m] = "pending"] /\ expected' = expected \cup {m}
        /\ UNCHANGED <<said, replies, table, rows, refresh, shown, cutOff>>
    BY <1>6 DEF Send, server
  <2>2. said[m] = 0 /\ replies[m] = {}
    BY <2>1 DEF ServerInv
  <2>3. \A k \in expected : k # m => to'[k] = to[k] /\ outbox'[k] = outbox[k]
    BY <1>e, <2>1 DEF SentInv
  <2>4. to'[m] = shown /\ outbox'[m] = "pending"
    BY <2>1 DEF SentInv
  <2>5. \A k \in Kept' : k = m \/ (k # m /\ k \in Kept /\ k \in expected)
    BY <2>1 DEF Kept
  <2>6. \A k \in Kept' : Promised(k)'
    BY <2>1, <2>2, <2>3, <2>4, <2>5 DEF SeenInv, Promised
  <2>7. NothingVanishes'
    BY <2>1, <2>3, <2>4, <2>5 DEF SeenInv, NothingVanishes, Kept, PushedOut
  <2>8. \A k \in Kept' : to'[k] = shown' /\ (said'[k] # 0 => said'[k] \in table')
    BY <2>1, <2>2, <2>3, <2>4, <2>5 DEF SeenInv
  <2> QED
    BY <1>e, <2>1, <2>6, <2>7, <2>8 DEF SeenInv
<1>7. ASSUME NEW m \in Msgs, Retry(m) PROVE SeenInv'
  <2>1. \A k \in expected : outbox[k] # "none" => outbox'[k] # "none"
    BY <1>7, <1>e DEF Retry, SentInv
  <2> QED
    BY <1>7, <2>1, SeenStays DEF Retry, server
<1>8. ASSUME NEW m \in Msgs, Discard(m) PROVE SeenInv'
  <2>1. \A k \in expected' : outbox[k] # "none" => outbox'[k] # "none"
    BY <1>8, <1>e DEF Discard, SentInv
  <2> QED
    BY <1>8, <2>1, SeenStays DEF Discard, server
<1>9. ASSUME NEW m \in Msgs, StopRun(m) \/ TakeUp(m) \/ Completes(m) \/ Breaks(m) PROVE SeenInv'
  BY <1>9, SeenStays DEF StopRun, TakeUp, Completes, Breaks, onPage
<1>10. ASSUME NEW m \in Msgs, Truncate(m) PROVE SeenInv'
  <2> DEFINE cut == {i \in RowsOf(to[m]) : i >= said[edits[m]]}
  <2>1. /\ table' = table \ cut /\ expected' = {k \in expected : k = m \/ said[k] \notin cut}
        /\ cutOff' = IF said[m] \in cut THEN cutOff \cup {m} ELSE cutOff
        /\ UNCHANGED <<said, replies, to, rows, refresh, shown, outbox>>
    BY <1>10 DEF Truncate
  <2> HIDE DEF cut
  <2>2. \A k \in Kept' : k \in Kept /\ said[k] \notin cut
    BY <2>1 DEF Kept
  <2>3. \A k \in Kept' : Promised(k)'
    BY <2>1, <2>2 DEF SeenInv, Promised
  <2>4. NothingVanishes'
    BY <2>1, <2>2 DEF SeenInv, NothingVanishes, Kept, PushedOut
  <2>5. \A k \in Kept' : to'[k] = shown' /\ (said'[k] # 0 => said'[k] \in table')
    BY <2>1, <2>2 DEF SeenInv
  <2> QED
    BY <1>e, <2>1, <2>3, <2>4, <2>5 DEF SeenInv
<1>11. ASSUME NEW m \in Msgs, Posted(m) PROVE SeenInv'
  <2>1. \A k \in Msgs : outbox[k] # "none" => outbox'[k] # "none"
    BY <1>11 DEF Posted, Accepted, Patched, SentInv
  <2> QED
    BY <1>11, <2>1, SeenPosted DEF Posted, Refresh
<1>12. ASSUME NEW m \in Msgs, AnswerLost(m) PROVE SeenInv'
  <2>1. \A k \in Msgs : outbox[k] # "none" => outbox'[k] # "none"
    BY <1>12 DEF AnswerLost, FailedPhase, Patched, SentInv
  <2> QED
    BY <1>12, <2>1, SeenPosted DEF AnswerLost
<1>13. ASSUME NEW m \in Msgs, DeliverFails(m) PROVE SeenInv'
  <2>1. \A k \in expected : outbox[k] # "none" => outbox'[k] # "none"
    BY <1>13, <1>e DEF DeliverFails, FailedPhase, Patched, SentInv
  <2> QED
    BY <1>13, <2>1, SeenStays DEF DeliverFails, server
<1>14. ASSUME NEW m \in Msgs, Cancel(m) \/ RetryRun(m) PROVE SeenInv'
  BY <1>14, SeenStays DEF Cancel, RetryRun, Refresh
<1>15. ASSUME NEW m \in Msgs, Says(m) \/ SaysStopped(m) \/ SaysFailed(m) PROVE SeenInv'
  <2>1. /\ replies' = [replies EXCEPT ![m] = @ \cup {nextRow}] /\ table' = table \cup {nextRow}
        /\ UNCHANGED <<said, to, rows, refresh, shown, outbox, expected, cutOff>>
    BY <1>15 DEF Says, SaysStopped, SaysFailed, NewRow, onPage
  <2>2. nextRow \notin refresh.rows
    BY DEF PageInv, ServerInv, Past
  <2>3. \A k \in Msgs : replies'[k] \cap refresh.rows = replies[k] \cap refresh.rows
    BY <2>1, <2>2 DEF ServerInv
  <2>4. Kept' = Kept /\ \A k \in Kept : k \in Msgs /\ Promised(k)
    BY <1>e, <2>1 DEF SeenInv, Kept
  <2>5. \A k \in Kept : Promised(k)'
    BY <2>1, <2>3, <2>4 DEF Promised
  <2>6. NothingVanishes'
    BY <2>1 DEF SeenInv, NothingVanishes, PushedOut
  <2> QED
    BY <2>1, <2>4, <2>5, <2>6 DEF SeenInv
<1>16. ASSUME NEW a \in Agents, Switch(a) PROVE SeenInv'
  BY <1>16 DEF Switch, SeenInv, Kept, NothingVanishes
<1>17. CASE UNCHANGED vars
  BY <1>17, SeenStays DEF vars
<1> QED
  BY <1>1, <1>2, <1>3, <1>4, <1>5, <1>6, <1>7, <1>8, <1>9, <1>10, <1>11, <1>12,
     <1>13, <1>14, <1>15, <1>16, <1>17 DEF Next

-----------------------------------------------------------------------------
ChatInv == SentInv /\ ServerInv /\ PageInv /\ SeenInv

\* All of it holds at the beginning.
LEMMA InitChat == Init => ChatInv
<1> SUFFICES ASSUME Init PROVE ChatInv
  OBVIOUS
<1>1. shown \in Agents
  BY ChatAssumption DEF Init
<1>2. SentInv
  BY <1>1 DEF Init, SentInv, Quiet, Steps
<1>3. ServerInv
  BY DEF Init, ServerInv, Quiet, Statuses, Past
<1>4. PageInv
  BY <1>1, NoRefreshIs DEF Init, PageInv, Quiet, Past, Own
<1>5. SeenInv
  BY DEF Init, SeenInv, Kept, NothingVanishes
<1> QED
  BY <1>2, <1>3, <1>4, <1>5 DEF ChatInv

\* And always, for any agents and any number of messages.
LEMMA ChatInvariant == Spec => []ChatInv
<1>1. ChatInv /\ [Next]_vars => ChatInv'
  BY SentStep, ServerStep, PageStep, SeenStep DEF ChatInv
<1> QED
  BY <1>1, InitChat, PTL DEF Spec

\* The transcript and the run on the screen are the shown agent's: the guard of
\* refresh in use-agent-chat.ts, after which nothing else is written, is enough.
THEOREM ShowsOwn == Spec => []OwnTranscript
<1>1. ChatInv => OwnTranscript
  BY DEF ChatInv, PageInv, Own, OwnTranscript, RowsFor
<1> QED
  BY <1>1, ChatInvariant, PTL

\* What the user sent stays in the outbox or in the transcript, or is followed
\* there by a full page of newer rows, whatever is lost, fails, is tried again or
\* answered late; only a text that was cut off by an edit is not looked for,
\* among them that of an edit that cuts off its own when it is tried again.
THEOREM StaysInSight == Spec => []NothingVanishes
<1>1. ChatInv => NothingVanishes
  BY DEF ChatInv, SeenInv
<1> QED
  BY <1>1, ChatInvariant, PTL

(***************************************************************************)
(* The Downloads row.                                                      *)
(***************************************************************************)

Batch == [phase : {"idle", "poofing", "deleting", "fetching"}, ids : SUBSET Torrents,
          sent : SUBSET Torrents, failed : SUBSET Torrents]

\* A sequence, whatever its elements are.
IsList(s) == s \in Seq({s[i] : i \in DOMAIN s})

\* A fetch has its three fields.
Shaped(f) == f \in [of : {f.of}, answered : {f.answered}, view : {f.view}]

\* Removals are numbered as they are made, and a fetch is for a removal whose
\* deletions are over.
BatchesInv ==
  /\ rowEdits \in Nat
  /\ batches \in [1..MaxEdits -> Batch]
  /\ IsList(fetches) /\ \A i \in DOMAIN fetches : Shaped(fetches[i])
  /\ \A n \in 1..MaxEdits : n > rowEdits =>
       /\ batches[n].phase = "idle"
       /\ \A i \in DOMAIN fetches : fetches[i].of # n
  /\ \A n \in 1..MaxEdits : batches[n].phase = "idle" => batches[n].ids = {}
  /\ \A i \in DOMAIN fetches : fetches[i].of # 0 =>
       /\ fetches[i].of \in 1..MaxEdits
       /\ batches[fetches[i].of].phase \in {"fetching", "idle"}

\* Without faults nothing fails; a card is hidden while it plays its animation
\* and stays so.
HiddenInv ==
  /\ \A n \in 1..MaxEdits :
       /\ batches[n].failed = {}
       /\ batches[n].phase = "poofing" => batches[n].ids \subseteq exiting \cup hidden
       /\ batches[n].phase \in {"deleting", "fetching"} => batches[n].ids \subseteq hidden
  /\ told \subseteq hidden
  /\ hidden \cap DOMAIN lane \subseteq exiting

RowInv == BatchesInv /\ HiddenInv

\* Sequences are lists.
LEMMA SeqIsList ==
  ASSUME NEW S, NEW s \in Seq(S)
  PROVE  IsList(s)
BY SeqOfRange DEF IsList, Range

\* What appending, removing and replacing do to a list.
LEMMA ListSteps ==
  ASSUME NEW s, IsList(s)
  PROVE  /\ DOMAIN s = 1..Len(s) /\ Len(s) \in Nat
         /\ \A x : /\ IsList(Append(s, x))
                   /\ \A i \in DOMAIN Append(s, x) : Append(s, x)[i] = x \/ \E j \in DOMAIN s : Append(s, x)[i] = s[j]
         /\ \A k \in DOMAIN s :
              /\ IsList(RemoveAt(s, k))
              /\ \A i \in DOMAIN RemoveAt(s, k) :
                   \E j \in DOMAIN s : RemoveAt(s, k)[i] = s[j]
<1> DEFINE S == {s[i] : i \in DOMAIN s}
<1>1. s \in Seq(S)
  BY DEF IsList
<1>2. DOMAIN s = 1..Len(s) /\ Len(s) \in Nat
  BY <1>1
<1>3. ASSUME NEW x
      PROVE  /\ IsList(Append(s, x))
             /\ \A i \in DOMAIN Append(s, x) : Append(s, x)[i] = x \/ \E j \in DOMAIN s : Append(s, x)[i] = s[j]
  <2> DEFINE a == Append(s, x)
  <2>1. s \in Seq(S \cup {x})
    BY <1>1
  <2>2. /\ a \in Seq(S \cup {x}) /\ Len(a) = Len(s) + 1
        /\ \A i \in 1..Len(s) : a[i] = s[i]
        /\ a[Len(s) + 1] = x
    BY <2>1, AppendProperties
  <2>3. DOMAIN a = 1..(Len(s) + 1)
    BY <2>2
  <2>5. IsList(a)
    BY <2>2, SeqIsList
  <2>6. \A i \in DOMAIN a : i \in 1..Len(s) \/ i = Len(s) + 1
    <3> SUFFICES ASSUME NEW i \in 1..(Len(s) + 1)
                 PROVE  i \in 1..Len(s) \/ i = Len(s) + 1
      BY <2>3
    <3> HIDE DEF a, S
    <3>1. Len(s) \in Nat
      BY <1>2
    <3> QED  BY <3>1
  <2>7. QED  BY <1>2, <2>2, <2>5, <2>6
<1>4. ASSUME NEW k \in DOMAIN s
      PROVE  /\ IsList(RemoveAt(s, k))
             /\ \A i \in DOMAIN RemoveAt(s, k) :
                  \E j \in DOMAIN s : RemoveAt(s, k)[i] = s[j]
  <2> DEFINE a == RemoveAt(s, k)
  <2>1. k \in 1..Len(s)
    BY <1>2
  <2>2. /\ SubSeq(s, 1, k - 1) \in Seq(S) /\ SubSeq(s, k + 1, Len(s)) \in Seq(S)
    BY <1>1, <1>2, <2>1
  <2>3. a = SubSeq(s, 1, k - 1) \o SubSeq(s, k + 1, Len(s))
    BY DEF RemoveAt
  <2>4. a \in Seq(S)
    BY <2>2, <2>3
  <2>5. \A i \in DOMAIN a : a[i] \in S
    BY <2>4
  <2>6. IsList(a)
    BY <2>4, SeqIsList
  <2>7. QED  BY <2>5, <2>6
<1>5. QED  BY <1>2, <1>3, <1>4

USE DownloadsAssumption

\* A step that does not touch the removals or the fetches.
LEMMA Aside ==
  ASSUME RowInv,
         rowEdits' = rowEdits \/ (rowEdits' = rowEdits + 1 /\ rowEdits < MaxEdits),
         UNCHANGED <<fetches, exiting, hidden, batches, told>>,
         DOMAIN lane' = DOMAIN lane
  PROVE  RowInv'
BY DEF RowInv, BatchesInv, HiddenInv, IsList

\* A fetch is asked for by nobody, or answered.
LEMMA FetchesStep ==
  ASSUME RowInv, UNCHANGED <<rowEdits, lane, exiting, hidden, batches, told>>,
         IsList(fetches'),
         \A i \in DOMAIN fetches' :
           /\ Shaped(fetches'[i])
           /\ fetches'[i].of = 0 \/ \E j \in DOMAIN fetches : fetches'[i].of = fetches[j].of
  PROVE  RowInv'
<1>1. HiddenInv'
  BY DEF RowInv, HiddenInv
<1>2. \A i \in DOMAIN fetches' : fetches'[i].of # 0 =>
         /\ fetches'[i].of \in 1..MaxEdits
         /\ batches[fetches'[i].of].phase \in {"fetching", "idle"}
  BY DEF RowInv, BatchesInv
<1>3. \A n \in 1..MaxEdits : n > rowEdits => \A i \in DOMAIN fetches' : fetches'[i].of # n
  BY DEF RowInv, BatchesInv
<1>4. QED  BY <1>1, <1>2, <1>3 DEF RowInv, BatchesInv

\* Nobody waits for the fetch that is asked for.
LEMMA AskStep ==
  ASSUME RowInv, UNCHANGED <<rowEdits, lane, exiting, hidden, batches, told>>,
         FetchAll(0)
  PROVE  RowInv'
<1> DEFINE f == [of |-> 0, answered |-> FALSE, view |-> NoView]
<1>1. fetches' = Append(fetches, f)
  BY DEF FetchAll
<1>2. IsList(fetches) /\ Shaped(f) /\ \A i \in DOMAIN fetches : Shaped(fetches[i])
  BY DEF RowInv, BatchesInv, Shaped
<1>3. IsList(fetches') /\ \A i \in DOMAIN fetches' : fetches'[i] = f \/ \E j \in DOMAIN fetches : fetches'[i] = fetches[j]
  BY <1>1, <1>2, ListSteps
<1>4. \A i \in DOMAIN fetches' :
         /\ Shaped(fetches'[i])
         /\ fetches'[i].of = 0 \/ \E j \in DOMAIN fetches : fetches'[i].of = fetches[j].of
  <2>1. f.of = 0
    OBVIOUS
  <2>2. QED  BY <1>2, <1>3, <2>1, Zenon
<1>5. QED  BY <1>3, <1>4, FetchesStep

\* A fetch is answered with the table as it is now.
LEMMA AnswerStep ==
  ASSUME RowInv, NEW k \in DOMAIN fetches, Answer(k)
  PROVE  RowInv'
<1>1. /\ fetches' = [fetches EXCEPT ![k].answered = TRUE, ![k].view = positions]
      /\ UNCHANGED <<rowEdits, lane, exiting, hidden, batches, told>>
  BY DEF Answer, removal
<1>2. IsList(fetches) /\ \A i \in DOMAIN fetches : Shaped(fetches[i])
  BY DEF RowInv, BatchesInv
<1>3. /\ DOMAIN fetches' = DOMAIN fetches
      /\ \A i \in DOMAIN fetches :
           fetches'[i] = IF i = k THEN [fetches[k] EXCEPT !.answered = TRUE, !.view = positions] ELSE fetches[i]
  BY <1>1
<1>4. /\ [fetches[k] EXCEPT !.answered = TRUE, !.view = positions]
           \in [of : {fetches[k].of}, answered : {TRUE}, view : {positions}]
      /\ [fetches[k] EXCEPT !.answered = TRUE, !.view = positions].of = fetches[k].of
  BY <1>2 DEF Shaped
<1>5. \A i \in DOMAIN fetches : Shaped(fetches'[i]) /\ fetches'[i].of = fetches[i].of
  BY <1>2, <1>3, <1>4 DEF Shaped
<1>6. IsList(fetches')
  <2>1. DOMAIN fetches = 1..Len(fetches) /\ Len(fetches) \in Nat
    BY <1>2, ListSteps
  <2>2. \A i \in DOMAIN fetches' : fetches'[i] \in {fetches'[j] : j \in DOMAIN fetches'}
    OBVIOUS
  <2>3. fetches' = [i \in 1..Len(fetches) |-> fetches'[i]]
    BY <1>1, <1>3, <2>1
  <2>4. QED  BY <2>1, <2>2, <2>3 DEF IsList
<1>7. QED  BY <1>1, <1>3, <1>5, <1>6, FetchesStep

\* The row is what the fetch answered without the hidden cards, so that the cards
\* of its removal need not play their animation any longer.
LEMMA AdoptStep ==
  ASSUME RowInv, NEW k \in DOMAIN fetches, Adopt(k)
  PROVE  RowInv'
<1> DEFINE n == fetches[k].of
<1>1. /\ lane' = FilterHidden(fetches[k].view)
      /\ fetches' = RemoveAt(fetches, k)
      /\ UNCHANGED <<rowEdits, hidden, told>>
  BY DEF Adopt, FetchOver
<1>2. DOMAIN lane' \cap hidden = {}
  BY <1>1 DEF FilterHidden, Within
<1>3. /\ IsList(fetches')
      /\ \A i \in DOMAIN fetches' : \E j \in DOMAIN fetches : fetches'[i] = fetches[j]
  BY <1>1, ListSteps DEF RowInv, BatchesInv
<1>4. CASE n = 0
  <2>1. UNCHANGED <<exiting, batches>>
    BY <1>4 DEF Adopt, FetchOver
  <2>2. HiddenInv'
    BY <1>1, <1>2, <2>1 DEF RowInv, HiddenInv
  <2>3. QED  BY <1>1, <1>3, <2>1, <2>2 DEF RowInv, BatchesInv
<1>5. CASE n # 0
  <2>1. /\ exiting' = exiting \ batches[n].ids
        /\ batches' = [batches EXCEPT ![n] = NoBatch]
    BY <1>5 DEF Adopt, FetchOver
  <2>2. n \in 1..MaxEdits /\ batches[n].phase \in {"fetching", "idle"} /\ batches \in [1..MaxEdits -> Batch]
    BY <1>5 DEF RowInv, BatchesInv
  <2>3. batches[n].ids \subseteq hidden
    BY <2>2 DEF RowInv, BatchesInv, HiddenInv
  <2>4. NoBatch \in Batch /\ NoBatch.phase = "idle"
        /\ NoBatch.ids = {} /\ NoBatch.failed = {}
    BY DEF NoBatch, Batch
  <2>5. \A m \in 1..MaxEdits : batches'[m] = IF m = n THEN NoBatch ELSE batches[m]
    BY <2>1, <2>2
  <2>6. batches' \in [1..MaxEdits -> Batch]
    BY <2>1, <2>2, <2>4
  <2>7. HiddenInv'
    BY <1>1, <1>2, <2>1, <2>3, <2>4, <2>5 DEF RowInv, HiddenInv
  <2>8. BatchesInv'
    BY <1>1, <1>3, <2>4, <2>5, <2>6 DEF RowInv, BatchesInv
  <2>9. QED  BY <2>7, <2>8 DEF RowInv
<1>6. QED  BY <1>4, <1>5

\* A new removal: no fetch has been asked for it.
LEMMA PoofStep ==
  ASSUME RowInv, NEW S \in SUBSET Torrents, Poof(S)
  PROVE  RowInv'
<1> DEFINE n == rowEdits + 1
           b == [NoBatch EXCEPT !.phase = "poofing", !.ids = S]
<1>1. /\ rowEdits < MaxEdits /\ rowEdits' = n
      /\ exiting' = exiting \cup S
      /\ batches' = [batches EXCEPT ![n] = b]
      /\ UNCHANGED <<lane, fetches, hidden, told>>
  BY DEF Poof, Edits
<1>2. n \in 1..MaxEdits /\ rowEdits \in Nat /\ batches \in [1..MaxEdits -> Batch]
  BY <1>1 DEF RowInv, BatchesInv
<1>3. b \in Batch /\ b.phase = "poofing" /\ b.ids = S /\ b.failed = {}
  BY DEF NoBatch, Batch
<1>4. \A m \in 1..MaxEdits : batches'[m] = IF m = n THEN b ELSE batches[m]
  BY <1>1, <1>2
<1>5. batches' \in [1..MaxEdits -> Batch]
  BY <1>1, <1>2, <1>3
<1>6. \A i \in DOMAIN fetches : fetches[i].of # n
  BY <1>1, <1>2 DEF RowInv, BatchesInv
<1>7. HiddenInv'
  BY <1>1, <1>3, <1>4 DEF RowInv, HiddenInv
<1>8. BatchesInv'
  <2>1. \A m \in 1..MaxEdits : m > n =>
          /\ batches'[m].phase = "idle"
          /\ \A i \in DOMAIN fetches : fetches[i].of # m
    BY <1>2, <1>4 DEF RowInv, BatchesInv
  <2>2. \A i \in DOMAIN fetches : fetches[i].of # 0 =>
          /\ fetches[i].of \in 1..MaxEdits
          /\ batches'[fetches[i].of].phase \in {"fetching", "idle"}
    BY <1>4, <1>6 DEF RowInv, BatchesInv
  <2>3. IsList(fetches')
    BY <1>1 DEF RowInv, BatchesInv
  <2>4. QED  BY <1>1, <1>2, <1>3, <1>4, <1>5, <2>1, <2>2, <2>3 DEF RowInv, BatchesInv
<1>9. QED  BY <1>7, <1>8 DEF RowInv

\* The animation is over: the cards were exiting, and are hidden from now on.
LEMMA PoofedStep ==
  ASSUME RowInv, NEW n \in 1..MaxEdits, Poofed(n)
  PROVE  RowInv'
<1> DEFINE b == [batches[n] EXCEPT !.phase = "deleting", !.sent = batches[n].ids]
<1>1. /\ batches[n].phase = "poofing"
      /\ hidden' = hidden \cup batches[n].ids
      /\ batches' = [batches EXCEPT ![n] = b]
      /\ UNCHANGED <<rowEdits, lane, fetches, exiting, told>>
  BY DEF Poofed
<1>2. batches \in [1..MaxEdits -> Batch] /\ batches[n] \in Batch
  BY DEF RowInv, BatchesInv
<1>3. b \in Batch /\ b.phase = "deleting" /\ b.ids = batches[n].ids /\ b.failed = batches[n].failed
  BY <1>2 DEF Batch
<1>4. \A m \in 1..MaxEdits : batches'[m] = IF m = n THEN b ELSE batches[m]
  BY <1>1, <1>2
<1>5. batches' \in [1..MaxEdits -> Batch]
  BY <1>1, <1>2, <1>3
<1>6. HiddenInv'
  BY <1>1, <1>3, <1>4 DEF RowInv, HiddenInv
<1>7. \A i \in DOMAIN fetches : fetches[i].of # n
  BY <1>1 DEF RowInv, BatchesInv
<1>8. ~ (n > rowEdits)
  BY <1>1 DEF RowInv, BatchesInv
<1>9. BatchesInv'
  BY <1>1, <1>3, <1>4, <1>5, <1>7, <1>8 DEF RowInv, BatchesInv, IsList
<1>10. QED  BY <1>6, <1>9 DEF RowInv

\* A deletion is answered.
LEMMA DeleteStep ==
  ASSUME RowInv, "faults" \notin rowLoad, NEW n \in 1..MaxEdits, NEW t, Delete(n, t)
  PROVE  RowInv'
<1> DEFINE b == [batches[n] EXCEPT !.sent = @ \ {t}]
<1>1. /\ batches' = [batches EXCEPT ![n] = b]
      /\ UNCHANGED <<rowEdits, lane, fetches, exiting, hidden, told>>
  BY DEF Delete, Fault
<1>2. batches \in [1..MaxEdits -> Batch] /\ batches[n] \in Batch
  BY DEF RowInv, BatchesInv
<1>3. b \in Batch /\ b.phase = batches[n].phase /\ b.ids = batches[n].ids /\ b.failed = batches[n].failed
  BY <1>2 DEF Batch
<1>4. /\ batches' \in [1..MaxEdits -> Batch]
      /\ \A m \in 1..MaxEdits : /\ batches'[m].phase = batches[m].phase
                                /\ batches'[m].ids = batches[m].ids
                                /\ batches'[m].failed = batches[m].failed
  BY <1>1, <1>2, <1>3
<1>5. HiddenInv'
  BY <1>1, <1>4 DEF RowInv, HiddenInv
<1>6. BatchesInv'
  BY <1>1, <1>4 DEF RowInv, BatchesInv, IsList
<1>7. QED  BY <1>5, <1>6 DEF RowInv

\* All deletions are answered: every card of the removal is hidden.
LEMMA DeletedStep ==
  ASSUME RowInv, NEW n \in 1..MaxEdits, Deleted(n)
  PROVE  RowInv'
<1> DEFINE b == [batches[n] EXCEPT !.phase = "fetching"]
           f == [of |-> n, answered |-> FALSE, view |-> NoView]
<1>1. /\ batches[n].phase = "deleting"
      /\ batches[n].failed = {} /\ batches[n].ids \subseteq hidden
  BY DEF Deleted, RowInv, HiddenInv
<1>2. /\ hidden' = hidden /\ exiting' = exiting
      /\ told' = told \cup batches[n].ids
      /\ batches' = [batches EXCEPT ![n] = b]
      /\ fetches' = Append(fetches, f)
      /\ UNCHANGED <<rowEdits, lane>>
  BY <1>1 DEF Deleted, StillExiting, FetchAll
<1>3. batches \in [1..MaxEdits -> Batch] /\ batches[n] \in Batch
  BY DEF RowInv, BatchesInv
<1>4. b \in Batch /\ b.phase = "fetching" /\ b.ids = batches[n].ids /\ b.failed = {}
  BY <1>1, <1>3 DEF Batch
<1>5. \A m \in 1..MaxEdits : batches'[m] = IF m = n THEN b ELSE batches[m]
  BY <1>2, <1>3
<1>6. batches' \in [1..MaxEdits -> Batch]
  BY <1>2, <1>3, <1>4
<1>7. IsList(fetches) /\ Shaped(f) /\ f.of = n
  BY DEF RowInv, BatchesInv, Shaped
<1>8. IsList(fetches') /\ \A i \in DOMAIN fetches' : fetches'[i] = f \/ \E j \in DOMAIN fetches : fetches'[i] = fetches[j]
  BY <1>2, <1>7, ListSteps
<1>9. ~ (n > rowEdits)
  BY <1>1 DEF RowInv, BatchesInv
<1>10. HiddenInv'
  BY <1>1, <1>2, <1>4, <1>5 DEF RowInv, HiddenInv
<1>11. BatchesInv'
  <2>1. \A i \in DOMAIN fetches' : Shaped(fetches'[i])
    BY <1>7, <1>8 DEF RowInv, BatchesInv
  <2>2. \A m \in 1..MaxEdits : m > rowEdits => \A i \in DOMAIN fetches' : fetches'[i].of # m
    BY <1>7, <1>8, <1>9 DEF RowInv, BatchesInv
  <2>3. \A i \in DOMAIN fetches' : fetches'[i].of # 0 =>
          /\ fetches'[i].of \in 1..MaxEdits
          /\ batches'[fetches'[i].of].phase \in {"fetching", "idle"}
    <3> SUFFICES ASSUME NEW i \in DOMAIN fetches', fetches'[i].of # 0
                 PROVE  /\ fetches'[i].of \in 1..MaxEdits
                        /\ batches'[fetches'[i].of].phase \in {"fetching", "idle"}
      OBVIOUS
    <3>1. CASE fetches'[i] = f
      BY <1>4, <1>5, <1>7, <3>1
    <3>2. CASE \E j \in DOMAIN fetches : fetches'[i] = fetches[j]
      <4>1. PICK j \in DOMAIN fetches : fetches'[i] = fetches[j]
        BY <3>2
      <4>2. /\ fetches[j].of \in 1..MaxEdits
            /\ batches[fetches[j].of].phase \in {"fetching", "idle"}
        BY <4>1 DEF RowInv, BatchesInv
      <4>3. QED  BY <1>4, <1>5, <4>1, <4>2
    <3>3. QED  BY <1>8, <3>1, <3>2
  <2>4. \A m \in 1..MaxEdits : (m > rowEdits => batches'[m].phase = "idle") /\ (batches'[m].phase = "idle" => batches'[m].ids = {})
    BY <1>4, <1>5, <1>9 DEF RowInv, BatchesInv
  <2>5. QED  BY <1>2, <1>6, <1>8, <2>1, <2>2, <2>3, <2>4 DEF RowInv, BatchesInv
<1>12. QED  BY <1>10, <1>11 DEF RowInv

\* Every step keeps the invariant.
LEMMA RowStep ==
  ASSUME RowInv, "faults" \notin rowLoad, [RowNext]_rowVars
  PROVE  RowInv'
<1> USE DEF daemon, drag, removal
<1>0. ~Fault /\ \A view, ids : DOMAIN Positioned(view, ids) = DOMAIN view
  BY DEF Fault, Positioned
<1>1. CASE PollRow
  BY <1>1, AskStep DEF PollRow
<1>2. ASSUME NEW i \in DOMAIN fetches,
             Answer(i) \/ Adopt(i) \/ FetchFails(i)
      PROVE  RowInv'
  BY <1>0, <1>2, AnswerStep, AdoptStep DEF FetchFails
<1>3. ASSUME NEW t \in Torrents, PickUp(t) \/ OtherClient(t)
      PROVE  RowInv'
  BY <1>3, Aside DEF PickUp, OtherClient, Edits
<1>4. ASSUME NEW i \in DOMAIN order, Drop(i) PROVE RowInv'
  BY <1>0, <1>4, Aside DEF Drop
<1>5. CASE CancelDrag
  BY <1>5, Aside DEF CancelDrag
<1>6. ASSUME NEW t \in Torrents, NEW way \in {"up", "down", "top", "bottom"},
             Nudge(t, way)
      PROVE  RowInv'
  BY <1>0, <1>6, Aside DEF Nudge, Edits
<1>7. ASSUME NEW n \in 1..MaxEdits,
             \/ Carry(n) \/ MoveFails(n)
             \/ ReadPositions(n) \/ WritePositions(n)
      PROVE  RowInv'
  BY <1>0, <1>7, Aside DEF Carry, MoveFails, ReadPositions, WritePositions
<1>8. ASSUME NEW n \in 1..MaxEdits, MoveOver(n) PROVE RowInv'
  BY <1>8, AskStep DEF MoveOver
<1>9. ASSUME NEW n \in 1..MaxEdits, Poofed(n) \/ Deleted(n)
      PROVE  RowInv'
  BY <1>9, PoofedStep, DeletedStep
<1>10. ASSUME NEW n \in 1..MaxEdits, NEW t \in Torrents,
              Delete(n, t) \/ DeleteFails(n, t)
       PROVE  RowInv'
  BY <1>0, <1>10, DeleteStep DEF DeleteFails
<1>11. ASSUME NEW S \in SUBSET Torrents, Poof(S) PROVE RowInv'
  BY <1>11, PoofStep
<1>12. CASE TickRead \/ TickWrite
  BY <1>12, Aside DEF TickRead, TickWrite
<1>13. CASE UNCHANGED rowVars
  BY <1>13, Aside DEF rowVars
<1>14. QED
  BY <1>1, <1>2, <1>3, <1>4, <1>5, <1>6, <1>7, <1>8, <1>9, <1>10, <1>11, <1>12, <1>13
     DEF RowNext

\* No poll brings a removed card back: unless a call fails, a card whose deletion
\* is confirmed is gone from the row or still playing its animation, for any
\* cards, removals and fetches in flight, however late these are answered.
THEOREM NoResurrection == RowSpec => []NoFlash
<1> DEFINE Inv == "faults" \notin rowLoad => RowInv
<1>1. RowInit => Inv
  <2> SUFFICES ASSUME RowInit PROVE RowInv
    OBVIOUS
  <2>1. /\ rowEdits = 0 /\ fetches = <<>> /\ told = {} /\ hidden = {} /\ exiting = {}
        /\ batches = [n \in 1..MaxEdits |-> NoBatch]
    BY DEF RowInit
  <2>2. NoBatch = [phase |-> "idle", ids |-> {}, sent |-> {}, failed |-> {}]
    BY DEF NoBatch
  <2>3. batches \in [1..MaxEdits -> Batch]
    BY <2>1, <2>2 DEF Batch
  <2>4. IsList(fetches) /\ DOMAIN fetches = {}
    BY <2>1 DEF IsList
  <2>5. QED  BY <2>1, <2>2, <2>3, <2>4 DEF RowInv, BatchesInv, HiddenInv
<1>2. Inv => NoFlash
  BY DEF NoFlash, RowInv, HiddenInv
<1>3. Inv /\ [RowNext]_rowVars => Inv'
  <2> SUFFICES ASSUME Inv, [RowNext]_rowVars PROVE Inv'
    OBVIOUS
  <2>1. rowLoad' = rowLoad
    BY DEF RowNext, rowVars, PollRow, Answer, Adopt,
           FetchFails, PickUp, OtherClient, Drop,
           CancelDrag, Nudge, Carry, MoveFails,
           ReadPositions, WritePositions, MoveOver,
           Poofed, Deleted, Delete, DeleteFails,
           Poof, TickRead, TickWrite
  <2>2. QED  BY <2>1, RowStep
<1>4. QED  BY <1>1, <1>2, <1>3, PTL DEF RowSpec

(***************************************************************************)
(* Where a dropped card lands.                                             *)
(***************************************************************************)

HIDE DownloadsAssumption

\* Positions of some of the torrents.
SomeView == UNION {[S -> Nat \cup {NoCard}] : S \in SUBSET Torrents}

\* A sequence of torrents in which each occurs once.
Once(s) == s \in Seq(Torrents) /\ IsInjective(s)

MoveType == [phase : {"idle", "sent", "moved", "read", "over"}, id : Torrents \cup {NoCard},
             way : {"to", "up", "down", "top", "bottom"}, to : Nat, ids : Seq(Torrents),
             before : Seq(Torrents), seen : SomeView, snap : SomeView]
FetchType == [of : 0..MaxEdits, answered : BOOLEAN, view : SomeView]

\* What a drop sends is computed from the cards as the page shows them.
FromDrop(m) ==
  m.phase = "sent" /\ m.way = "to" =>
    /\ Once(m.ids) /\ Contains(m.ids, m.id)
    /\ m.to = DropPosition(m.seen, m.ids, At(m.ids, m.id))

DragInv ==
  /\ Once(order) /\ (order # <<>> => Contains(order, held))
  /\ held \in Torrents \cup {NoCard}
ViewsInv ==
  /\ filter \subseteq Torrents
  /\ positions \in SomeView /\ lane \in SomeView
  /\ tick \in [on : BOOLEAN, snap : SomeView]
FetchesInv == fetches \in Seq(FetchType)
MovesInv ==
  /\ moves \in [1..MaxEdits -> MoveType]
  /\ \A n \in 1..MaxEdits : FromDrop(moves[n])

DropInv == Once(queue) /\ DragInv /\ ViewsInv /\ FetchesInv /\ MovesInv

-----------------------------------------------------------------------------
(* Lists of torrents. *)

\* A list in which each torrent occurs once.
LEMMA OnceFacts ==
  ASSUME NEW s, Once(s)
  PROVE  /\ s \in Seq(Torrents) /\ Len(s) \in Nat /\ DOMAIN s = 1..Len(s)
         /\ \A i \in 1..Len(s) : s[i] \in Torrents
         /\ \A i, j \in 1..Len(s) : s[i] = s[j] => i = j
BY DEF Once, IsInjective

\* Where a torrent is that occurs once.
LEMMA Found ==
  ASSUME NEW s, Once(s), NEW i \in 1..Len(s)
  PROVE  At(s, s[i]) = i
BY OnceFacts DEF At

\* What is left when the f-th is taken out.
LEMMA Removed ==
  ASSUME NEW s, Once(s), NEW f \in 1..Len(s)
  PROVE  /\ RemoveAt(s, f) \in Seq(Torrents) /\ Len(RemoveAt(s, f)) = Len(s) - 1
         /\ \A j \in 1..Len(s) - 1 : RemoveAt(s, f)[j] = IF j < f THEN s[j] ELSE s[j + 1]
         /\ Once(RemoveAt(s, f))
<1>1. s \in Seq(Torrents) /\ Len(s) \in Nat /\ f \in Nat
  BY OnceFacts
<1> DEFINE a == SubSeq(s, 1, f - 1)
           b == SubSeq(s, f + 1, Len(s))
<1>2. a \in Seq(Torrents) /\ Len(a) = f - 1 /\ \A j \in 1..f - 1 : a[j] = s[j]
  <2>1. \A j \in 1..f - 1 : s[j] \in Torrents
    BY <1>1
  <2>2. 1 \in Int /\ f - 1 \in Int /\ 1..f - 1 \subseteq 1..Len(s)
    BY <1>1
  <2>3. QED  BY <1>1, <2>1, <2>2
<1>3. b \in Seq(Torrents) /\ Len(b) = Len(s) - f /\ \A j \in 1..Len(s) - f : b[j] = s[f + j]
  <2>1. \A j \in f + 1..Len(s) : s[j] \in Torrents
    BY <1>1
  <2>2. f + 1 \in Int /\ Len(s) \in Int
    BY <1>1
  <2>3. QED  BY <1>1, <2>1, <2>2
<1>4. RemoveAt(s, f) = a \o b
  BY DEF RemoveAt
<1> HIDE DEF a, b
<1>5. /\ a \o b \in Seq(Torrents) /\ Len(a \o b) = Len(s) - 1
      /\ \A j \in 1..Len(s) - 1 : (a \o b)[j] = IF j < f THEN s[j] ELSE s[j + 1]
  <2>1. /\ a \o b \in Seq(Torrents) /\ Len(a \o b) = Len(a) + Len(b)
        /\ \A j \in 1..Len(a) + Len(b) : (a \o b)[j] = IF j <= Len(a) THEN a[j] ELSE b[j - Len(a)]
    BY <1>2, <1>3, ConcatProperties
  <2>2. ASSUME NEW j \in 1..Len(s) - 1
        PROVE  (a \o b)[j] = IF j < f THEN s[j] ELSE s[j + 1]
    <3>1. CASE j < f
      <4>1. j \in 1..f - 1 /\ j <= Len(a) /\ j \in 1..Len(a) + Len(b)
        BY <1>1, <1>2, <1>3, <3>1
      <4>2. QED  BY <2>1, <1>2, <3>1, <4>1
    <3>2. CASE ~(j < f)
      <4>1. j - (f - 1) \in 1..Len(s) - f /\ ~(j <= Len(a)) /\ j \in 1..Len(a) + Len(b) /\ f + (j - (f - 1)) = j + 1
        BY <1>1, <1>2, <1>3, <3>2
      <4>2. b[j - (f - 1)] = s[j + 1]
        BY <1>3, <4>1
      <4>3. QED  BY <2>1, <1>2, <3>2, <4>1, <4>2
    <3>3. QED  BY <3>1, <3>2
  <2>3. QED  BY <1>1, <1>2, <1>3, <2>1, <2>2
<1>6. IsInjective(a \o b)
  <2>1. DOMAIN (a \o b) = 1..Len(s) - 1
    BY <1>5
  <2> SUFFICES ASSUME NEW i \in 1..Len(s) - 1, NEW j \in 1..Len(s) - 1, (a \o b)[i] = (a \o b)[j]
               PROVE  i = j
    BY <2>1 DEF IsInjective
  <2>2. i \in 1..Len(s) /\ i + 1 \in 1..Len(s) /\ j \in 1..Len(s) /\ j + 1 \in 1..Len(s)
    BY <1>1
  <2>3. i \in Nat /\ j \in Nat /\ \A k, l \in 1..Len(s) : s[k] = s[l] => k = l
    BY <1>1, OnceFacts
  <2>4. (i < f => (a \o b)[i] = s[i]) /\ (~(i < f) => (a \o b)[i] = s[i + 1])
    BY <1>5
  <2>5. (j < f => (a \o b)[j] = s[j]) /\ (~(j < f) => (a \o b)[j] = s[j + 1])
    BY <1>5
  <2>6. CASE i < f /\ j < f
    BY <2>2, <2>3, <2>4, <2>5, <2>6
  <2>10. CASE ~(i < f) /\ ~(j < f)
    <3>1. i + 1 = j + 1
      BY <2>2, <2>3, <2>4, <2>5, <2>10
    <3>2. QED  BY <2>3, <3>1
  <2>7. CASE i < f /\ ~(j < f)
    <3>1. i = j + 1
      BY <2>2, <2>3, <2>4, <2>5, <2>7
    <3>2. QED  BY <1>1, <2>3, <2>7, <3>1
  <2>8. CASE ~(i < f) /\ j < f
    <3>1. i + 1 = j
      BY <2>2, <2>3, <2>4, <2>5, <2>8
    <3>2. QED  BY <1>1, <2>3, <2>8, <3>1
  <2>9. QED  BY <2>6, <2>7, <2>8, <2>10
<1>7. QED  BY <1>4, <1>5, <1>6 DEF Once

\* A torrent is put at t.
LEMMA Inserted ==
  ASSUME NEW s, Once(s), NEW t \in 1..Len(s) + 1, NEW x \in Torrents,
         \A i \in 1..Len(s) : s[i] # x
  PROVE  /\ Once(InsertAt(s, t, x)) /\ Len(InsertAt(s, t, x)) = Len(s) + 1
         /\ InsertAt(s, t, x)[t] = x
         /\ \A j \in 1..Len(s) : InsertAt(s, t, x)[IF j < t THEN j ELSE j + 1] = s[j]
<1>1. s \in Seq(Torrents) /\ Len(s) \in Nat /\ t \in Nat
  BY OnceFacts
<1> DEFINE a == SubSeq(s, 1, t - 1)
           b == SubSeq(s, t, Len(s))
           c == a \o <<x>>
           n == InsertAt(s, t, x)
<1>2. a \in Seq(Torrents) /\ Len(a) = t - 1 /\ \A j \in 1..t - 1 : a[j] = s[j]
  <2>1. \A j \in 1..t - 1 : s[j] \in Torrents
    BY <1>1
  <2>2. 1 \in Int /\ t - 1 \in Int
    BY <1>1
  <2>3. QED  BY <1>1, <2>1, <2>2
<1>3. b \in Seq(Torrents) /\ Len(b) = Len(s) - t + 1 /\ \A j \in 1..Len(s) - t + 1 : b[j] = s[t - 1 + j]
  <2>1. \A j \in t..Len(s) : s[j] \in Torrents
    BY <1>1
  <2>2. t \in Int /\ Len(s) \in Int
    BY <1>1
  <2>3. QED  BY <1>1, <2>1, <2>2
<1>4. n = c \o b
  BY DEF InsertAt
<1> HIDE DEF a, b, n
<1>5. c \in Seq(Torrents) /\ Len(c) = t /\ c[t] = x /\ \A j \in 1..t - 1 : c[j] = s[j]
  <2>1. <<x>> \in Seq(Torrents) /\ Len(<<x>>) = 1 /\ <<x>>[1] = x
    OBVIOUS
  <2>2. /\ c \in Seq(Torrents) /\ Len(c) = Len(a) + 1
        /\ \A j \in 1..Len(a) + 1 : c[j] = IF j <= Len(a) THEN a[j] ELSE <<x>>[j - Len(a)]
    BY <1>2, <2>1, ConcatProperties
  <2>3. t \in 1..Len(a) + 1 /\ ~(t <= Len(a)) /\ t - Len(a) = 1 /\ Len(a) + 1 = t
    BY <1>1, <1>2
  <2>4. c[t] = x
    BY <2>1, <2>2, <2>3
  <2>5. \A j \in 1..t - 1 : j \in 1..Len(a) + 1 /\ j <= Len(a)
    BY <1>1, <1>2
  <2>6. QED  BY <1>2, <2>2, <2>3, <2>4, <2>5
<1> HIDE DEF c
<1>6. /\ n \in Seq(Torrents) /\ Len(n) = Len(s) + 1
      /\ \A j \in 1..Len(s) + 1 : n[j] = IF j < t THEN s[j] ELSE IF j = t THEN x ELSE s[j - 1]
  <2>0. /\ c \o b \in Seq(Torrents) /\ Len(c \o b) = Len(c) + Len(b)
        /\ \A j \in 1..Len(c) + Len(b) : (c \o b)[j] = IF j <= Len(c) THEN c[j] ELSE b[j - Len(c)]
    <3>1. c \in Seq(Torrents) /\ b \in Seq(Torrents)
      BY <1>3, <1>5
    <3>2. QED  BY <3>1, ConcatProperties
  <2>1. /\ n \in Seq(Torrents) /\ Len(n) = Len(c) + Len(b)
        /\ \A j \in 1..Len(c) + Len(b) : n[j] = IF j <= Len(c) THEN c[j] ELSE b[j - Len(c)]
    BY <2>0, <1>4
  <2>2. Len(c) + Len(b) = Len(s) + 1
    BY <1>1, <1>3, <1>5
  <2>3. ASSUME NEW j \in 1..Len(s) + 1
        PROVE  n[j] = IF j < t THEN s[j] ELSE IF j = t THEN x ELSE s[j - 1]
    <3>1. CASE j < t
      <4>1. j \in 1..t - 1 /\ j <= Len(c) /\ j \in 1..Len(c) + Len(b)
        BY <1>1, <1>5, <2>2, <3>1
      <4>2. n[j] = c[j] /\ c[j] = s[j]
        BY <1>5, <2>1, <4>1
      <4>3. QED  BY <3>1, <4>2
    <3>2. CASE j = t
      BY <1>1, <1>5, <2>1, <2>2, <3>2
    <3>3. CASE j > t
      <4>1. j - t \in 1..Len(s) - t + 1 /\ ~(j <= Len(c)) /\ t - 1 + (j - t) = j - 1
        BY <1>1, <1>5, <3>3
      <4>2. b[j - t] = s[j - 1]
        BY <1>3, <4>1
      <4>3. QED  BY <1>1, <1>5, <2>1, <2>2, <3>3, <4>1, <4>2
    <3>4. QED  BY <1>1, <3>1, <3>2, <3>3
  <2>4. QED  BY <2>1, <2>2, <2>3
<1>7. IsInjective(n)
  <2>1. DOMAIN n = 1..Len(s) + 1
    BY <1>6
  <2> SUFFICES ASSUME NEW i \in 1..Len(s) + 1, NEW j \in 1..Len(s) + 1, n[i] = n[j]
               PROVE  i = j
    BY <2>1 DEF IsInjective
  <2>2. \A k \in 1..Len(s) + 1 : (k < t => k \in 1..Len(s)) /\ (k > t => k - 1 \in 1..Len(s))
    BY <1>1
  <2>3. \A k, l \in 1..Len(s) : s[k] = s[l] => k = l
    BY OnceFacts
  <2>4. \A k \in {i, j} : /\ k < t => n[k] = s[k]
                          /\ k = t => n[k] = x
                          /\ k > t => n[k] = s[k - 1]
    <3> SUFFICES ASSUME NEW k \in 1..Len(s) + 1
                 PROVE  /\ k < t => n[k] = s[k]
                        /\ k = t => n[k] = x
                        /\ k > t => n[k] = s[k - 1]
      OBVIOUS
    <3>1. n[k] = IF k < t THEN s[k] ELSE IF k = t THEN x ELSE s[k - 1]
      BY <1>6
    <3>2. k > t => ~(k < t) /\ k # t
      BY <1>1
    <3>3. k = t => ~(k < t)
      BY <1>1
    <3>4. QED  BY <3>1, <3>2, <3>3
  <2>5. i \in Nat /\ j \in Nat
    BY <1>1
  <2>6. CASE i = t \/ j = t
    <3>1. n[i] = x /\ n[j] = x
      BY <2>4, <2>6, <1>1
    <3>2. i < t => s[i] # x
      BY <2>2
    <3>3. i > t => s[i - 1] # x
      BY <2>2
    <3>4. j < t => s[j] # x
      BY <2>2
    <3>5. j > t => s[j - 1] # x
      BY <2>2
    <3>6. QED  BY <1>1, <2>4, <2>5, <2>6, <3>1, <3>2, <3>3, <3>4, <3>5
  <2>7. CASE i < t /\ j < t
    BY <2>2, <2>3, <2>4, <2>7, <1>1
  <2>8. CASE i > t /\ j > t
    <3>1. s[i - 1] = s[j - 1]
      BY <1>1, <2>4, <2>5, <2>8
    <3>2. i - 1 = j - 1
      BY <2>2, <2>3, <2>8, <3>1
    <3>3. QED  BY <2>5, <3>2
  <2>9. CASE i < t /\ j > t
    <3>1. n[i] = s[i] /\ n[j] = s[j - 1]
      BY <2>4, <2>9, Zenon
    <3>2. i = j - 1
      BY <2>2, <2>3, <2>9, <3>1
    <3>3. QED  BY <1>1, <2>5, <2>9, <3>2
  <2>10. CASE i > t /\ j < t
    <3>1. n[i] = s[i - 1] /\ n[j] = s[j]
      BY <2>4, <2>10, Zenon
    <3>2. i - 1 = j
      BY <2>2, <2>3, <2>10, <3>1
    <3>3. QED  BY <1>1, <2>5, <2>10, <3>2
  <2>11. QED  BY <1>1, <2>5, <2>6, <2>7, <2>8, <2>9, <2>10
<1>8. n[t] = x
  BY <1>1, <1>6
<1>9. ASSUME NEW j \in 1..Len(s)
      PROVE  n[IF j < t THEN j ELSE j + 1] = s[j]
  BY <1>1, <1>6
<1>10. QED  BY <1>6, <1>7, <1>8, <1>9 DEF Once, n

-----------------------------------------------------------------------------
(* The row is sorted: torrents differ in their keys or in their numbers. *)
USE DownloadsAssumption

\* Torrents of a view have keys to sort them by, and numbers to break ties.
LEMMA ViewFacts ==
  ASSUME NEW view \in SomeView
  PROVE  /\ DOMAIN view \subseteq Torrents /\ IsFiniteSet(DOMAIN view)
         /\ \A t \in DOMAIN view : view[t] \in Nat \cup {NoCard} /\ Key(view, t) \in Nat /\ t \in Nat
<1>1. PICK S \in SUBSET Torrents : view \in [S -> Nat \cup {NoCard}]
  BY DEF SomeView
<1>2. IsFiniteSet(S) /\ DOMAIN view = S
  BY <1>1, FS_Subset
<1>3. Cardinality(Torrents) \in Nat
  BY FS_CardinalityType
<1>4. QED  BY <1>1, <1>2, <1>3 DEF Key

\* How many cards come before a card tells cards apart, and puts them in order.
LEMMA SortedExists ==
  ASSUME NEW view \in SomeView
  PROVE  \E ids \in SetToSeqs(DOMAIN view) :
           \A i, j \in DOMAIN ids : i < j => Precedes(view, ids[i], ids[j])
<1> DEFINE D == DOMAIN view
           n == Cardinality(D)
           below(t) == {s \in D : Precedes(view, s, t)}
           rank == [t \in D |-> Cardinality(below(t)) + 1]
<1>1. IsFiniteSet(D) /\ n \in Nat
  BY ViewFacts, FS_CardinalityType
<1>2. \A s \in D : ~Precedes(view, s, s)
  BY ViewFacts DEF Precedes
<1>3. \A s, t \in D : s # t => Precedes(view, s, t) \/ Precedes(view, t, s)
  BY ViewFacts DEF Precedes
<1>4. \A s, t, u \in D : Precedes(view, s, t) /\ Precedes(view, t, u) => Precedes(view, s, u)
  BY ViewFacts DEF Precedes
<1>5. \A t \in D : IsFiniteSet(below(t)) /\ Cardinality(below(t)) \in Nat
  BY <1>1, FS_Subset, FS_CardinalityType
<1>6. ASSUME NEW t \in D
      PROVE  Cardinality(below(t)) < n
  <2>1. below(t) \in SUBSET D /\ below(t) # D
    BY <1>2
  <2>2. Cardinality(below(t)) <= n /\ Cardinality(below(t)) # n
    BY <1>1, <2>1, FS_Subset
  <2>3. QED  BY <1>1, <1>5, <2>2
<1>7. ASSUME NEW s \in D, NEW t \in D, Precedes(view, s, t)
      PROVE  rank[s] < rank[t]
  <2>1. below(s) \in SUBSET below(t)
    BY <1>4, <1>7
  <2>2. s \in below(t) /\ s \notin below(s)
    BY <1>2, <1>7
  <2>3. Cardinality(below(s)) <= Cardinality(below(t)) /\ Cardinality(below(s)) # Cardinality(below(t))
    BY <1>5, <2>1, <2>2, FS_Subset
  <2>4. QED  BY <1>5, <2>3
<1>8. rank \in [D -> 1..n]
  <2>1. ASSUME NEW t \in D
        PROVE  Cardinality(below(t)) + 1 \in 1..n
    <3>1. PICK c : c = Cardinality(below(t))
      OBVIOUS
    <3>2. c \in Nat /\ c < n
      BY <1>5, <1>6, <3>1
    <3>3. c + 1 \in 1..n
      BY <1>1, <3>2
    <3>4. QED  BY <3>1, <3>3
  <2>2. QED  BY <2>1
<1> HIDE DEF rank, below
<1>9. \A s, t \in D : rank[s] = rank[t] => s = t
  <2> SUFFICES ASSUME NEW s \in D, NEW t \in D, s # t
               PROVE  rank[s] # rank[t]
    OBVIOUS
  <2>1. rank[s] \in Nat /\ rank[t] \in Nat
    BY <1>1, <1>8
  <2>2. rank[s] < rank[t] \/ rank[t] < rank[s]
    BY <1>3, <1>7
  <2>3. QED  BY <2>1, <2>2
<1>10. \A i \in 1..n : \E t \in D : rank[t] = i
  <2>1. IsFiniteSet(1..n) /\ Cardinality(1..n) = n
    BY <1>1, FS_Interval
  <2>2. rank \in Injection(D, 1..n)
    BY <1>8, <1>9 DEF Injection, IsInjective
  <2>3. rank \in Surjection(D, 1..n)
    BY <2>1, <2>2, FS_Injection
  <2>4. QED  BY <2>3 DEF Surjection
<1> DEFINE ids == [i \in 1..n |-> CHOOSE t \in D : rank[t] = i]
<1>11. ids \in [1..n -> D] /\ \A i \in 1..n : rank[ids[i]] = i
  BY <1>10
<1> HIDE DEF ids
<1>12. ids \in SetToSeqs(D)
  BY <1>11 DEF SetToSeqs
<1>13. ASSUME NEW i \in 1..n, NEW j \in 1..n, i < j
       PROVE  Precedes(view, ids[i], ids[j])
  <2>1. ids[i] \in D /\ ids[j] \in D /\ ids[i] # ids[j]
    BY <1>1, <1>11, <1>13
  <2>2. ~Precedes(view, ids[j], ids[i])
    <3>1. SUFFICES ASSUME Precedes(view, ids[j], ids[i]) PROVE FALSE
      OBVIOUS
    <3>2. j < i
      BY <1>7, <1>11, <2>1, <3>1
    <3>3. QED  BY <1>1, <1>13, <3>2
  <2>3. QED  BY <1>3, <2>1, <2>2
<1>14. QED
  BY <1>11, <1>12, <1>13

\* sortTorrents drops and doubles no card.
LEMMA SortedOnce ==
  ASSUME NEW view \in SomeView
  PROVE  Once(Sorted(view)) /\ \A i \in 1..Len(Sorted(view)) : Sorted(view)[i] \in DOMAIN view
<1> DEFINE n == Cardinality(DOMAIN view)
<1>1. Sorted(view) \in SetToSeqs(DOMAIN view)
  BY SortedExists DEF Sorted
<1>2. n \in Nat /\ DOMAIN view \subseteq Torrents
  BY ViewFacts, FS_CardinalityType
<1>3. PICK ids : ids = Sorted(view)
  OBVIOUS
<1>4. /\ ids \in [1..n -> DOMAIN view]
      /\ \A i, j \in 1..n : i # j => ids[i] # ids[j]
  BY <1>1, <1>3 DEF SetToSeqs
<1>5. ids \in Seq(Torrents) /\ Len(ids) = n
  BY <1>2, <1>4
<1>6. IsInjective(ids)
  BY <1>4 DEF IsInjective
<1>7. QED  BY <1>3, <1>4, <1>5, <1>6 DEF Once

-----------------------------------------------------------------------------
(* Moves. *)

\* Where the j-th goes when the one at f is put at t.
Goes(f, t, j) ==
  LET k == IF j < f THEN j ELSE j - 1
  IN IF k < t THEN k ELSE k + 1

\* moveId puts a card in its slot and keeps the order of the others.
LEMMA MovedOnce ==
  ASSUME NEW s, Once(s), NEW f \in 1..Len(s), NEW t \in 1..Len(s)
  PROVE  /\ Once(Moved(s, f, t)) /\ Len(Moved(s, f, t)) = Len(s)
         /\ Moved(s, f, t)[t] = s[f]
         /\ \A j \in 1..Len(s) : j # f =>
              Goes(f, t, j) \in 1..Len(s) /\ Moved(s, f, t)[Goes(f, t, j)] = s[j]
<1> DEFINE r == RemoveAt(s, f)
<1>1. Len(s) \in Nat /\ f \in Nat /\ t \in Nat /\ s[f] \in Torrents
  BY OnceFacts
<1>2. /\ Once(r) /\ Len(r) = Len(s) - 1
      /\ \A j \in 1..Len(s) - 1 : r[j] = IF j < f THEN s[j] ELSE s[j + 1]
  BY Removed
<1>3. Moved(s, f, t) = InsertAt(r, t, s[f])
  BY DEF Moved
<1> HIDE DEF r
<1>4. ASSUME NEW j \in 1..Len(r)
      PROVE  r[j] # s[f]
  <2>1. j \in Nat /\ j \in 1..Len(s) - 1 /\ j \in 1..Len(s) /\ j + 1 \in 1..Len(s)
    BY <1>1, <1>2
  <2>2. (j < f => r[j] = s[j]) /\ (~(j < f) => r[j] = s[j + 1])
    BY <1>2, <2>1
  <2>3. (j < f => j # f) /\ (~(j < f) => j + 1 # f)
    BY <1>1, <2>1
  <2>4. \A k \in 1..Len(s) : s[k] = s[f] => k = f
    BY OnceFacts
  <2>5. QED  BY <2>1, <2>2, <2>3, <2>4
<1>5. t \in 1..Len(r) + 1
  BY <1>1, <1>2
<1> DEFINE m == InsertAt(r, t, s[f])
<1>6. /\ Once(m) /\ Len(m) = Len(r) + 1 /\ m[t] = s[f]
      /\ \A j \in 1..Len(r) : m[IF j < t THEN j ELSE j + 1] = r[j]
  <2>1. PICK x \in Torrents : x = s[f]
    BY <1>1
  <2>2. Once(r) /\ \A j \in 1..Len(r) : r[j] # x
    BY <1>2, <1>4, <2>1
  <2>3. /\ Once(InsertAt(r, t, x)) /\ Len(InsertAt(r, t, x)) = Len(r) + 1
        /\ InsertAt(r, t, x)[t] = x
        /\ \A j \in 1..Len(r) : InsertAt(r, t, x)[IF j < t THEN j ELSE j + 1] = r[j]
    BY <1>5, <2>2, Inserted
  <2>4. QED  BY <2>1, <2>3
<1> HIDE DEF m
<1>7. ASSUME NEW j \in 1..Len(s), j # f
      PROVE  Goes(f, t, j) \in 1..Len(s) /\ m[Goes(f, t, j)] = s[j]
  <2>1. PICK k : k = IF j < f THEN j ELSE j - 1
    OBVIOUS
  <2>2. k \in 1..Len(s) - 1 /\ k \in 1..Len(r) /\ k \in Nat
    BY <1>1, <1>2, <1>7, <2>1
  <2>3. r[k] = s[j]
    <3>1. r[k] = IF k < f THEN s[k] ELSE s[k + 1]
      BY <1>2, <2>2
    <3>2. CASE j < f
      BY <2>1, <3>1, <3>2
    <3>3. CASE ~(j < f)
      <4>1. k = j - 1 /\ ~(k < f) /\ k + 1 = j
        BY <1>1, <1>7, <2>1, <3>3
      <4>2. QED  BY <3>1, <4>1
    <3>4. QED  BY <3>2, <3>3
  <2>4. Goes(f, t, j) = IF k < t THEN k ELSE k + 1
    BY <2>1 DEF Goes
  <2>5. m[IF k < t THEN k ELSE k + 1] = r[k]
    BY <1>6, <2>2
  <2>6. (IF k < t THEN k ELSE k + 1) \in 1..Len(s)
    BY <1>1, <2>2
  <2>7. QED  BY <2>3, <2>4, <2>5, <2>6
<1>8. QED
  BY <1>1, <1>2, <1>3, <1>6, <1>7 DEF m

\* A torrent that occurs once is removed where it is.
LEMMA FirstRemoved ==
  ASSUME NEW q, Once(q), NEW p \in 1..Len(q)
  PROVE  RemoveFirst(q, q[p]) = RemoveAt(q, p)
<1>1. \A i \in 1..Len(q) : q[i] = q[p] => i = p
  BY OnceFacts
<1>2. {i \in 1..Len(q) : q[i] = q[p]} = {p}
  BY <1>1
<1>3. Min({p}) = p
  BY OnceFacts DEF Min
<1>4. SelectInSeq(q, LAMBDA v : v = q[p]) = p
  BY <1>2, <1>3 DEF SelectInSeq
<1>5. QED  BY <1>4 DEF RemoveFirst

\* Transmission puts a torrent of its queue at a position of it.
LEMMA PlacedIsMoved ==
  ASSUME NEW q, Once(q), NEW p \in 1..Len(q), NEW dest \in Nat
  PROVE  LET k == IF dest < Len(q) - 1 THEN dest + 1 ELSE Len(q) IN
         k \in 1..Len(q) /\ Placed(q, q[p], dest) = Moved(q, p, k)
<1>1. Len(q) \in Nat
  BY OnceFacts
<1>2. RemoveFirst(q, q[p]) = RemoveAt(q, p) /\ Len(RemoveAt(q, p)) = Len(q) - 1
  BY FirstRemoved, Removed
<1>3. (IF dest < Len(q) - 1 THEN dest + 1 ELSE Len(q)) \in 1..Len(q)
  BY <1>1
<1>4. QED  BY <1>2, <1>3 DEF Placed, Moved

\* The positions of a queue.
LEMMA ViewOf ==
  ASSUME NEW q, Once(q)
  PROVE  /\ View(q) \in SomeView /\ DOMAIN View(q) = ToSet(q)
         /\ \A i \in 1..Len(q) : View(q)[q[i]] = i - 1
<1>1. \A i \in 1..Len(q) : q[i] \in ToSet(q) /\ At(q, q[i]) = i
  BY OnceFacts, Found DEF ToSet
<1>2. ToSet(q) \subseteq Torrents /\ \A t \in ToSet(q) : \E i \in 1..Len(q) : t = q[i]
  BY OnceFacts DEF ToSet
<1>3. View(q) = [t \in ToSet(q) |-> At(q, t) - 1]
  BY DEF View, At
<1>4. \A t \in ToSet(q) : At(q, t) - 1 \in Nat
  BY <1>1, <1>2
<1>5. View(q) \in [ToSet(q) -> Nat \cup {NoCard}]
  BY <1>3, <1>4
<1>6. QED  BY <1>1, <1>2, <1>3, <1>5 DEF SomeView

\* Transmission drops and doubles no torrent.
LEMMA PlacedOnce ==
  ASSUME NEW q, Once(q), NEW t, Contains(q, t), NEW dest \in Nat
  PROVE  Once(Placed(q, t, dest))
<1>1. PICK p \in 1..Len(q) : q[p] = t
  BY DEF Contains
<1>2. QED  BY <1>1, PlacedIsMoved, MovedOnce

\* A position is sent, whether the page knows any or not.
LEMMA DropPositionType ==
  ASSUME NEW view \in SomeView, NEW ids, Once(ids), NEW i \in 1..Len(ids)
  PROVE  DropPosition(view, ids, i) \in Nat
<1>1. i \in Nat /\ Len(ids) \in Nat
  BY OnceFacts
<1>2. \A t \in DOMAIN view : view[t] \in Nat \cup {NoCard}
  BY ViewFacts
<1>3. PICK prev : prev = ids[i - 1]
  OBVIOUS
<1>4. PICK pos : pos = IF prev \in DOMAIN view /\ view[prev] # NoCard THEN view[prev] ELSE i - 2
  OBVIOUS
<1>5. CASE i = 1
  BY <1>5 DEF DropPosition
<1>6. CASE i # 1
  <2>1. pos \in Nat
    BY <1>1, <1>2, <1>4, <1>6
  <2>2. DropPosition(view, ids, i) \in {pos, pos + 1}
    BY <1>3, <1>4, <1>6 DEF DropPosition
  <2>3. QED  BY <2>1, <2>2
<1>7. QED  BY <1>5, <1>6

\* A page that knows Transmission's positions names the one behind the card
\* before the slot, from whichever side the dragged card comes.
LEMMA Lands ==
  ASSUME NEW q, Once(q), NEW ids, Once(ids), NEW i \in 1..Len(ids), Contains(q, ids[i]),
         NEW seen, seen = Within(View(q), DOMAIN seen), ToSet(ids) \subseteq DOMAIN seen,
         NEW dest, dest = DropPosition(seen, ids, i)
  PROVE  LET now == View(Placed(q, ids[i], dest))
         IN  now[ids[i]] = IF i = 1 THEN 0 ELSE now[ids[i - 1]] + 1
<1>1. i \in Nat /\ Len(ids) \in Nat /\ Len(q) \in Nat
  BY OnceFacts
<1>2. PICK p \in 1..Len(q) : q[p] = ids[i]
  BY DEF Contains
<1>3. \A t \in DOMAIN seen : t \in ToSet(q) /\ seen[t] = View(q)[t]
  BY ViewOf DEF Within
<1>4. seen[ids[i]] = p - 1 /\ ids[i] \in DOMAIN seen
  <2>1. ids[i] \in ToSet(ids)
    BY OnceFacts DEF ToSet
  <2>2. QED  BY <1>2, <1>3, <2>1, ViewOf
<1>5. dest \in Nat => LET k == IF dest < Len(q) - 1 THEN dest + 1 ELSE Len(q)
                    IN  k \in 1..Len(q) /\ Placed(q, ids[i], dest) = Moved(q, p, k)
  BY <1>2, PlacedIsMoved
<1>6. CASE i = 1
  <2>1. dest = 0
    BY <1>6 DEF DropPosition
  <2>2. 1 \in 1..Len(q) /\ Placed(q, ids[i], dest) = Moved(q, p, 1)
    BY <1>1, <1>5, <2>1
  <2>3. PICK r : r = Moved(q, p, 1)
    OBVIOUS
  <2>4. Once(r) /\ Len(r) = Len(q) /\ r[1] = ids[i]
    BY <1>2, <2>2, <2>3, MovedOnce
  <2>5. View(r)[r[1]] = 0
    BY <2>2, <2>4, ViewOf
  <2>6. QED  BY <1>6, <2>2, <2>3, <2>4, <2>5
<1>7. CASE i # 1
  <2>1. i - 1 \in 1..Len(ids) /\ ids[i - 1] # ids[i]
    <3>1. i - 1 \in 1..Len(ids) /\ i - 1 # i
      BY <1>1, <1>7
    <3>2. QED  BY <3>1, OnceFacts
  <2>2. ids[i - 1] \in DOMAIN seen
    BY <2>1, OnceFacts DEF ToSet
  <2>3. PICK a \in 1..Len(q) : q[a] = ids[i - 1]
    BY <1>3, <2>2, OnceFacts DEF ToSet
  <2>4. seen[ids[i - 1]] = a - 1 /\ a - 1 \in Nat /\ p - 1 \in Nat /\ a # p
    <3>1. View(q)[q[a]] = a - 1
      BY ViewOf
    <3>2. seen[ids[i - 1]] = View(q)[q[a]]
      BY <1>3, <2>2, <2>3
    <3>3. a # p
      BY <1>2, <2>1, <2>3
    <3>4. a - 1 \in Nat /\ p - 1 \in Nat
      BY <1>1
    <3>5. QED  BY <3>1, <3>2, <3>3, <3>4
  <2>5. seen[ids[i - 1]] # NoCard /\ seen[ids[i]] # NoCard
    BY <1>4, <2>4
  <2>6. dest = IF p - 1 < a - 1 THEN a - 1 ELSE (a - 1) + 1
    BY <1>4, <1>7, <2>2, <2>4, <2>5 DEF DropPosition
  <2>7. dest \in Nat
    BY <2>4, <2>6
  <2>8. PICK k : k = IF dest < Len(q) - 1 THEN dest + 1 ELSE Len(q)
    OBVIOUS
  <2>9. k = IF p < a THEN a ELSE a + 1
    <3>1. CASE p < a
      BY <1>1, <2>4, <2>6, <2>8, <3>1
    <3>2. CASE a < p
      <4>1. dest = a /\ a <= Len(q) - 1
        BY <1>1, <2>4, <2>6, <3>2
      <4>2. QED  BY <1>1, <2>8, <3>2, <4>1
    <3>3. QED  BY <1>1, <2>4, <3>1, <3>2
  <2>10. Goes(p, k, a) = k - 1
    <3>1. CASE p < a
      BY <1>1, <2>4, <2>9, <3>1 DEF Goes
    <3>2. CASE a < p
      BY <1>1, <2>4, <2>9, <3>2 DEF Goes
    <3>3. QED  BY <1>1, <2>4, <3>1, <3>2
  <2>11. PICK r : r = Moved(q, p, k)
    OBVIOUS
  <2>12. k \in 1..Len(q) /\ Placed(q, ids[i], dest) = r
    BY <1>5, <2>7, <2>8, <2>11
  <2>13. /\ Once(r) /\ Len(r) = Len(q) /\ r[k] = ids[i]
         /\ Goes(p, k, a) \in 1..Len(q) /\ r[Goes(p, k, a)] = ids[i - 1]
    BY <1>2, <2>3, <2>4, <2>11, <2>12, MovedOnce
  <2>14. View(r)[ids[i]] = k - 1 /\ View(r)[ids[i - 1]] = (k - 1) - 1
    <3>1. \A n \in 1..Len(r) : View(r)[r[n]] = n - 1
      BY <2>13, ViewOf
    <3>2. View(r)[r[k]] = k - 1
      BY <2>12, <2>13, <3>1
    <3>3. View(r)[r[Goes(p, k, a)]] = Goes(p, k, a) - 1
      BY <2>13, <3>1
    <3>4. QED  BY <2>10, <2>13, <3>2, <3>3
  <2>15. k \in Nat
    BY <1>1, <2>12
  <2>16. QED  BY <1>7, <2>12, <2>14, <2>15
<1>8. QED  BY <1>6, <1>7

-----------------------------------------------------------------------------
(* The invariant of the moves. *)

\* Operators on positions give positions.
LEMMA WithinView ==
  ASSUME NEW view \in SomeView, NEW S
  PROVE  Within(view, S) \in SomeView
<1>1. DOMAIN view \cap S \in SUBSET Torrents /\ \A t \in DOMAIN view : view[t] \in Nat \cup {NoCard}
  BY ViewFacts
<1>2. Within(view, S) \in [DOMAIN view \cap S -> Nat \cup {NoCard}]
  BY <1>1 DEF Within
<1>3. QED  BY <1>1, <1>2 DEF SomeView

LEMMA PositionedView ==
  ASSUME NEW view \in SomeView, NEW ids, Once(ids)
  PROVE  Positioned(view, ids) \in SomeView
<1>1. DOMAIN view \in SUBSET Torrents /\ \A t \in DOMAIN view : view[t] \in Nat \cup {NoCard}
  BY ViewFacts
<1>2. ASSUME NEW t, Contains(ids, t)
      PROVE  At(ids, t) - 1 \in Nat
  BY <1>2, OnceFacts, Found DEF Contains
<1>3. Positioned(view, ids) \in [DOMAIN view -> Nat \cup {NoCard}]
  BY <1>1, <1>2 DEF Positioned
<1>4. QED  BY <1>1, <1>3 DEF SomeView

LEMMA NoViewIsView == NoView \in SomeView
<1>1. NoView \in [{} -> Nat \cup {NoCard}]
  BY DEF NoView
<1>2. QED  BY <1>1 DEF SomeView

\* The row that is picked up shows each card once.
LEMMA RowOnce ==
  ASSUME DropInv
  PROVE  Once(Row)
BY WithinView, SortedOnce DEF Row, DropInv, ViewsInv

\* A fetch is asked for, or over.
LEMMA Asked ==
  ASSUME DropInv, NEW n \in 0..MaxEdits, FetchAll(n)
  PROVE  FetchesInv'
<1> DEFINE f == [of |-> n, answered |-> FALSE, view |-> NoView]
<1>1. f \in FetchType
  BY NoViewIsView DEF FetchType
<1>2. fetches' = Append(fetches, f)
  BY DEF FetchAll
<1> HIDE DEF f
<1>3. QED  BY <1>1, <1>2 DEF FetchesInv, DropInv

LEMMA FetchGone ==
  ASSUME DropInv, NEW i \in DOMAIN fetches, FetchOver(i)
  PROVE  FetchesInv' /\ fetches[i] \in FetchType
<1>1. fetches \in Seq(FetchType) /\ i \in 1..Len(fetches) /\ Len(fetches) \in Nat
  BY DEF DropInv, FetchesInv
<1>2. fetches' = SubSeq(fetches, 1, i - 1) \o SubSeq(fetches, i + 1, Len(fetches))
  BY DEF FetchOver, RemoveAt
<1>3. SubSeq(fetches, 1, i - 1) \in Seq(FetchType)
  <2>1. \A j \in 1..i - 1 : fetches[j] \in FetchType
    BY <1>1
  <2>2. QED  BY <1>1, <2>1
<1>4. SubSeq(fetches, i + 1, Len(fetches)) \in Seq(FetchType)
  <2>1. \A j \in i + 1..Len(fetches) : fetches[j] \in FetchType
    BY <1>1
  <2>2. QED  BY <1>1, <2>1
<1>5. QED  BY <1>1, <1>2, <1>3, <1>4 DEF FetchesInv

\* A move is sent, or goes on.
LEMMA NoMoveType == NoMove \in MoveType
<1>1. <<>> \in Seq(Torrents)
  OBVIOUS
<1>2. QED  BY <1>1, NoViewIsView DEF NoMove, MoveType

\* No move that was sent is carried out by the step.
Apart == \A n \in 1..MaxEdits : moves[n].phase = "sent" => moves'[n].phase # "moved"

LEMMA Sent ==
  ASSUME DropInv, NEW m \in MoveType, m.phase = "sent", FromDrop(m), SendMove(m)
  PROVE  MovesInv' /\ Apart
<1>1. PICK n \in 1..MaxEdits : moves' = [moves EXCEPT ![n] = m]
  <2> DEFINE free == {n \in 1..MaxEdits : moves[n].phase = "idle"}
  <2>1. free # {} /\ moves' = [moves EXCEPT ![CHOOSE n \in free : TRUE] = m]
    BY DEF SendMove
  <2>2. (CHOOSE n \in free : TRUE) \in free
    BY <2>1
  <2>3. QED  BY <2>1, <2>2
<1>2. QED  BY <1>1 DEF DropInv, MovesInv, Apart

LEMMA Proceeded ==
  ASSUME DropInv, NEW n \in 1..MaxEdits, NEW phase \in {"moved", "read", "over"},
         NEW snap \in SomeView, Proceed(n, phase, snap)
  PROVE  MovesInv' /\ moves'[n].phase = phase
<1> DEFINE m == [NoMove EXCEPT !.phase = phase, !.way = moves[n].way, !.snap = snap]
<1>1. moves[n] \in MoveType /\ moves \in [1..MaxEdits -> MoveType]
  BY DEF DropInv, MovesInv
<1>2. moves[n].way \in {"to", "up", "down", "top", "bottom"}
  BY <1>1 DEF MoveType
<1>3. m \in MoveType /\ m.phase = phase
  BY <1>2, NoMoveType DEF MoveType
<1>4. moves' = [moves EXCEPT ![n] = m]
  BY DEF Proceed
<1>5. FromDrop(m)
  BY <1>3 DEF FromDrop
<1> HIDE DEF m
<1>6. QED  BY <1>1, <1>3, <1>4, <1>5 DEF DropInv, MovesInv

\* The page has just been opened.
LEMMA InitDrop == RowInit => DropInv
<1> SUFFICES ASSUME RowInit PROVE DropInv
  OBVIOUS
<1>1. Once(queue)
  <2>1. [t \in Torrents |-> NoCard] \in SomeView
    <3>1. [t \in Torrents |-> NoCard] \in [Torrents -> Nat \cup {NoCard}]
      OBVIOUS
    <3>2. QED  BY <3>1 DEF SomeView
  <2>2. QED  BY <2>1, SortedOnce DEF RowInit
<1>2. DragInv
  <2>1. Once(<<>>)
    BY DEF Once, IsInjective
  <2>2. QED  BY <2>1 DEF DragInv, RowInit
<1>3. ViewsInv
  <2>1. positions \in SomeView
    <3>1. View(queue) \in SomeView
      BY <1>1, ViewOf
    <3>2. PICK S \in SUBSET Torrents : View(queue) \in [S -> Nat \cup {NoCard}]
      BY <3>1 DEF SomeView
    <3>3. \A t : [View(queue) EXCEPT ![t] = NoCard] \in [S -> Nat \cup {NoCard}]
      BY <3>2
    <3>4. PICK t : positions \in {[View(queue) EXCEPT ![t] = NoCard], View(queue)}
      BY DEF RowInit
    <3>5. positions \in [S -> Nat \cup {NoCard}]
      BY <3>2, <3>3, <3>4
    <3>6. QED  BY <3>2, <3>5 DEF SomeView
  <2>2. lane \in SomeView /\ tick \in [on : BOOLEAN, snap : SomeView] /\ filter \subseteq Torrents
    BY NoViewIsView DEF RowInit, NoTick
  <2>3. QED  BY <2>1, <2>2 DEF ViewsInv
<1>4. FetchesInv
  BY DEF RowInit, FetchesInv
<1>5. MovesInv
  <2>1. FromDrop(NoMove)
    BY DEF FromDrop, NoMove
  <2>2. QED  BY <2>1, NoMoveType DEF RowInit, MovesInv
<1>6. QED  BY <1>1, <1>2, <1>3, <1>4, <1>5 DEF DropInv

\* Steps that leave the queue, the drag and the moves alone.
LEMMA CardsStep ==
  ASSUME DropInv, UNCHANGED <<queue, drag, moves>>, ViewsInv', FetchesInv'
  PROVE  DropInv'
BY DEF DropInv, DragInv, MovesInv, FromDrop, drag

\* Steps after which the page and the daemon know the same positions.
LEMMA ViewsStay ==
  ASSUME DropInv, UNCHANGED <<positions, tick, filter, lane>>
  PROVE  ViewsInv'
BY DEF DropInv, ViewsInv

\* A fetch is answered, adopted or fails.
LEMMA FetchStep ==
  ASSUME DropInv, NEW i \in DOMAIN fetches, Answer(i) \/ Adopt(i) \/ FetchFails(i)
  PROVE  DropInv'
<1>1. CASE Answer(i)
  <2>1. fetches \in Seq(FetchType) /\ positions \in SomeView /\ fetches[i] \in FetchType
    BY DEF DropInv, FetchesInv, ViewsInv
  <2>2. [fetches[i] EXCEPT !.answered = TRUE, !.view = positions] \in FetchType
    BY <2>1 DEF FetchType
  <2>3. fetches' = [fetches EXCEPT ![i] = [fetches[i] EXCEPT !.answered = TRUE, !.view = positions]]
    BY <1>1, <2>1 DEF Answer
  <2>4. FetchesInv'
    BY <2>1, <2>2, <2>3, ExceptSeq DEF FetchesInv
  <2>5. QED  BY <1>1, <2>4, ViewsStay, CardsStep DEF Answer, daemon
<1>2. CASE Adopt(i)
  <2>1. FetchesInv' /\ fetches[i] \in FetchType
    BY <1>2, FetchGone DEF Adopt
  <2>2. lane' \in SomeView
    BY <1>2, <2>1, WithinView DEF Adopt, FilterHidden, FetchType
  <2>3. ViewsInv'
    BY <1>2, <2>2 DEF Adopt, DropInv, ViewsInv, daemon
  <2>4. QED  BY <1>2, <2>1, <2>3, CardsStep DEF Adopt, daemon
<1>3. CASE FetchFails(i)
  BY <1>3, FetchGone, ViewsStay, CardsStep DEF FetchFails, daemon
<1>4. QED  BY <1>1, <1>2, <1>3

\* What a drop sends is for the slot it was dropped at.
LEMMA DropStep ==
  ASSUME DropInv, NEW i \in DOMAIN order, Drop(i)
  PROVE  DropInv' /\ Apart
<1> DEFINE f == At(order, held)
           ids == Moved(order, f, i)
           m == [NoMove EXCEPT !.phase = "sent", !.id = held, !.to = DropPosition(lane, ids, i),
                               !.ids = ids, !.before = order, !.seen = lane]
<1>1. Once(order) /\ Contains(order, held) /\ lane \in SomeView /\ held \in Torrents \cup {NoCard}
  BY DEF Drop, DropInv, DragInv, ViewsInv
<1>2. i \in 1..Len(order)
  BY <1>1, OnceFacts
<1>3. f \in 1..Len(order) /\ order[f] = held
  BY <1>1, Found DEF Contains
<1>4. PICK q : q = ids
  OBVIOUS
<1>5. Once(q) /\ Len(q) = Len(order) /\ q[i] = held
  <2> HIDE DEF f
  <2>1. Once(order) /\ f \in 1..Len(order) /\ i \in 1..Len(order)
    BY <1>1, <1>2, <1>3
  <2>2. /\ Once(Moved(order, f, i)) /\ Len(Moved(order, f, i)) = Len(order)
        /\ Moved(order, f, i)[i] = order[f]
    BY <2>1, MovedOnce
  <2>3. QED  BY <1>3, <1>4, <2>2
<1>6. At(q, held) = i /\ Contains(q, held)
  BY <1>2, <1>5, Found DEF Contains
<1>7. PICK dest \in Nat : dest = DropPosition(lane, q, i)
  BY <1>1, <1>2, <1>5, DropPositionType
<1>8. PICK mm : mm = [NoMove EXCEPT !.phase = "sent", !.id = held, !.to = dest,
                               !.ids = q, !.before = order, !.seen = lane]
  OBVIOUS
<1>9. mm = m
  BY <1>4, <1>7, <1>8
<1>10. /\ mm \in MoveType /\ mm.phase = "sent"
       /\ mm.id = held /\ mm.to = dest /\ mm.ids = q /\ mm.seen = lane
  BY <1>1, <1>5, <1>8, NoMoveType DEF MoveType, Once
<1>11. FromDrop(mm)
  BY <1>5, <1>6, <1>7, <1>10 DEF FromDrop
<1>12. SendMove(mm) /\ lane' = Positioned(lane, q)
  BY <1>4, <1>9 DEF Drop
<1>13. MovesInv' /\ Apart
  BY <1>10, <1>11, <1>12, Sent
<1>14. ViewsInv'
  BY <1>1, <1>5, <1>12, PositionedView DEF Drop, DropInv, ViewsInv, daemon
<1>15. DragInv'
  <2>1. Once(<<>>)
    BY DEF Once, IsInjective
  <2>2. QED  BY <2>1 DEF Drop, DragInv
<1>16. QED  BY <1>13, <1>14, <1>15 DEF Drop, DropInv, FetchesInv, daemon

\* A card is picked up, or the drag is given up.
LEMMA DragStep ==
  ASSUME DropInv, (\E t \in Torrents : PickUp(t)) \/ CancelDrag
  PROVE  DropInv'
<1>1. DragInv'
  <2>1. ASSUME NEW t \in Torrents, PickUp(t)
        PROVE  DragInv'
    BY <2>1, RowOnce DEF PickUp, DragInv
  <2>2. CASE CancelDrag
    <3>1. Once(<<>>)
      BY DEF Once, IsInjective
    <3>2. QED  BY <2>2, <3>1 DEF CancelDrag, DragInv
  <2>3. QED  BY <2>1, <2>2
<1>2. UNCHANGED <<daemon, filter, lane, fetches, moves>>
  BY DEF PickUp, CancelDrag
<1>3. QED  BY <1>1, <1>2 DEF DropInv, ViewsInv, FetchesInv, MovesInv, FromDrop, daemon

\* A nudge shows its slot at once, and sends a direction.
LEMMA NudgeStep ==
  ASSUME DropInv, NEW t \in Torrents, NEW way \in {"up", "down", "top", "bottom"}, Nudge(t, way)
  PROVE  DropInv' /\ Apart
<1> DEFINE m == [NoMove EXCEPT !.phase = "sent", !.id = t, !.way = way]
<1>1. PICK from, dest : /\ from = At(Row, t) /\ Contains(Row, t) /\ dest \in DOMAIN Row
                      /\ lane' = Positioned(lane, Moved(Row, from, dest))
  BY DEF Nudge
<1>2. PICK row : row = Row
  OBVIOUS
<1>3. Once(row)
  BY <1>2, RowOnce
<1>4. from \in 1..Len(row) /\ dest \in 1..Len(row)
  BY <1>1, <1>2, <1>3, OnceFacts, Found DEF Contains
<1>5. Once(Moved(row, from, dest))
  BY <1>3, <1>4, MovedOnce
<1>6. ViewsInv'
  BY <1>1, <1>2, <1>5, PositionedView DEF Nudge, DropInv, ViewsInv, daemon
<1>7. m \in MoveType /\ m.way = way /\ m.phase = "sent"
  BY NoMoveType DEF MoveType
<1>8. FromDrop(m)
  BY <1>7 DEF FromDrop
<1>9. SendMove(m)
  BY DEF Nudge
<1>10. MovesInv' /\ Apart
  BY <1>7, <1>8, <1>9, Sent
<1>11. QED  BY <1>6, <1>10 DEF Nudge, DropInv, DragInv, FetchesInv, daemon, drag

\* Transmission carries a move out.
LEMMA CarryStep ==
  ASSUME DropInv, NEW n \in 1..MaxEdits, Carry(n)
  PROVE  DropInv'
<1>1. moves[n] \in MoveType /\ Once(queue) /\ Contains(queue, moves[n].id)
  BY DEF Carry, DropInv, MovesInv
<1>2. PICK dest : queue' = Placed(queue, moves[n].id, dest) /\ dest \in Nat
  <2> DEFINE pos == View(queue)[moves[n].id]
  <2>1. pos \in Nat
    BY <1>1, ViewOf, OnceFacts DEF Contains
  <2>2. Len(queue) \in Nat /\ moves[n].to \in Nat /\ moves[n].way \in {"to", "up", "down", "top", "bottom"}
    BY <1>1, OnceFacts DEF MoveType
  <2>3. PICK dest : queue' = Placed(queue, moves[n].id, dest) /\
          dest = CASE moves[n].way = "to" -> moves[n].to
                 [] moves[n].way = "up" -> IF pos = 0 THEN 0 ELSE pos - 1
                 [] moves[n].way = "down" -> pos + 1
                 [] moves[n].way = "top" -> 0
                 [] moves[n].way = "bottom" -> Len(queue)
    BY DEF Carry, Reordered
  <2> HIDE DEF pos
  <2>4. dest \in Nat
    BY <2>1, <2>2, <2>3
  <2>5. QED  BY <2>3, <2>4
<1>3. Once(queue')
  BY <1>1, <1>2, PlacedOnce
<1>4. MovesInv'
  BY NoViewIsView, Proceeded DEF Carry
<1>5. QED  BY <1>3, <1>4 DEF Carry, DropInv, DragInv, ViewsInv, FetchesInv, drag

\* The move's other steps.
LEMMA MoveStep ==
  ASSUME DropInv, NEW n \in 1..MaxEdits,
         MoveFails(n) \/ ReadPositions(n) \/ WritePositions(n) \/ MoveOver(n)
  PROVE  DropInv' /\ Apart
<1>1. moves \in [1..MaxEdits -> MoveType] /\ Once(queue)
  BY DEF DropInv, MovesInv
<1>2. CASE MoveFails(n)
  <2>1. MovesInv' /\ moves'[n].phase = "over"
    BY <1>2, NoViewIsView, Proceeded DEF MoveFails
  <2>2. \A k \in 1..MaxEdits \ {n} : moves'[k] = moves[k]
    BY <1>1, <1>2 DEF MoveFails, Proceed
  <2>3. QED  BY <1>2, <2>1, <2>2 DEF MoveFails, DropInv, DragInv, ViewsInv, FetchesInv, Apart, drag, daemon
<1>3. CASE ReadPositions(n)
  <2>1. MovesInv' /\ moves'[n].phase = "read"
    BY <1>1, <1>3, ViewOf, Proceeded DEF ReadPositions
  <2>2. \A k \in 1..MaxEdits \ {n} : moves'[k] = moves[k]
    BY <1>1, <1>3 DEF ReadPositions, Proceed
  <2>3. QED  BY <1>3, <2>1, <2>2 DEF ReadPositions, DropInv, DragInv, ViewsInv, FetchesInv, Apart, drag, daemon
<1>4. CASE WritePositions(n)
  <2>1. MovesInv' /\ moves'[n].phase = "over"
    BY <1>4, NoViewIsView, Proceeded DEF WritePositions
  <2>2. \A k \in 1..MaxEdits \ {n} : moves'[k] = moves[k]
    BY <1>1, <1>4 DEF WritePositions, Proceed
  <2>3. positions' \in SomeView
    <3>1. positions \in SomeView /\ moves[n].snap \in SomeView
      BY <1>1 DEF DropInv, ViewsInv, MoveType
    <3>2. \A t \in DOMAIN positions : positions[t] \in Nat \cup {NoCard}
      BY <3>1, ViewFacts
    <3>3. \A t \in DOMAIN moves[n].snap : moves[n].snap[t] \in Nat \cup {NoCard}
      BY <3>1, ViewFacts
    <3>4. positions' \in [DOMAIN positions -> Nat \cup {NoCard}]
      BY <1>4, <3>2, <3>3 DEF WritePositions
    <3>5. DOMAIN positions \in SUBSET Torrents
      BY <3>1, ViewFacts
    <3>6. QED  BY <3>4, <3>5 DEF SomeView
  <2>4. QED  BY <1>4, <2>1, <2>2, <2>3 DEF WritePositions, DropInv, DragInv, ViewsInv, FetchesInv, Apart, drag
<1>5. CASE MoveOver(n)
  <2>1. FetchesInv'
    BY <1>5, Asked DEF MoveOver
  <2>2. moves' = [moves EXCEPT ![n] = NoMove] /\ NoMove.phase = "idle"
    BY <1>5 DEF MoveOver, NoMove
  <2>3. MovesInv' /\ Apart
    BY <1>1, <2>2, NoMoveType DEF DropInv, MovesInv, FromDrop, Apart
  <2>4. QED  BY <1>5, <2>1, <2>3 DEF MoveOver, DropInv, DragInv, ViewsInv, drag, daemon
<1>6. QED  BY <1>2, <1>3, <1>4, <1>5

\* A removal, the sync and other clients send no move.
LEMMA DeleteOnce ==
  ASSUME NEW q, Once(q), NEW t
  PROVE  Once(RemoveFirst(q, t))
<1>1. CASE \E p \in 1..Len(q) : q[p] = t
  BY <1>1, FirstRemoved, Removed
<1>2. CASE ~ \E p \in 1..Len(q) : q[p] = t
  BY <1>2 DEF RemoveFirst
<1>3. QED  BY <1>1, <1>2

LEMMA RemovalStep ==
  ASSUME DropInv,
         \/ \E S \in SUBSET Torrents : Poof(S)
         \/ \E n \in 1..MaxEdits :
              \/ Poofed(n) \/ Deleted(n)
              \/ \E t \in Torrents : Delete(n, t) \/ DeleteFails(n, t)
  PROVE  DropInv' /\ moves' = moves
<1>1. CASE \E S \in SUBSET Torrents : Poof(S)
  BY <1>1, ViewsStay, CardsStep DEF Poof, DropInv, FetchesInv, daemon
<1>2. ASSUME NEW n \in 1..MaxEdits, Poofed(n)
      PROVE  DropInv' /\ moves' = moves
  BY <1>2, ViewsStay, CardsStep DEF Poofed, DropInv, FetchesInv, daemon
<1>3. ASSUME NEW n \in 1..MaxEdits, Deleted(n)
      PROVE  DropInv' /\ moves' = moves
  BY <1>3, Asked, ViewsStay, CardsStep DEF Deleted, daemon
<1>4. ASSUME NEW n \in 1..MaxEdits, NEW t \in Torrents, Delete(n, t)
      PROVE  DropInv' /\ moves' = moves
  <2>1. Once(queue')
    BY <1>4, DeleteOnce DEF Delete, DropInv
  <2>2. positions' \in SomeView
    BY <1>4, WithinView DEF Delete, DropInv, ViewsInv
  <2>3. QED  BY <1>4, <2>1, <2>2 DEF Delete, DropInv, DragInv, ViewsInv, FetchesInv, MovesInv, FromDrop, drag
<1>5. ASSUME NEW n \in 1..MaxEdits, NEW t \in Torrents, DeleteFails(n, t)
      PROVE  DropInv' /\ moves' = moves
  BY <1>5, ViewsStay, CardsStep DEF DeleteFails, DropInv, FetchesInv, daemon
<1>6. QED  BY <1>1, <1>2, <1>3, <1>4, <1>5

LEMMA OutsideStep ==
  ASSUME DropInv, TickRead \/ TickWrite \/ \E t \in Torrents : OtherClient(t)
  PROVE  DropInv' /\ moves' = moves
<1>1. CASE TickRead
  <2>1. tick' \in [on : BOOLEAN, snap : SomeView]
    BY <1>1, ViewOf DEF TickRead, DropInv
  <2>2. QED  BY <1>1, <2>1, CardsStep DEF TickRead, DropInv, ViewsInv, FetchesInv
<1>2. CASE TickWrite
  <2>1. positions' \in SomeView
    <3>1. tick.snap \in SomeView
      BY DEF DropInv, ViewsInv
    <3>2. QED  BY <1>2, <3>1, WithinView DEF TickWrite
  <2>2. tick' \in [on : BOOLEAN, snap : SomeView]
    BY <1>2, NoViewIsView DEF TickWrite, NoTick
  <2>3. QED  BY <1>2, <2>1, <2>2, CardsStep DEF TickWrite, DropInv, ViewsInv, FetchesInv
<1>3. ASSUME NEW t \in Torrents, OtherClient(t)
      PROVE  DropInv' /\ moves' = moves
  <2>1. Once(RemoveFirst(queue, t)) /\ Once(Placed(queue, t, 0))
    BY <1>3, DeleteOnce, PlacedOnce DEF OtherClient, DropInv
  <2>2. Once(queue')
    BY <1>3, <2>1 DEF OtherClient
  <2>3. QED  BY <1>3, <2>2 DEF OtherClient, DropInv, DragInv, ViewsInv, FetchesInv, MovesInv, FromDrop, drag
<1>4. QED  BY <1>1, <1>2, <1>3

\* A drop that Transmission carries out lands where it was dropped.
Landed(n) ==
  LET m == moves[n]
      i == At(m.ids, m.id)
  IN
  /\ m.phase = "sent" /\ moves'[n].phase = "moved" /\ m.way = "to"
  /\ m.seen = Within(View(queue), DOMAIN m.seen) /\ ToSet(m.ids) \subseteq DOMAIN m.seen
  => View(queue')[m.id] = IF i = 1 THEN 0 ELSE View(queue')[m.ids[i - 1]] + 1

\* The position that is sent is computed for the queue that is found.
LEMMA CarryLands ==
  ASSUME DropInv, NEW n \in 1..MaxEdits, NEW k \in 1..MaxEdits, Carry(k)
  PROVE  Landed(n)
<1>1. moves \in [1..MaxEdits -> MoveType] /\ Once(queue) /\ FromDrop(moves[n])
  BY DEF DropInv, MovesInv
<1>2. CASE n # k
  BY <1>1, <1>2 DEF Carry, Proceed, Landed
<1>3. CASE n = k
  <2> SUFFICES ASSUME moves[n].phase = "sent", moves[n].way = "to",
                      moves[n].seen = Within(View(queue), DOMAIN moves[n].seen),
                      ToSet(moves[n].ids) \subseteq DOMAIN moves[n].seen
               PROVE  LET i == At(moves[n].ids, moves[n].id) IN
                      View(queue')[moves[n].id] =
                        IF i = 1 THEN 0 ELSE View(queue')[moves[n].ids[i - 1]] + 1
    BY DEF Landed
  <2>1. PICK ids, id, seen, dest : ids = moves[n].ids /\ id = moves[n].id
                                 /\ seen = moves[n].seen /\ dest = moves[n].to
    OBVIOUS
  <2>2. Once(ids) /\ Contains(ids, id) /\ dest = DropPosition(seen, ids, At(ids, id))
    BY <1>1, <2>1 DEF FromDrop
  <2>3. PICK i \in 1..Len(ids) : ids[i] = id /\ At(ids, id) = i
    BY <2>2, Found DEF Contains
  <2>4. Contains(queue, ids[i]) /\ queue' = Placed(queue, ids[i], dest)
    BY <1>3, <2>1, <2>3 DEF Carry, Reordered
  <2>5. seen = Within(View(queue), DOMAIN seen) /\ ToSet(ids) \subseteq DOMAIN seen
    BY <2>1
  <2>6. dest = DropPosition(seen, ids, i)
    BY <2>2, <2>3
  <2>7. PICK now : now = View(Placed(queue, ids[i], dest))
    OBVIOUS
  <2>8. now[ids[i]] = IF i = 1 THEN 0 ELSE now[ids[i - 1]] + 1
    BY <1>1, <2>2, <2>4, <2>5, <2>6, <2>7, Lands
  <2>9. now = View(queue')
    BY <2>4, <2>7 DEF View
  <2>10. QED  BY <2>1, <2>3, <2>8, <2>9
<1>4. QED  BY <1>2, <1>3

\* Every step.
LEMMA DropNext ==
  ASSUME DropInv, [RowNext]_rowVars
  PROVE  DropInv' /\ \A n \in 1..MaxEdits : Landed(n)
<1>1. Apart => \A n \in 1..MaxEdits : Landed(n)
  BY DEF Landed, Apart
<1>2. moves' = moves => Apart
  <2>1. \A n : moves[n].phase = "sent" => moves[n].phase # "moved"
    OBVIOUS
  <2>2. QED  BY <2>1 DEF Apart
<1>3. CASE UNCHANGED rowVars
  BY <1>1, <1>2, <1>3, ViewsStay, CardsStep DEF rowVars, DropInv, FetchesInv, daemon
<1>4. CASE PollRow
  <2>1. FetchesInv' /\ moves' = moves
    BY <1>4, Asked DEF PollRow
  <2>2. QED  BY <1>1, <1>2, <1>4, <2>1, ViewsStay, CardsStep DEF PollRow, daemon
<1>5. ASSUME NEW i \in DOMAIN fetches, Answer(i) \/ Adopt(i) \/ FetchFails(i)
      PROVE  DropInv' /\ \A n \in 1..MaxEdits : Landed(n)
  <2>1. moves' = moves
    BY <1>5 DEF Answer, Adopt, FetchFails
  <2>2. QED  BY <1>1, <1>2, <1>5, <2>1, FetchStep
<1>6. CASE (\E t \in Torrents : PickUp(t)) \/ CancelDrag
  <2>1. moves' = moves
    BY <1>6 DEF PickUp, CancelDrag
  <2>2. QED  BY <1>1, <1>2, <1>6, <2>1, DragStep
<1>7. ASSUME NEW i \in DOMAIN order, Drop(i)
      PROVE  DropInv' /\ \A n \in 1..MaxEdits : Landed(n)
  BY <1>1, <1>7, DropStep
<1>8. ASSUME NEW t \in Torrents, NEW way \in {"up", "down", "top", "bottom"}, Nudge(t, way)
      PROVE  DropInv' /\ \A n \in 1..MaxEdits : Landed(n)
  BY <1>1, <1>8, NudgeStep
<1>9. ASSUME NEW k \in 1..MaxEdits, Carry(k)
       PROVE  DropInv' /\ \A n \in 1..MaxEdits : Landed(n)
  BY <1>9, CarryStep, CarryLands
<1>10. ASSUME NEW k \in 1..MaxEdits, MoveFails(k) \/ ReadPositions(k) \/ WritePositions(k) \/ MoveOver(k)
       PROVE  DropInv' /\ \A n \in 1..MaxEdits : Landed(n)
  BY <1>1, <1>10, MoveStep
<1>11. CASE \/ \E S \in SUBSET Torrents : Poof(S)
            \/ \E n \in 1..MaxEdits :
                 \/ Poofed(n) \/ Deleted(n)
                 \/ \E t \in Torrents : Delete(n, t) \/ DeleteFails(n, t)
  BY <1>1, <1>2, <1>11, RemovalStep
<1>12. CASE TickRead \/ TickWrite \/ \E t \in Torrents : OtherClient(t)
  BY <1>1, <1>2, <1>12, OutsideStep
<1>13. QED
  BY <1>3, <1>4, <1>5, <1>6, <1>7, <1>8, <1>9, <1>10, <1>11, <1>12 DEF RowNext

\* In every behaviour a card dropped while the page knows Transmission's positions
\* lands right behind the card it was dropped behind.
THEOREM DropsLand == RowSpec => DropLands
<1>1. RowInit => DropInv
  BY InitDrop
<1>2. DropInv /\ [RowNext]_rowVars => DropInv'
  BY DropNext
<1>3. DropInv /\ [RowNext]_rowVars => \A n \in 1..MaxEdits : Landed(n)
  BY DropNext
<1>4. (\A n \in 1..MaxEdits : Landed(n)) <=>
        \A n \in 1..MaxEdits :
          LET m == moves[n]
              i == At(m.ids, m.id)
          IN
          /\ m.phase = "sent" /\ moves'[n].phase = "moved" /\ m.way = "to"
          /\ m.seen = Within(View(queue), DOMAIN m.seen) /\ ToSet(m.ids) \subseteq DOMAIN m.seen
          => View(queue')[m.id] = IF i = 1 THEN 0 ELSE View(queue')[m.ids[i - 1]] + 1
  BY DEF Landed
<1>5. QED  BY <1>1, <1>2, <1>3, <1>4, PTL DEF RowSpec, DropLands
=============================================================================
