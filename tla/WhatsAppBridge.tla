--------------------------- MODULE WhatsAppBridge ---------------------------
(***************************************************************************)
(* The messages of the WhatsApp bridge: what arrives on the socket becomes *)
(* commands in the queue, once each, although WhatsApp delivers again what *)
(* it has delivered before and shows the bridge its own sends; and the     *)
(* replies in the response queue are sent by a poll every two seconds,     *)
(* which does not wait for the poll before it.  The socket is only up or   *)
(* down here; how it gets there is in WhatsAppLink.                        *)
(***************************************************************************)
EXTENDS Naturals, Sequences, FiniteSets, SequencesExt

CONSTANTS
  Messages,     \* commands somebody may write in the allowed chat
  Captioned,    \* those that say something besides their media
  Media,        \* those that carry media
  Replies,      \* rows of the response queue for this channel
  Parts,        \* what a reply is sent as: its files, then its text
  Handlers,     \* messages.upsert events that may be in progress together
  Polls,        \* polls that may be in progress together
  MaxBatch,     \* bound: messages in one event
  MaxForgets,   \* bound: ids that drop out of seenIds
  MaxCuts       \* bound: times the socket is closed or the daemon restarts

ASSUME BridgeAssumption ==
  /\ Captioned \subseteq Messages /\ Media \subseteq Messages
  /\ Captioned \cup Media = Messages
  /\ Parts \in Nat /\ MaxBatch \in Nat /\ MaxForgets \in Nat /\ MaxCuts \in Nat

\* The ids of messages: those that arrive, and those of our own sends.
Sends == Replies \X (1..Parts)
Ids == Messages \cup Sends

VARIABLES
  up,        \* this.sock, connected
  seen,      \* this.seenIds
  old,       \* messages with a timestamp before bootTime
  handler,   \* per event: the messages still to handle, and whether the first
             \* of them is being downloaded
  queue,     \* rows of the response queue, oldest first
  acked,     \* those that are acknowledged
  poll,      \* per poll: the rows it still has to deliver, the part it is at,
             \* and whether that part is with WhatsApp
  written,   \* WhatsApp: the messages it may deliver
  commands,  \* history: times a message became a command
  forgets,   \* history: times an id dropped out of seenIds
  sent,      \* history: the parts WhatsApp has taken
  cuts       \* times the socket was closed

bridgeVars == <<up, seen, old, handler, queue, acked, poll, written, commands, forgets, sent, cuts>>

Idle == [todo |-> <<>>, busy |-> FALSE]
NoPoll == [todo |-> <<>>, part |-> 1, busy |-> FALSE]

BridgeInit ==
  /\ up = FALSE
  /\ seen = {} /\ old = {}
  /\ handler = [h \in Handlers |-> Idle]
  /\ queue = <<>> /\ acked = {}
  /\ poll = [p \in Polls |-> NoPoll]
  /\ written = {}
  /\ commands = [i \in Ids |-> 0]
  /\ forgets = [i \in Ids |-> 0]
  /\ sent = {}
  /\ cuts = 0

-----------------------------------------------------------------------------
(* Arriving messages. *)

\* The event handler of messages.upsert starts, with what WhatsApp delivers.
Deliver(h, batch) ==
  /\ up
  /\ handler[h] = Idle
  /\ handler' = [handler EXCEPT ![h].todo = batch]
  /\ UNCHANGED <<up, seen, old, queue, acked, poll, written, commands, forgets, sent, cuts>>

\* History replayed on connecting, and what was handled before.
Skips(i) == i \in old \/ i \in seen

\* Mutant: the id is marked when the command is queued.
MarkedLate(i) == seen
\* handleIncoming: the id is marked before the download, so that the same
\* message in another event finds it.
Marked(i) == seen \cup {i}

Done(h) == [handler EXCEPT ![h] = [todo |-> Tail(@.todo), busy |-> FALSE]]

\* handleIncoming up to the download, if there is one.
Handle(h) ==
  /\ handler[h].todo # <<>> /\ ~handler[h].busy
  /\ LET i == Head(handler[h].todo) IN
     IF Skips(i)
       THEN /\ handler' = Done(h)
            /\ UNCHANGED <<seen, commands>>
       ELSE IF i \in Media
       THEN /\ seen' = Marked(i)
            /\ handler' = [handler EXCEPT ![h].busy = TRUE]
            /\ UNCHANGED commands
       ELSE /\ seen' = seen \cup {i}
            /\ handler' = Done(h)
            /\ commands' = [commands EXCEPT ![i] = @ + 1]
  /\ UNCHANGED <<up, old, queue, acked, poll, written, forgets, sent, cuts>>

\* downloadMedia has ended; without the file and without words nothing is left.
Downloaded(h, ok) ==
  /\ handler[h].busy
  /\ LET i == Head(handler[h].todo) IN
     commands' = IF ok \/ i \in Captioned
                   THEN [commands EXCEPT ![i] = @ + 1] ELSE commands
  /\ handler' = Done(h)
  /\ UNCHANGED <<up, seen, old, queue, acked, poll, written, forgets, sent, cuts>>

\* An id is kept for SEEN_TTL.
Forget(i) ==
  /\ i \in seen
  /\ \A j \in Ids : forgets[j] < MaxForgets
  /\ seen' = seen \ {i}
  /\ forgets' = [forgets EXCEPT ![i] = @ + 1]
  /\ UNCHANGED <<up, old, handler, queue, acked, poll, written, commands, sent, cuts>>

-----------------------------------------------------------------------------
(* Replies. *)

\* enqueueResponse, in the daemon's queue
Answer(r) ==
  /\ r \notin Range(queue)
  /\ queue' = Append(queue, r)
  /\ UNCHANGED <<up, seen, old, handler, acked, poll, written, commands, forgets, sent, cuts>>

\* Mutant: what a poll has begun with is not looked at again.
Untouched == LET Fresh(r) == r \notin acked /\ <<r, 1>> \notin sent
             IN SelectSeq(queue, Fresh)
\* getResponsesForChannel
Pending == LET Unacked(r) == r \notin acked IN SelectSeq(queue, Unacked)

\* The poller fires.  Nothing asks whether a poll before it still delivers the
\* same rows.
PollStarts(p) ==
  /\ up /\ poll[p].todo = <<>> /\ Pending # <<>>
  /\ poll' = [poll EXCEPT ![p] = [NoPoll EXCEPT !.todo = Pending]]
  /\ UNCHANGED <<up, seen, old, handler, queue, acked, written, commands, forgets, sent, cuts>>

NextReply(p) == [poll EXCEPT ![p] = [NoPoll EXCEPT !.todo = Tail(poll[p].todo)]]

\* A part is handed to the socket; without one the reply is left for later.
Send(p) ==
  /\ poll[p].todo # <<>> /\ ~poll[p].busy
  /\ poll' = IF up THEN [poll EXCEPT ![p].busy = TRUE] ELSE NextReply(p)
  /\ UNCHANGED <<up, seen, old, handler, queue, acked, written, commands, forgets, sent, cuts>>

\* WhatsApp has taken the part; after the last one the row is acknowledged.
SendOk(p) ==
  /\ poll[p].busy
  /\ LET r == Head(poll[p].todo) k == poll[p].part IN
     /\ seen' = seen \cup {<<r, k>>}
     /\ sent' = sent \cup {<<r, k>>}
     /\ IF k < Parts
          THEN /\ poll' = [poll EXCEPT ![p] = [@ EXCEPT !.part = k + 1, !.busy = FALSE]]
               /\ UNCHANGED acked
          ELSE /\ poll' = NextReply(p)
               /\ acked' = acked \cup {r}
  /\ UNCHANGED <<up, old, handler, queue, written, commands, forgets, cuts>>

\* Mutant: a part that fails is passed over.
AfterFailurePassing(p) ==
  IF poll[p].part < Parts
    THEN [poll EXCEPT ![p] = [@ EXCEPT !.part = @ + 1, !.busy = FALSE]]
    ELSE NextReply(p)
\* The rest of the reply is left for a later poll, which starts over.
AfterFailure(p) == NextReply(p)

SendFails(p) ==
  /\ poll[p].busy
  /\ poll' = AfterFailure(p)
  /\ UNCHANGED <<up, seen, old, handler, queue, acked, written, commands, forgets, sent, cuts>>

-----------------------------------------------------------------------------
(* The socket, the daemon, and WhatsApp. *)

SocketUp ==
  /\ ~up
  /\ up' = TRUE
  /\ UNCHANGED <<seen, old, handler, queue, acked, poll, written, commands, forgets, sent, cuts>>

\* The socket closes on its own; what was seen stays known.
Cut ==
  /\ up /\ cuts < MaxCuts
  /\ up' = FALSE
  /\ cuts' = cuts + 1
  /\ UNCHANGED <<seen, old, handler, queue, acked, poll, written, commands, forgets, sent>>

\* stop() forgets what was seen.
StopBridge ==
  /\ cuts < MaxCuts
  /\ up' = FALSE
  /\ seen' = {}
  /\ forgets' = [i \in Ids |-> forgets[i] + (IF i \in seen THEN 1 ELSE 0)]
  /\ cuts' = cuts + 1
  /\ UNCHANGED <<old, handler, queue, acked, poll, written, commands, sent>>

\* The daemon restarts: bootTime makes history of all that was written before.
Restart ==
  /\ cuts < MaxCuts
  /\ up' = FALSE
  /\ seen' = {}
  /\ old' = written \cup sent
  /\ handler' = [h \in Handlers |-> Idle]
  /\ poll' = [p \in Polls |-> NoPoll]
  /\ cuts' = cuts + 1
  /\ UNCHANGED <<queue, acked, written, commands, forgets, sent>>

Write(m) ==
  /\ m \notin written
  /\ written' = written \cup {m}
  /\ UNCHANGED <<up, seen, old, handler, queue, acked, poll, commands, forgets, sent, cuts>>

-----------------------------------------------------------------------------
\* What WhatsApp may deliver in one event: messages and own sends, new or not.
Batches == {b \in SeqOf(written \cup sent, MaxBatch) : b # <<>> /\ IsInjective(b)}

BridgeNext ==
  \/ \E h \in Handlers : \/ \E b \in Batches : Deliver(h, b)
                        \/ Handle(h)
                        \/ \E ok \in BOOLEAN : Downloaded(h, ok)
  \/ \E i \in Ids : Forget(i)
  \/ \E r \in Replies : Answer(r)
  \/ \E p \in Polls : PollStarts(p) \/ Send(p) \/ SendOk(p) \/ SendFails(p)
  \/ SocketUp \/ Cut \/ StopBridge \/ Restart
  \/ \E m \in Messages : Write(m)

BridgeSpec == BridgeInit /\ [][BridgeNext]_bridgeVars

\* The interval fires and a call to WhatsApp ends; and as an assumption on what
\* is outside, the socket is connected again after each cut, and a send that is
\* tried again and again works some time.
Fairness ==
  /\ WF_bridgeVars(SocketUp)
  /\ \A p \in Polls :
       /\ WF_bridgeVars(PollStarts(p)) /\ WF_bridgeVars(Send(p))
       /\ WF_bridgeVars(SendOk(p) \/ SendFails(p))
       /\ \A r \in Replies, k \in 1..Parts :
            SF_bridgeVars(SendOk(p) /\ Head(poll[p].todo) = r /\ poll[p].part = k)

LiveSpec == BridgeSpec /\ Fairness

-----------------------------------------------------------------------------
BridgeTypes ==
  /\ up \in BOOLEAN
  /\ seen \subseteq Ids /\ old \subseteq Ids /\ sent \subseteq Sends
  /\ \A h \in Handlers : handler[h].todo \in Seq(Ids) /\ handler[h].busy \in BOOLEAN
  /\ queue \in Seq(Replies) /\ acked \subseteq Range(queue)
  /\ \A p \in Polls : /\ poll[p].todo \in Seq(Replies)
                     /\ poll[p].part \in 1..Parts /\ poll[p].busy \in BOOLEAN
  /\ written \subseteq Messages
  /\ commands \in [Ids -> Nat] /\ forgets \in [Ids -> Nat] /\ cuts \in Nat

\* A message becomes a command once, and an own send never, but for each time
\* its id was forgotten since: two events that bring it together, a replay
\* after a reconnect and the echo of a reply are all found in seenIds.
CommandOnce ==
  \A i \in Ids : commands[i] <= forgets[i] + (IF i \in Messages THEN 1 ELSE 0)

\* Every reply is delivered, all of it, however its polls overlap, fail and are
\* cut off; a row is not acknowledged before.
Delivered ==
  \A r \in Replies :
    r \in Range(queue) ~> (r \in acked /\ {r} \X (1..Parts) \subseteq sent)
=============================================================================
