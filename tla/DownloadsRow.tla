---------------------------- MODULE DownloadsRow ----------------------------
(***************************************************************************)
(* The Downloads row of the home page: cards in the order of               *)
(* Transmission's queue, which are dragged, nudged and removed while polls *)
(* are in flight.  A move is shown at once and sent as a position or as a  *)
(* direction; the torrent manager has Transmission carry it out and reads  *)
(* all positions again, beside the sync that does the same.  A removed     *)
(* card plays an animation before it is deleted, and must not come back    *)
(* with a poll that was answered earlier.  Transmission is external, and   *)
(* moves and removes torrents for other clients too.                       *)
(*                                                                         *)
(* A delete is one step here, which Torrents takes apart.  The torrents    *)
(* are queued, downloading or seeding and stay so: a paused or completed   *)
(* one that another client removes is kept by the sync, and stays in the   *)
(* row.  Removals that trash the files, and reduced motion, are not        *)
(* modelled.                                                               *)
(***************************************************************************)
EXTENDS Naturals, Sequences, FiniteSets, SequencesExt

CONSTANTS
  Torrents,    \* numbered as they are sorted when nothing else tells them apart
  Finished,    \* those that Clear removes
  Seeding,     \* those that the seeding pill leaves in the row
  NoCard,      \* sentinel: no position, no card
  MaxEdits,    \* bound: things users do, and faults
  MaxFetches,  \* bound: fetches in flight when the page polls
  RowLoads     \* what happens: "drag", "nudge", "remove", "outside", "faults", "new", "pill"

ASSUME DownloadsAssumption ==
  /\ Torrents \subseteq Nat /\ IsFiniteSet(Torrents) /\ Seeding \subseteq Torrents
  /\ NoCard \notin Nat /\ MaxEdits \in Nat

VARIABLES
  rowLoad, rowEdits,
  queue,      \* Transmission's queue
  positions,  \* queuePosition of the rows that are not removed
  tick,       \* syncStats in progress
  filter,     \* the cards the active pill lets through
  lane,       \* torrents: the cards of the page, with their positions
  fetches,    \* fetchAll in flight, as they were asked
  order,      \* orderRef.current: the row while a card is dragged
  held,       \* dragRef.current.id
  hold,       \* queuePollPausedRef.current
  moves,      \* moves on their way
  exiting,    \* exitingIds
  hidden,     \* hiddenIdsRef.current
  batches,    \* removals on their way, by the number of the edit
  told        \* history: cards whose deletion was confirmed

daemon == <<queue, positions, tick>>
drag == <<order, held>>
removal == <<exiting, hidden, batches, told>>
rowVars == <<rowLoad, rowEdits, daemon, filter, lane, fetches, drag, hold, moves, removal>>

-----------------------------------------------------------------------------
(* Queues and views of them: positions of the torrents seen. *)

View(q) == [t \in ToSet(q) |-> (CHOOSE i \in DOMAIN q : q[i] = t) - 1]

\* Torrents that have no position yet sink to the end.
Key(view, t) == IF view[t] = NoCard THEN Cardinality(Torrents) ELSE view[t]

\* byQueue, with the order of the list to break ties
Precedes(view, s, t) ==
  Key(view, s) < Key(view, t) \/ (Key(view, s) = Key(view, t) /\ s < t)

\* sortTorrents by queue
Sorted(view) ==
  CHOOSE ids \in SetToSeqs(DOMAIN view) :
    \A i, j \in DOMAIN ids : i < j => Precedes(view, ids[i], ids[j])

Within(view, S) == [t \in DOMAIN view \cap S |-> view[t]]

\* queueOrderIds
Row == Sorted(Within(lane, filter))

At(ids, t) == CHOOSE i \in DOMAIN ids : ids[i] = t

\* moveId, counted from 1
Moved(ids, from, to) == InsertAt(RemoveAt(ids, from), to, ids[from])

\* applyQueuePositions
Positioned(view, ids) ==
  [t \in DOMAIN view |-> IF Contains(ids, t) THEN At(ids, t) - 1 ELSE view[t]]

\* Mutant: behind the neighbour's position, wherever the card comes from.
BehindNeighbour(view, ids, i) ==
  IF i = 1 THEN 0
  ELSE LET prev == ids[i - 1] IN
       IF prev \in DOMAIN view /\ view[prev] # NoCard THEN view[prev] + 1 ELSE i - 1
\* queueDropPosition, with null < n as 0 < n
DropPosition(view, ids, i) ==
  IF i = 1 THEN 0
  ELSE LET prev == ids[i - 1]
           prevPos == IF prev \in DOMAIN view /\ view[prev] # NoCard THEN view[prev] ELSE i - 2
           before == /\ ids[i] \in DOMAIN view
                     /\ (IF view[ids[i]] = NoCard THEN 0 ELSE view[ids[i]]) < prevPos
       IN IF before THEN prevPos ELSE prevPos + 1

-----------------------------------------------------------------------------
NoView == [t \in {} |-> NoCard]
NoTick == [on |-> FALSE, snap |-> NoView]
NoMove == [phase |-> "idle", id |-> NoCard, way |-> "to", to |-> 0, ids |-> <<>>,
           before |-> <<>>, seen |-> NoView, snap |-> NoView]
NoBatch == [phase |-> "idle", ids |-> {}, sent |-> {}, failed |-> {}]

\* The page has just been opened; a torrent that was just added has no position.
RowInit ==
  /\ rowLoad \in RowLoads
  /\ rowEdits = 0
  /\ queue = Sorted([t \in Torrents |-> NoCard])
  /\ positions = IF "new" \in rowLoad THEN [View(queue) EXCEPT ![queue[Len(queue)]] = NoCard]
                               ELSE View(queue)
  /\ tick = NoTick
  /\ filter = IF "pill" \in rowLoad THEN Seeding ELSE Torrents
  /\ lane = NoView /\ fetches = <<>>
  /\ order = <<>> /\ held = NoCard /\ hold = FALSE
  /\ moves = [n \in 1..MaxEdits |-> NoMove]
  /\ exiting = {} /\ hidden = {} /\ told = {}
  /\ batches = [n \in 1..MaxEdits |-> NoBatch]

Edits == rowEdits < MaxEdits /\ rowEdits' = rowEdits + 1
Fault == "faults" \in rowLoad /\ Edits

-----------------------------------------------------------------------------
(* Fetching. *)

\* fetchAll, for a batch of removals or for nobody
FetchAll(n) == fetches' = Append(fetches, [of |-> n, answered |-> FALSE, view |-> NoView])

\* fetchAllUnlessDragging
PollRow ==
  /\ ~hold /\ Len(fetches) < MaxFetches
  /\ FetchAll(0)
  /\ UNCHANGED <<rowLoad, rowEdits, daemon, filter, lane, drag, hold, moves, removal>>

Answer(i) ==
  /\ ~fetches[i].answered
  /\ fetches' = [fetches EXCEPT ![i].answered = TRUE, ![i].view = positions]
  /\ UNCHANGED <<rowLoad, rowEdits, daemon, filter, lane, drag, hold, moves, removal>>

\* Mutant: hidden cards that have finished their animation may come back.
OnlyExiting(view) == Within(view, DOMAIN view \ (hidden \cap exiting))
\* filterHidden
FilterHidden(view) == Within(view, DOMAIN view \ hidden)

\* What awaited the fetch goes on: the cards of the batch are done.
FetchOver(i) ==
  LET n == fetches[i].of IN
  /\ fetches' = RemoveAt(fetches, i)
  /\ IF n = 0 THEN UNCHANGED <<exiting, batches>>
     ELSE /\ exiting' = exiting \ batches[n].ids
          /\ batches' = [batches EXCEPT ![n] = NoBatch]

Adopt(i) ==
  /\ fetches[i].answered
  /\ lane' = FilterHidden(fetches[i].view)
  /\ FetchOver(i)
  /\ UNCHANGED <<rowLoad, rowEdits, daemon, filter, drag, hold, moves, hidden, told>>

\* "keep the last good data"
FetchFails(i) ==
  /\ Fault /\ FetchOver(i)
  /\ UNCHANGED <<rowLoad, daemon, filter, lane, drag, hold, moves, hidden, told>>

-----------------------------------------------------------------------------
(* Moving cards. *)

\* Picked up, past the threshold: the row morphs into queue order.
PickUp(t) ==
  /\ "drag" \in rowLoad /\ Edits /\ order = <<>>
  /\ Contains(Row, t) /\ Len(Row) >= 2 /\ t \notin exiting
  /\ order' = Row /\ held' = t /\ hold' = TRUE
  /\ UNCHANGED <<rowLoad, daemon, filter, lane, fetches, moves, removal>>

\* The request of a move; each is of an edit of its own, so there is room for it.
SendMove(move) ==
  LET free == {n \in 1..MaxEdits : moves[n].phase = "idle"} IN
  /\ free # {}
  /\ moves' = [moves EXCEPT ![CHOOSE n \in free : TRUE] = move]

\* Dragged to a slot and dropped: commitQueueMove.
Drop(i) ==
  LET ids == Moved(order, At(order, held), i) IN
  /\ order # <<>>
  /\ SendMove([NoMove EXCEPT !.phase = "sent", !.id = held,
                  !.to = DropPosition(lane, ids, i), !.ids = ids,
                  !.before = order, !.seen = lane])
  /\ lane' = Positioned(lane, ids)
  /\ order' = <<>> /\ held' = NoCard
  /\ UNCHANGED <<rowLoad, rowEdits, daemon, filter, fetches, hold, removal>>

\* Mutant: polls stay paused.
StaysPaused == hold
\* A drag that is given up lets polls go on.
Released == FALSE

CancelDrag ==
  /\ order # <<>>
  /\ order' = <<>> /\ held' = NoCard /\ hold' = Released
  /\ UNCHANGED <<rowLoad, rowEdits, daemon, filter, lane, fetches, moves, removal>>

\* nudgeQueue
Nudge(t, way) ==
  LET from == At(Row, t)
      to == CASE way = "up" -> from - 1 [] way = "down" -> from + 1
              [] way = "top" -> 1 [] way = "bottom" -> Len(Row)
  IN
  /\ "nudge" \in rowLoad /\ Contains(Row, t) /\ Edits
  /\ to \in DOMAIN Row /\ to # from
  /\ lane' = Positioned(lane, Moved(Row, from, to))
  /\ SendMove([NoMove EXCEPT !.phase = "sent", !.id = t, !.way = way])
  /\ UNCHANGED <<rowLoad, daemon, filter, fetches, drag, hold, removal>>

\* Transmission's side of a move.
Placed(q, t, to) ==
  LET rest == RemoveFirst(q, t) IN
  InsertAt(rest, IF to < Len(rest) THEN to + 1 ELSE Len(q), t)

Reordered(q, move) ==
  LET pos == View(q)[move.id] IN
  Placed(q, move.id,
         CASE move.way = "to" -> move.to
           [] move.way = "up" -> IF pos = 0 THEN 0 ELSE pos - 1
           [] move.way = "down" -> pos + 1
           [] move.way = "top" -> 0
           [] move.way = "bottom" -> Len(q))

\* What has been sent is of no more use to the page.
Proceed(n, phase, snap) ==
  moves' = [moves EXCEPT ![n] = [NoMove EXCEPT !.phase = phase, !.way = moves[n].way,
                                               !.snap = snap]]

\* moveInQueue, up to the answer of the first call.
Carry(n) ==
  /\ moves[n].phase = "sent" /\ moves[n].id \in DOMAIN positions
  /\ Contains(queue, moves[n].id)
  /\ queue' = Reordered(queue, moves[n])
  /\ Proceed(n, "moved", NoView)
  /\ UNCHANGED <<rowLoad, rowEdits, positions, tick, filter, lane, fetches, drag, hold, removal>>

\* Not found, not mapped, or Transmission is away: before or after the move.
MoveFails(n) ==
  /\ moves[n].phase \in {"sent", "moved"}
  /\ IF moves[n].phase = "sent" /\ moves[n].id \notin DOMAIN positions \cap ToSet(queue)
       THEN UNCHANGED rowEdits ELSE Fault
  /\ Proceed(n, "over", NoView)
  /\ UNCHANGED <<rowLoad, daemon, filter, lane, fetches, drag, hold, removal>>

\* syncQueuePositions: all positions are read ...
ReadPositions(n) ==
  /\ moves[n].phase = "moved"
  /\ Proceed(n, "read", View(queue))
  /\ UNCHANGED <<rowLoad, rowEdits, daemon, filter, lane, fetches, drag, hold, removal>>

\* ... and written in one go.
WritePositions(n) ==
  /\ moves[n].phase = "read"
  /\ positions' = [t \in DOMAIN positions |->
                 IF t \in DOMAIN moves[n].snap THEN moves[n].snap[t] ELSE positions[t]]
  /\ Proceed(n, "over", NoView)
  /\ UNCHANGED <<rowLoad, rowEdits, queue, tick, filter, lane, fetches, drag, hold, removal>>

\* The page has its answer, good or bad: polls go on, and the row is fetched.
MoveOver(n) ==
  /\ moves[n].phase = "over"
  /\ hold' = IF moves[n].way = "to" THEN FALSE ELSE hold
  /\ FetchAll(0)
  /\ moves' = [moves EXCEPT ![n] = NoMove]
  /\ UNCHANGED <<rowLoad, rowEdits, daemon, filter, lane, drag, removal>>

-----------------------------------------------------------------------------
(* Removing cards. *)

\* clearable
Clearable == DOMAIN lane \cap filter \cap Finished

\* poofThenRemove: one card, or those that are cleared.
Poof(S) ==
  /\ "remove" \in rowLoad /\ Edits
  /\ S # {} /\ S \subseteq DOMAIN lane \cap filter
  /\ Cardinality(S) = 1 \/ S = Clearable
  /\ exiting' = exiting \cup S
  /\ batches' = [batches EXCEPT ![rowEdits'] = [NoBatch EXCEPT !.phase = "poofing", !.ids = S]]
  /\ UNCHANGED <<rowLoad, daemon, filter, lane, fetches, drag, hold, moves, hidden, told>>

\* The animation is over: hide, and delete.
Poofed(n) ==
  /\ batches[n].phase = "poofing"
  /\ hidden' = hidden \cup batches[n].ids
  /\ batches' = [batches EXCEPT ![n].phase = "deleting", ![n].sent = batches[n].ids]
  /\ UNCHANGED <<rowLoad, rowEdits, daemon, filter, lane, fetches, drag, hold, moves, exiting, told>>

\* DELETE /api/torrents/:id; the answer may be lost, or the request.
Delete(n, t) ==
  /\ t \in batches[n].sent
  /\ queue' = RemoveFirst(queue, t)
  /\ positions' = Within(positions, DOMAIN positions \ {t})
  /\ \/ UNCHANGED rowEdits /\ batches' = [batches EXCEPT ![n].sent = @ \ {t}]
     \/ Fault /\ batches' = [batches EXCEPT ![n].sent = @ \ {t}, ![n].failed = @ \cup {t}]
  /\ UNCHANGED <<rowLoad, tick, filter, lane, fetches, drag, hold, moves, exiting, hidden, told>>

DeleteFails(n, t) ==
  /\ t \in batches[n].sent /\ Fault
  /\ batches' = [batches EXCEPT ![n].sent = @ \ {t}, ![n].failed = @ \cup {t}]
  /\ UNCHANGED <<rowLoad, daemon, filter, lane, fetches, drag, hold, moves,
                 exiting, hidden, told>>

\* Cards that could not be deleted are shown again.
StillExiting(n) == exiting \ batches[n].failed

\* removeAll is over; the row is fetched again.
Deleted(n) ==
  /\ batches[n].phase = "deleting" /\ batches[n].sent = {}
  /\ hidden' = hidden \ batches[n].failed
  /\ exiting' = StillExiting(n)
  /\ told' = told \cup (batches[n].ids \ batches[n].failed)
  /\ batches' = [batches EXCEPT ![n].phase = "fetching"]
  /\ FetchAll(n)
  /\ UNCHANGED <<rowLoad, rowEdits, daemon, filter, lane, drag, hold, moves>>

-----------------------------------------------------------------------------
(* The sync of the torrent manager, and other clients. *)

TickRead ==
  /\ ~tick.on
  /\ tick' = [on |-> TRUE, snap |-> View(queue)]
  /\ UNCHANGED <<rowLoad, rowEdits, queue, positions, filter, lane, fetches, drag, hold, moves, removal>>

\* Active rows that the snapshot does not have are marked removed.
TickWrite ==
  /\ tick.on
  /\ positions' = Within(tick.snap, DOMAIN positions)
  /\ tick' = NoTick
  /\ UNCHANGED <<rowLoad, rowEdits, queue, filter, lane, fetches, drag, hold, moves, removal>>

OtherClient(t) ==
  /\ "outside" \in rowLoad /\ Contains(queue, t) /\ Edits
  /\ queue' \in {RemoveFirst(queue, t), Placed(queue, t, 0)}
  /\ UNCHANGED <<rowLoad, positions, tick, filter, lane, fetches, drag, hold, moves, removal>>

-----------------------------------------------------------------------------
RowNext ==
  \/ PollRow \/ \E i \in DOMAIN fetches : Answer(i) \/ Adopt(i) \/ FetchFails(i)
  \/ \E t \in Torrents : PickUp(t) \/ OtherClient(t)
  \/ \E i \in DOMAIN order : Drop(i)
  \/ CancelDrag
  \/ \E t \in Torrents, way \in {"up", "down", "top", "bottom"} : Nudge(t, way)
  \/ \E n \in 1..MaxEdits :
       \/ Carry(n) \/ MoveFails(n) \/ ReadPositions(n) \/ WritePositions(n) \/ MoveOver(n)
       \/ Poofed(n) \/ Deleted(n)
       \/ \E t \in Torrents : Delete(n, t) \/ DeleteFails(n, t)
  \/ \E S \in SUBSET Torrents : Poof(S)
  \/ TickRead \/ TickWrite

RowSpec == RowInit /\ [][RowNext]_rowVars

\* The page polls, its timers fire, a card that is picked up is put down, and
\* every call is answered or fails.
RowFairness ==
  /\ WF_rowVars(PollRow)
  /\ WF_rowVars(Len(fetches) > 0 /\ (Answer(1) \/ Adopt(1)))
  /\ WF_rowVars(CancelDrag \/ \E i \in DOMAIN order : Drop(i))
  /\ \A n \in 1..MaxEdits :
       /\ WF_rowVars(Carry(n) \/ MoveFails(n)) /\ WF_rowVars(ReadPositions(n))
       /\ WF_rowVars(WritePositions(n)) /\ WF_rowVars(MoveOver(n))
       /\ WF_rowVars(Poofed(n)) /\ WF_rowVars(Deleted(n))
       /\ WF_rowVars(\E t \in Torrents : Delete(n, t))
  /\ WF_rowVars(TickRead) /\ WF_rowVars(TickWrite)

RowLiveSpec == RowSpec /\ RowFairness

\* Types.
Views == UNION {[S -> 0..Cardinality(Torrents) \cup {NoCard}] : S \in SUBSET Torrents}
Lists == {ids \in BoundedSeq(Torrents, Cardinality(Torrents)) : IsInjective(ids)}

RowTypes ==
  /\ rowLoad \in RowLoads /\ rowEdits \in 0..MaxEdits
  /\ {queue, order} \subseteq Lists
  /\ {positions, lane, tick.snap} \subseteq Views /\ tick.on \in BOOLEAN
  /\ held \in Torrents \cup {NoCard} /\ hold \in BOOLEAN
  /\ \A f \in ToSet(fetches) :
       f.of \in 0..MaxEdits /\ f.answered \in BOOLEAN /\ f.view \in Views
  /\ \A m \in ToSet(moves) :
       /\ m.phase \in {"idle", "sent", "moved", "read", "over"}
       /\ m.id \in Torrents \cup {NoCard} /\ m.to \in 0..Cardinality(Torrents)
       /\ m.way \in {"to", "up", "down", "top", "bottom"}
       /\ {m.ids, m.before} \subseteq Lists /\ {m.seen, m.snap} \subseteq Views
  /\ \A b \in ToSet(batches) :
       /\ b.phase \in {"idle", "poofing", "deleting", "fetching"}
       /\ b.sent \cup b.failed \subseteq b.ids
  /\ filter \cup exiting \cup hidden \cup told \subseteq Torrents

-----------------------------------------------------------------------------
InQueue(q, S) == SelectSeq(q, LAMBDA t : t \in S)

\* A card dropped while the page knows Transmission's positions lands right behind
\* the card it was dropped behind, or first, whatever the pill hides in between:
\* queueDropPosition gets both directions and all gaps right.
DropLands ==
  [][\A n \in 1..MaxEdits :
       LET m == moves[n]
           i == At(m.ids, m.id)
       IN
       /\ m.phase = "sent" /\ moves'[n].phase = "moved" /\ m.way = "to"
       /\ m.seen = Within(View(queue), DOMAIN m.seen) /\ ToSet(m.ids) \subseteq DOMAIN m.seen
       => View(queue')[m.id] = IF i = 1 THEN 0 ELSE View(queue')[m.ids[i - 1]] + 1]_rowVars

\* "Polling must not resurrect" a removed card (use-poof-removal.ts:10): once its
\* deletion is confirmed a card is gone or still playing its animation, whatever
\* fetches answered before the deletion arrive after it, unless a fetch failed.
NoFlash == "faults" \notin rowLoad => told \cap DOMAIN lane \subseteq exiting

\* When the user is through the row comes to show what Transmission has, in its
\* order: no stale fetch, sync or optimistic position is left standing, and no
\* drag leaves the polls paused.
RowSettles == <>[](Row = InQueue(queue, filter))

\* "Neighbor-based so it stays correct when a pill filter hides part of the queue"
\* (torrent-order.ts:117): as long as the row shows the order its cards have, a
\* card lands where it is dropped.
StaysCorrect ==
  [][\A n \in 1..MaxEdits :
       LET m == moves[n] IN
       /\ m.phase = "sent" /\ moves'[n].phase = "moved" /\ m.way = "to"
       /\ InQueue(queue, ToSet(m.ids)) = m.before
       => InQueue(queue', ToSet(m.ids)) = m.ids]_rowVars
=============================================================================
