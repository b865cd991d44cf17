--------------------------- MODULE TorrentsProofs ---------------------------
(***************************************************************************)
(* Proofs about the torrent manager, for any number of torrents, rows,     *)
(* requests and syncs in progress.  Everything rests on one fact: a row    *)
(* changes its hash once, from one of its own to that of its torrent, in   *)
(* the step in which the map learns the torrent's Transmission id.         *)
(***************************************************************************)
EXTENDS Torrents, TLAPS

\* The id t was given to torrent h.
Gave(ids, t, h) == t \in 1..Len(ids) /\ ids[t] = h

Live(r) == r.status \notin Absent

\* A row has the hash of its torrent, or one of its own while that is unknown.
HashInv == \A i \in Ids : Live(row[i]) => row[i].hash \in Hashes \cup {i}

\* What Transmission holds, and what a sync remembers of it, has its own id.
HeldInv ==
  /\ \A h \in Hashes : tr[h].tid # 0 => Gave(issued, tr[h].tid, h)
  /\ \A s \in Syncs, h \in Hashes :
       sync[s].snap[h].tid # 0 => Gave(issued, sync[s].snap[h].tid, h)

\* The map names the torrent of the row.
MapInv == \A i \in Ids : tids[i] # 0 =>
  /\ row[i].status # "unborn"
  /\ Live(row[i]) => Gave(issued, tids[i], row[i].hash)

\* What a request o, that is not idle, relies on: r is its row.  The row of an
\* add keeps the hash it was stored under until Transmission has answered;
\* another request knows the hash of its row, if that is a torrent's, and calls
\* Transmission with the id of the row's torrent.
OpOk(o, r, ids) ==
  /\ r.status # "unborn"
  /\ o.kind = "add" =>
       /\ o.hash \in Hashes
       /\ o.phase # "lookup"
       /\ Live(r) => r.hash = IF o.known THEN o.hash ELSE o.id
       /\ o.phase = "answered" => Gave(ids, o.tid, o.hash)
  /\ o.kind \in Kinds /\ Live(r) =>
       /\ o.hash \in Hashes => r.hash = o.hash
       /\ o.phase # "lookup" => Gave(ids, o.tid, r.hash)

OpInv == \A c \in Clients : op[c].kind # "idle" => OpOk(op[c], row[op[c].id], issued)

\* An add is the only one of its row.
OneAdd == \A c, d \in Clients :
  op[c].kind = "add" /\ op[d].kind = "add" /\ op[c].id = op[d].id => c = d

TorrentInv == /\ TypeOK /\ OneRowPerHash /\ HashInv /\ HeldInv /\ MapInv
              /\ OpInv /\ OneAdd

-----------------------------------------------------------------------------
(* Steps that leave the hashes of rows alone. *)

\* A row r became q: it was not made by the step, and keeps its hash if it is
\* still there.
RowKept(r, q) ==
  /\ r.status # "unborn" => q.status # "unborn"
  /\ Live(q) => Live(r) /\ q.hash = r.hash

RowsKept == \A i \in Ids : RowKept(row[i], row'[i])

\* Transmission takes no id back.
IdsKept(ids, more) == \A t \in 1..Len(ids) : t \in 1..Len(more) /\ more[t] = ids[t]

\* Requests go on as they were, or end.
OpsKept == \A c \in Clients : op'[c] = op[c] \/ op'[c].kind = "idle"

LEMMA IdleFacts == Idle.kind = "idle" /\ Idle \in Op
<1>1. (CHOOSE i \in Ids : TRUE) \in Ids
  BY TorrentAssumption
<1>2. QED  BY <1>1 DEF Idle, Op

LEMMA GaveStays ==
  ASSUME NEW ids, NEW more, IdsKept(ids, more), NEW t, NEW h, Gave(ids, t, h)
  PROVE  Gave(more, t, h)
BY DEF Gave, IdsKept

LEMMA RowsStay ==
  ASSUME OneRowPerHash, HashInv, RowsKept
  PROVE  OneRowPerHash' /\ HashInv'
<1>1. OneRowPerHash'
  BY DEF OneRowPerHash, RowsKept, RowKept, Exists, Live
<1>2. HashInv'
  BY DEF HashInv, RowsKept, RowKept
<1>3. QED  BY <1>1, <1>2

LEMMA HeldStays ==
  ASSUME HeldInv, IdsKept(issued, issued'),
         \A h \in Hashes : tr'[h].tid # 0 => tr'[h].tid = tr[h].tid,
         \A s \in Syncs, h \in Hashes : sync'[s].snap[h].tid # 0 =>
           sync'[s].snap[h].tid \in {sync[s].snap[h].tid, tr[h].tid}
  PROVE  HeldInv'
<1>1. ASSUME NEW h \in Hashes, tr'[h].tid # 0 PROVE Gave(issued', tr'[h].tid, h)
  BY <1>1, GaveStays DEF HeldInv
<1>2. ASSUME NEW s \in Syncs, NEW h \in Hashes, sync'[s].snap[h].tid # 0
      PROVE  Gave(issued', sync'[s].snap[h].tid, h)
  BY <1>2, GaveStays DEF HeldInv
<1>3. QED  BY <1>1, <1>2 DEF HeldInv

LEMMA MapStays ==
  ASSUME MapInv, RowsKept, IdsKept(issued, issued'),
         \A i \in Ids : tids'[i] # 0 =>
           \/ tids'[i] = tids[i]
           \/ /\ row[i].status # "unborn"
              /\ Live(row'[i]) => Gave(issued', tids'[i], row'[i].hash)
  PROVE  MapInv'
<1> SUFFICES ASSUME NEW i \in Ids, tids'[i] # 0
             PROVE  /\ row'[i].status # "unborn"
                    /\ Live(row'[i]) => Gave(issued', tids'[i], row'[i].hash)
  BY DEF MapInv
<1>1. RowKept(row[i], row'[i])
  BY DEF RowsKept
<1>2. CASE tids'[i] = tids[i]
  <2>1. tids[i] # 0
    BY <1>2
  <2>2. row[i].status # "unborn" /\ (Live(row[i]) => Gave(issued, tids[i], row[i].hash))
    BY <2>1 DEF MapInv
  <2>3. \A h : Gave(issued, tids[i], h) => Gave(issued', tids[i], h)
    BY GaveStays
  <2>4. Live(row'[i]) => Live(row[i]) /\ row'[i].hash = row[i].hash
    BY <1>1 DEF RowKept
  <2>5. Live(row'[i]) => Gave(issued', tids[i], row'[i].hash)
    BY <2>2, <2>3, <2>4
  <2>6. row'[i].status # "unborn"
    BY <1>1, <2>2 DEF RowKept
  <2>7. QED  BY <1>2, <2>5, <2>6
<1>3. CASE tids'[i] # tids[i]
  BY <1>1, <1>3 DEF RowKept
<1>4. QED  BY <1>2, <1>3

LEMMA OpStays ==
  ASSUME NEW o, NEW r, NEW q, NEW ids, NEW more,
         OpOk(o, r, ids), RowKept(r, q), IdsKept(ids, more)
  PROVE  OpOk(o, q, more)
<1>1. \A t, h : Gave(ids, t, h) => Gave(more, t, h)
  BY GaveStays
<1>2. QED  BY <1>1 DEF OpOk, RowKept

LEMMA OpsStay ==
  ASSUME TypeOK, OpInv, OneAdd, RowsKept, IdsKept(issued, issued'), OpsKept
  PROVE  OpInv' /\ OneAdd'
<1>1. \A c \in Clients : op[c].id \in Ids
  BY DEF TypeOK, Op
<1>2. \A c \in Clients : op'[c].kind # "idle" => op'[c] = op[c]
  BY DEF OpsKept
<1>3. ASSUME NEW c \in Clients, op'[c].kind # "idle"
      PROVE  OpOk(op'[c], row'[op'[c].id], issued')
  <2>1. op'[c] = op[c] /\ OpOk(op[c], row[op[c].id], issued)
    BY <1>2, <1>3 DEF OpInv
  <2>2. RowKept(row[op[c].id], row'[op[c].id])
    BY <1>1 DEF RowsKept
  <2>3. QED  BY <2>1, <2>2, OpStays
<1>4. OneAdd'
  BY <1>2 DEF OneAdd
<1>5. QED  BY <1>3, <1>4 DEF OpInv

-----------------------------------------------------------------------------
(* Types. *)

LEMMA Records ==
  /\ \A i \in Ids : \A s \in Status : Blank(i, s) \in Row
  /\ Gone \in Held
  /\ NoSync \in Sync
<1>1. \A i \in Ids : \A s \in Status : Blank(i, s) \in Row
  BY DEF Blank, Row
<1>2. Gone \in Held
  BY DEF Gone, Held, Runs
<1>3. NoSync \in Sync
  BY <1>2 DEF NoSync, Sync
<1>4. QED  BY <1>1, <1>2, <1>3

LEMMA AfterType ==
  ASSUME TypeOK, NEW i \in Ids, NEW kind \in Kinds, NEW was, was.done \in BOOLEAN
  PROVE  /\ After(kind, i, was) \in Row
         /\ RowKept(row[i], After(kind, i, was)) \/ ~Exists(i)
<1>1. row[i] \in Row
  BY DEF TypeOK
<1>2. CASE kind = "pause"
  <2> DEFINE s == IF was.done THEN "completed" ELSE "paused"
             b == row[i].stamped \/ (was.done /\ ~was.stamped)
  <2>1. s \in Status /\ s \notin Absent /\ b \in BOOLEAN
    BY <1>1 DEF Row, Status, Absent
  <2>2. After(kind, i, was) = [row[i] EXCEPT !.status = s, !.stamped = b]
    BY <1>1, <1>2 DEF After, Row
  <2> HIDE DEF s, b
  <2>3. After(kind, i, was) \in Row
    BY <1>1, <2>1, <2>2 DEF Row
  <2>4. /\ After(kind, i, was).status = s
        /\ After(kind, i, was).hash = row[i].hash
    BY <1>1, <2>2 DEF Row
  <2>5. Exists(i) => RowKept(row[i], After(kind, i, was))
    BY <2>1, <2>4 DEF Absent, RowKept, Live, Exists
  <2>6. QED  BY <2>3, <2>5
<1>3. CASE kind = "resume"
  BY <1>1, <1>3 DEF After, Row, Status, Active, Absent, RowKept, Live, Exists
<1>4. CASE kind = "verify"
  BY <1>1, <1>4 DEF After, Row, Status, Active, Absent, RowKept, Live, Exists
<1>5. CASE kind = "remove"
  BY <1>1, <1>5 DEF After, Row, Status, Active, Absent, RowKept, Live, Exists
<1>6. CASE kind = "erase"
  BY <1>1, <1>6, Records DEF After, Row, Status, Active, Absent, RowKept, Live, Exists, Blank
<1>7. QED  BY <1>2, <1>3, <1>4, <1>5, <1>6 DEF Kinds

LEMMA EndOp ==
  ASSUME TypeOK, NEW c \in Clients, End(c)
  PROVE  op' \in [Clients -> Op] /\ OpsKept
<1>1. op' \in [Clients -> Op]
  BY IdleFacts DEF End, TypeOK
<1>2. OpsKept
  BY IdleFacts DEF End, TypeOK, OpsKept
<1>3. QED  BY <1>1, <1>2

\* What the end of a request does to the table and to the map.
LEMMA FinishKeeps ==
  ASSUME TypeOK, MapInv, NEW i \in Ids, NEW kind \in Kinds, NEW was, was.done \in BOOLEAN,
         Finish(kind, i, was), UNCHANGED issued
  PROVE  /\ row' \in [Ids -> Row] /\ tids' \in [Ids -> Nat] /\ announced' \in [Ids -> Nat]
         /\ overtaken' \in [Ids -> Nat]
         /\ RowsKept
         /\ MapInv'
<1>1. row' \in [Ids -> Row] /\ RowsKept
  <2>1. row' = [row EXCEPT ![i] = IF Exists(i) THEN After(kind, i, was) ELSE row[i]]
    BY DEF Finish, Update, TypeOK
  <2>2. After(kind, i, was) \in Row /\ (Exists(i) => RowKept(row[i], After(kind, i, was)))
    BY AfterType
  <2>3. row' \in [Ids -> Row]
    BY <2>1, <2>2 DEF TypeOK
  <2>4. ASSUME NEW j \in Ids PROVE RowKept(row[j], row'[j])
    <3>1. RowKept(row[j], row[j])
      BY DEF RowKept
    <3>2. CASE j = i /\ Exists(i)
      BY <2>1, <2>2, <3>2 DEF TypeOK
    <3>3. CASE ~(j = i /\ Exists(i))
      BY <2>1, <3>1, <3>3 DEF TypeOK
    <3>4. QED  BY <3>2, <3>3
  <2>5. QED  BY <2>3, <2>4 DEF RowsKept
<1>2. tids' \in [Ids -> Nat] /\ \A j \in Ids : tids'[j] \in {0, tids[j]}
  BY DEF Finish, TypeOK
<1>3. announced' \in [Ids -> Nat] /\ overtaken' \in [Ids -> Nat]
  BY DEF Finish, TypeOK
<1>4. IdsKept(issued, issued')
  BY DEF IdsKept
<1>5. \A j \in Ids : tids'[j] # 0 => tids'[j] = tids[j]
  BY <1>2
<1>6. MapInv'
  BY <1>1, <1>4, <1>5, MapStays
<1>7. QED  BY <1>1, <1>2, <1>3, <1>6

-----------------------------------------------------------------------------
(* The steps. *)

\* A step that keeps the rows, the ids and the requests, and changes of the
\* rest only what the lemmas above allow.
LEMMA QuietStep ==
  ASSUME TorrentInv, TypeOK', RowsKept, MapInv', HeldInv', UNCHANGED issued, OpsKept
  PROVE  TorrentInv'
<1>1. IdsKept(issued, issued')
  BY DEF IdsKept
<1>2. OneRowPerHash' /\ HashInv'
  BY RowsStay DEF TorrentInv
<1>3. OpInv' /\ OneAdd'
  BY <1>1, OpsStay DEF TorrentInv
<1>4. QED  BY <1>2, <1>3 DEF TorrentInv

\* What a step that leaves tr and sync alone does to HeldInv.
LEMMA HeldSame ==
  ASSUME HeldInv, UNCHANGED <<tr, sync, issued>>
  PROVE  HeldInv'
BY DEF HeldInv

LEMMA AddFailedStep ==
  ASSUME TorrentInv, NEW c \in Clients, AddFailed(c)
  PROVE  TorrentInv'
<1> DEFINE i == op[c].id
<1>1. i \in Ids /\ row[i] \in Row
  BY DEF TorrentInv, TypeOK, Op
<1> DEFINE q == [row[i] EXCEPT !.status = "error"]
<1>2. row' = [row EXCEPT ![i] = IF Exists(i) THEN q ELSE row[i]]
  BY <1>1 DEF AddFailed, Update, TorrentInv, TypeOK
<1>3. q \in Row /\ q.status = "error" /\ q.hash = row[i].hash
  BY <1>1 DEF Row, Status
<1> HIDE DEF q
<1>4. RowsKept
  BY <1>1, <1>2, <1>3 DEF RowsKept, RowKept, Live, Exists, Absent, TorrentInv, TypeOK
<1>5. row' \in [Ids -> Row]
  BY <1>1, <1>2, <1>3 DEF TorrentInv, TypeOK
<1>6. op' \in [Clients -> Op] /\ OpsKept
  BY EndOp DEF AddFailed, TorrentInv
<1>7. TypeOK'
  BY <1>5, <1>6 DEF TorrentInv, TypeOK, AddFailed
<1>8. IdsKept(issued, issued')
  BY DEF IdsKept, AddFailed
<1>9. MapInv'
  BY <1>4, <1>8, MapStays DEF AddFailed, TorrentInv
<1>10. HeldInv'
  BY HeldSame DEF AddFailed, TorrentInv
<1>11. QED  BY <1>4, <1>6, <1>7, <1>9, <1>10, QuietStep DEF AddFailed

LEMMA RequestAnsweredStep ==
  ASSUME TorrentInv, NEW c \in Clients, RequestAnswered(c)
  PROVE  TorrentInv'
<1>1. op[c].id \in Ids /\ op[c].kind \in Kinds /\ op[c].was.done \in BOOLEAN
  BY DEF RequestAnswered, TorrentInv, TypeOK, Op
<1>2. /\ row' \in [Ids -> Row] /\ tids' \in [Ids -> Nat] /\ announced' \in [Ids -> Nat]
      /\ overtaken' \in [Ids -> Nat] /\ RowsKept /\ MapInv'
  BY <1>1, FinishKeeps DEF RequestAnswered, TorrentInv
<1>3. op' \in [Clients -> Op] /\ OpsKept
  BY EndOp DEF RequestAnswered, TorrentInv
<1>4. TypeOK'
  BY <1>2, <1>3 DEF TorrentInv, TypeOK, RequestAnswered
<1>5. HeldInv'
  BY HeldSame DEF RequestAnswered, TorrentInv
<1>6. QED  BY <1>2, <1>3, <1>4, <1>5, QuietStep DEF RequestAnswered

LEMMA RowsSame == ASSUME UNCHANGED row PROVE RowsKept
BY DEF RowsKept, RowKept

LEMMA MapSame ==
  ASSUME MapInv, UNCHANGED <<row, tids, issued>>
  PROVE  MapInv'
BY DEF MapInv

LEMMA RequestFailedStep ==
  ASSUME TorrentInv, NEW c \in Clients, RequestFailed(c)
  PROVE  TorrentInv'
<1>1. op' \in [Clients -> Op] /\ OpsKept
  BY EndOp DEF RequestFailed, TorrentInv
<1>2. TypeOK'
  BY <1>1 DEF TorrentInv, TypeOK, RequestFailed
<1>3. RowsKept
  BY RowsSame DEF RequestFailed
<1>4. HeldInv' /\ MapInv'
  BY HeldSame, MapSame DEF RequestFailed, TorrentInv
<1>5. QED  BY <1>1, <1>2, <1>3, <1>4, QuietStep DEF RequestFailed

LEMMA RegressType ==
  ASSUME TypeOK, Regress
  PROVE  regressed' \in [Hashes -> Nat]
BY DEF Regress, TypeOK

LEMMA MoveStep ==
  ASSUME TorrentInv, NEW h \in Hashes, Move(h)
  PROVE  TorrentInv'
<1>1. /\ tr' \in [Hashes -> Held]
      /\ \A k \in Hashes : tr'[k].tid # 0 => tr'[k].tid = tr[k].tid
  <2>1. tr \in [Hashes -> Held] /\ tr[h] \in Held
    BY DEF TorrentInv, TypeOK
  <2>2. CASE tr' = [tr EXCEPT ![h] = Gone]
    BY <2>1, <2>2, Records DEF Gone
  <2>3. ASSUME NEW run \in Runs, NEW done \in BOOLEAN,
               tr' = [tr EXCEPT ![h].run = run, ![h].done = done]
        PROVE  /\ tr' \in [Hashes -> Held]
               /\ \A k \in Hashes : tr'[k].tid # 0 => tr'[k].tid = tr[k].tid
    BY <2>1, <2>3 DEF Held
  <2>4. QED  BY <2>2, <2>3 DEF Move
<1>2. moves' \in Nat /\ regressed' \in [Hashes -> Nat]
  BY RegressType DEF Move, TorrentInv, TypeOK
<1>3. TypeOK'
  BY <1>1, <1>2 DEF Move, TorrentInv, TypeOK
<1>4. IdsKept(issued, issued')
  BY DEF IdsKept, Move
<1>5. HeldInv'
  BY <1>1, <1>4, HeldStays DEF Move, TorrentInv
<1>6. RowsKept /\ MapInv' /\ OpsKept
  BY RowsSame, MapSame DEF Move, TorrentInv, OpsKept
<1>7. QED  BY <1>3, <1>5, <1>6, QuietStep DEF Move

LEMMA SyncStatsStep ==
  ASSUME TorrentInv, NEW s \in Syncs, SyncStats(s)
  PROVE  TorrentInv'
<1> DEFINE new == [walking |-> TRUE, snap |-> tr, left |-> {h \in Hashes : tr[h].tid # 0}]
<1>1. sync' = [sync EXCEPT ![s] = new] /\ new \in Sync /\ new.snap = tr
  BY DEF SyncStats, Sync, TorrentInv, TypeOK
<1> HIDE DEF new
<1>2. sync' \in [Syncs -> Sync]
  BY <1>1 DEF TorrentInv, TypeOK
<1>3. \A k \in Syncs, h \in Hashes : sync'[k].snap[h].tid \in {sync[k].snap[h].tid, tr[h].tid}
  BY <1>1 DEF TorrentInv, TypeOK
<1>4. TypeOK'
  BY <1>2 DEF SyncStats, TorrentInv, TypeOK
<1>5. IdsKept(issued, issued')
  BY DEF IdsKept, SyncStats
<1>6. HeldInv'
  BY <1>3, <1>5, HeldStays DEF SyncStats, TorrentInv
<1>7. RowsKept /\ MapInv' /\ OpsKept
  BY RowsSame, MapSame DEF SyncStats, TorrentInv, OpsKept
<1>8. QED  BY <1>4, <1>6, <1>7, QuietStep DEF SyncStats

LEMMA SyncTorrentStep ==
  ASSUME TorrentInv, NEW s \in Syncs, NEW h \in Hashes, SyncTorrent(s, h)
  PROVE  TorrentInv'
<1> DEFINE t == sync[s].snap[h]
           b(i) == \/ t.done /\ row[i].status \in {"downloading", "adding"} /\ ~row[i].stamped
                   \/ row[i].stamped /\ ~(~t.done /\ Shown(t, row[i].status) = "downloading")
           q(i) == [status |-> Shown(t, row[i].status), hash |-> h, done |-> t.done,
                    stamped |-> b(i)]
<1>1. t \in Held /\ row \in [Ids -> Row] /\ tids \in [Ids -> Nat]
  BY DEF TorrentInv, TypeOK, Sync
<1>2. /\ row' = [i \in Ids |-> IF i \in Mine(h) THEN q(i) ELSE row[i]]
      /\ tids' = [i \in Ids |-> IF i \in Mine(h) THEN t.tid ELSE tids[i]]
      /\ \E passed : sync' = [sync EXCEPT ![s].left = @ \ (passed \cup {h})]
  BY DEF SyncTorrent
<1>3. \A i \in Ids : Shown(t, row[i].status) \in Status \ Absent
  BY <1>1 DEF Shown, Held, Runs, Row, Status, Active, Absent
<1>4. \A i \in Ids : b(i) \in BOOLEAN
  OBVIOUS
<1>5. \A i \in Ids : q(i) \in Row /\ q(i).hash = h /\ q(i).status \notin Absent
  <2> HIDE DEF b, t
  <2>1. t.done \in BOOLEAN
    BY <1>1 DEF Held
  <2>2. QED  BY <1>3, <1>4, <2>1 DEF Row
<1>6. \A i \in Mine(h) : Live(row[i]) /\ row[i].hash = h
  BY DEF Mine, ByHash, Exists, Live
<1> HIDE DEF q, t
<1>7. row' \in [Ids -> Row]
  BY <1>1, <1>2, <1>5
<1>8. RowsKept
  <2> SUFFICES ASSUME NEW i \in Ids PROVE RowKept(row[i], row'[i])
    BY DEF RowsKept
  <2>1. CASE i \in Mine(h)
    BY <1>2, <1>5, <1>6, <2>1 DEF RowKept, Absent
  <2>2. CASE i \notin Mine(h)
    BY <1>2, <2>2 DEF RowKept
  <2>3. QED  BY <2>1, <2>2
<1>9. tids' \in [Ids -> Nat]
  <2>1. t.tid \in Nat
    BY <1>1 DEF Held
  <2>2. QED  BY <1>1, <1>2, <2>1
<1>10. announced' \in [Ids -> Nat]
  BY DEF SyncTorrent, TorrentInv, TypeOK
<1>11. /\ sync' \in [Syncs -> Sync]
       /\ \A k \in Syncs : sync'[k].snap = sync[k].snap
  <2>1. PICK passed : sync' = [sync EXCEPT ![s].left = @ \ (passed \cup {h})]
    BY <1>2
  <2>2. sync \in [Syncs -> Sync]
    BY DEF TorrentInv, TypeOK
  <2>3. QED  BY <2>1, <2>2 DEF Sync
<1>12. TypeOK'
  BY <1>7, <1>9, <1>10, <1>11 DEF SyncTorrent, TorrentInv, TypeOK
<1>13. IdsKept(issued, issued')
  BY DEF IdsKept, SyncTorrent
<1>14. HeldInv'
  BY <1>11, <1>13, HeldStays DEF SyncTorrent, TorrentInv
<1>15. t.tid # 0 => Gave(issued, t.tid, h)
  BY DEF TorrentInv, HeldInv, t
<1>16. MapInv'
  <2> SUFFICES ASSUME NEW i \in Ids, tids'[i] # 0
               PROVE  \/ tids'[i] = tids[i]
                      \/ /\ row[i].status # "unborn"
                         /\ Live(row'[i]) => Gave(issued', tids'[i], row'[i].hash)
    BY <1>8, <1>13, MapStays DEF TorrentInv
  <2>1. CASE i \in Mine(h)
    BY <1>2, <1>5, <1>6, <1>15, <2>1 DEF SyncTorrent, Live, Absent
  <2>2. CASE i \notin Mine(h)
    BY <1>2, <2>2
  <2>3. QED  BY <2>1, <2>2
<1>17. OpsKept /\ UNCHANGED issued
  BY DEF SyncTorrent, OpsKept
<1>18. QED  BY <1>8, <1>12, <1>14, <1>16, <1>17, QuietStep

LEMMA ReconcileStep ==
  ASSUME TorrentInv, NEW s \in Syncs, Reconcile(s)
  PROVE  TorrentInv'
<1> DEFINE q(i) == [row[i] EXCEPT !.status = "removed"]
<1>1. /\ row' = [i \in Ids |-> IF i \in Missing(s) THEN q(i) ELSE row[i]]
      /\ tids' = [i \in Ids |-> IF i \in Missing(s) THEN 0 ELSE tids[i]]
      /\ sync' = [sync EXCEPT ![s] = NoSync]
  BY DEF Reconcile
<1>2. \A i \in Ids : q(i) \in Row /\ q(i).hash = row[i].hash /\ q(i).status = "removed"
  <2> SUFFICES ASSUME NEW i \in Ids
               PROVE  q(i) \in Row /\ q(i).hash = row[i].hash /\ q(i).status = "removed"
    OBVIOUS
  <2>1. row[i] \in Row
    BY DEF TorrentInv, TypeOK
  <2>2. QED  BY <2>1 DEF Row, Status
<1>3. \A i \in Missing(s) : Live(row[i])
  BY DEF Missing, Live, Active, Absent
<1> HIDE DEF q
<1>4. row' \in [Ids -> Row] /\ tids' \in [Ids -> Nat]
  BY <1>1, <1>2 DEF TorrentInv, TypeOK
<1>5. RowsKept
  <2> SUFFICES ASSUME NEW i \in Ids PROVE RowKept(row[i], row'[i])
    BY DEF RowsKept
  <2>1. CASE i \in Missing(s)
    BY <1>1, <1>2, <1>3, <2>1 DEF RowKept
  <2>2. CASE i \notin Missing(s)
    BY <1>1, <2>2 DEF RowKept
  <2>3. QED  BY <2>1, <2>2
<1>6. /\ sync' \in [Syncs -> Sync]
      /\ \A k \in Syncs, h \in Hashes : sync'[k].snap[h].tid \in {0, sync[k].snap[h].tid}
  BY <1>1, Records DEF TorrentInv, TypeOK, NoSync, Gone
<1>7. TypeOK'
  BY <1>4, <1>6 DEF Reconcile, TorrentInv, TypeOK
<1>8. IdsKept(issued, issued')
  BY DEF IdsKept, Reconcile
<1>9. HeldInv'
  BY <1>6, <1>8, HeldStays DEF Reconcile, TorrentInv
<1>10. MapInv'
  BY <1>1, <1>5, <1>8, MapStays DEF TorrentInv
<1>11. OpsKept /\ UNCHANGED issued
  BY DEF Reconcile, OpsKept
<1>12. QED  BY <1>5, <1>7, <1>9, <1>10, <1>11, QuietStep

LEMMA RestartStep ==
  ASSUME TorrentInv, Restart
  PROVE  TorrentInv'
<1>1. PICK up \in BOOLEAN :
        tids' = [i \in Ids |->
                   IF up /\ Exists(i) /\ row[i].status # "removed" /\ row[i].hash \in Hashes
                     THEN tr[row[i].hash].tid ELSE 0]
  BY DEF Restart
<1>2. \A h \in Hashes : tr[h].tid \in Nat
  BY DEF TorrentInv, TypeOK, Held
<1>3. tids' \in [Ids -> Nat]
  BY <1>1, <1>2
<1>4. op' \in [Clients -> Op] /\ OpsKept
  BY IdleFacts DEF Restart, OpsKept
<1>5. sync' \in [Syncs -> Sync]
  BY Records DEF Restart
<1>6. TypeOK'
  BY <1>3, <1>4, <1>5 DEF Restart, TorrentInv, TypeOK
<1>7. IdsKept(issued, issued') /\ RowsKept
  BY RowsSame DEF IdsKept, Restart
<1>8. HeldInv'
  BY <1>7, HeldStays DEF Restart, TorrentInv, NoSync, Gone
<1>9. MapInv'
  <2> SUFFICES ASSUME NEW i \in Ids, tids'[i] # 0
               PROVE  row[i].status # "unborn" /\ Gave(issued', tids'[i], row'[i].hash)
    BY <1>7, MapStays DEF TorrentInv
  <2>1. Exists(i) /\ row[i].hash \in Hashes /\ tids'[i] = tr[row[i].hash].tid
    BY <1>1
  <2>2. QED  BY <2>1 DEF Restart, TorrentInv, HeldInv, Exists, Absent
<1>10. QED  BY <1>4, <1>6, <1>7, <1>8, <1>9, QuietStep DEF Restart

\* A step in which one request goes on.
LEMMA OneOpStep ==
  ASSUME TypeOK, OpInv, OneAdd, RowsKept, IdsKept(issued, issued'),
         NEW c \in Clients, \A d \in Clients \ {c} : op'[d] = op[d],
         OpOk(op'[c], row'[op'[c].id], issued'),
         op'[c].kind = "add" => op[c].kind = "add" /\ op'[c].id = op[c].id
  PROVE  OpInv' /\ OneAdd'
<1>1. ASSUME NEW d \in Clients \ {c}, op'[d].kind # "idle"
      PROVE  OpOk(op'[d], row'[op'[d].id], issued')
  <2>1. op[d].id \in Ids /\ op'[d] = op[d] /\ OpOk(op[d], row[op[d].id], issued)
    BY <1>1 DEF TypeOK, Op, OpInv
  <2>2. RowKept(row[op[d].id], row'[op[d].id])
    BY <2>1 DEF RowsKept
  <2>3. QED  BY <2>1, <2>2, OpStays
<1>2. OpInv'
  BY <1>1 DEF OpInv
<1>3. OneAdd'
  BY DEF OneAdd
<1>4. QED  BY <1>2, <1>3

LEMMA LookupStep ==
  ASSUME TorrentInv, NEW c \in Clients, Lookup(c)
  PROVE  TorrentInv'
<1> DEFINE i == op[c].id
<1>1. i \in Ids /\ op[c] \in Op /\ op[c].kind = "resume" /\ op[c].phase = "lookup"
  BY DEF Lookup, TorrentInv, TypeOK, Op
<1>2. RowsKept /\ IdsKept(issued, issued') /\ HeldInv'
  BY RowsSame, HeldSame DEF Lookup, IdsKept, TorrentInv
<1>3. CASE End(c) /\ UNCHANGED tids
  <2>1. op' \in [Clients -> Op] /\ OpsKept
    BY <1>3, EndOp DEF TorrentInv
  <2>2. TypeOK'
    BY <1>3, <2>1 DEF Lookup, TorrentInv, TypeOK
  <2>3. MapInv'
    BY <1>3, MapSame DEF Lookup, TorrentInv
  <2>4. QED  BY <1>2, <2>1, <2>2, <2>3, QuietStep DEF Lookup
<1>4. ASSUME NEW h \in Hashes, h = op[c].hash, tr[h].tid # 0,
             op' = [op EXCEPT ![c].tid = tr[h].tid, ![c].phase = "sent"],
             tids' = [tids EXCEPT ![i] = tr[h].tid]
      PROVE  TorrentInv'
  <2>1. tr[h].tid \in Nat /\ Gave(issued, tr[h].tid, h)
    BY <1>4 DEF TorrentInv, TypeOK, Held, HeldInv
  <2>2. /\ row[i].status # "unborn"
        /\ Live(row[i]) => row[i].hash = h
    BY <1>1, <1>4 DEF TorrentInv, OpInv, OpOk, Kinds
  <2>3. /\ op' \in [Clients -> Op]
        /\ \A d \in Clients \ {c} : op'[d] = op[d]
        /\ op'[c].kind = "resume" /\ op'[c].id = i /\ op'[c].hash = h /\ op'[c].tid = tr[h].tid
    BY <1>1, <1>4, <2>1 DEF TorrentInv, TypeOK, Op
  <2>4. tids' \in [Ids -> Nat]
    BY <1>1, <1>4, <2>1 DEF TorrentInv, TypeOK
  <2>5. TypeOK'
    BY <2>3, <2>4 DEF Lookup, TorrentInv, TypeOK
  <2>6. UNCHANGED <<row, issued>>
    BY DEF Lookup
  <2>7. MapInv'
    <3>1. \A j \in Ids : tids'[j] # 0 =>
            tids'[j] = tids[j] \/ /\ row[j].status # "unborn"
                                  /\ Live(row'[j]) => Gave(issued', tids'[j], row'[j].hash)
      BY <1>1, <1>4, <2>1, <2>2, <2>6 DEF TorrentInv, TypeOK
    <3>2. QED  BY <1>2, <3>1, MapStays DEF TorrentInv
  <2>8. OpOk(op'[c], row'[op'[c].id], issued')
    BY <2>1, <2>2, <2>3, <2>6 DEF OpOk
  <2>9. OpInv' /\ OneAdd'
    BY <1>2, <2>3, <2>8, OneOpStep DEF TorrentInv
  <2>10. OneRowPerHash' /\ HashInv'
    BY <1>2, RowsStay DEF TorrentInv
  <2>11. QED  BY <1>2, <2>5, <2>7, <2>9, <2>10 DEF TorrentInv
<1>5. QED  BY <1>3, <1>4 DEF Lookup

LEMMA ServeStep ==
  ASSUME TorrentInv, NEW c \in Clients, Serve(c)
  PROVE  TorrentInv'
<1> DEFINE h == op[c].hash
           tid == IF tr[h].tid = 0 THEN Len(issued) + 1 ELSE tr[h].tid
<1>1. op[c] \in Op /\ op[c].id \in Ids /\ op[c].kind # "idle" /\ op[c].phase = "sent"
      /\ OpOk(op[c], row[op[c].id], issued)
  BY DEF Serve, TorrentInv, TypeOK, Op, OpInv
<1>2. RowsKept /\ UNCHANGED <<row, tids>> /\ regressed' \in [Hashes -> Nat]
  BY RowsSame, RegressType DEF Serve, TorrentInv
<1>3. CASE op[c].kind = "add"
  <2>1. h \in Hashes /\ tr[h] \in Held /\ tr[h].tid \in Nat
    BY <1>1, <1>3 DEF OpOk, TorrentInv, TypeOK, Held
  <2>2. PICK run \in {"stopped", "downloading"} :
          tr' = IF tr[h].tid = 0 THEN [tr EXCEPT ![h] = [tid |-> tid, run |-> run, done |-> FALSE]]
                ELSE tr
    BY <1>3 DEF Serve
  <2>3. /\ issued' = IF tr[h].tid = 0 THEN Append(issued, h) ELSE issued
        /\ op' = [op EXCEPT ![c].phase = "answered", ![c].tid = tid]
    BY <1>3 DEF Serve
  <2>4. issued \in Seq(Hashes)
    BY DEF TorrentInv, TypeOK
  <2>5. IdsKept(issued, issued') /\ issued' \in Seq(Hashes)
    BY <2>1, <2>3, <2>4 DEF IdsKept
  <2>6. tid \in Nat /\ tid # 0 /\ Gave(issued', tid, h)
    <3>1. CASE tr[h].tid = 0
      BY <2>1, <2>3, <2>4, <3>1 DEF Gave
    <3>2. CASE tr[h].tid # 0
      BY <2>1, <2>3, <3>2 DEF Gave, TorrentInv, HeldInv
    <3>3. QED  BY <3>1, <3>2
  <2> HIDE DEF tid
  <2>7. /\ op' \in [Clients -> Op]
        /\ \A d \in Clients \ {c} : op'[d] = op[d]
        /\ op'[c] = [op[c] EXCEPT !.phase = "answered", !.tid = tid]
    BY <1>1, <2>3, <2>6 DEF TorrentInv, TypeOK, Op
  <2>8. /\ op'[c].kind = "add" /\ op'[c].id = op[c].id /\ op'[c].hash = h
        /\ op'[c].known = op[c].known /\ op'[c].tid = tid /\ op'[c].phase = "answered"
    BY <1>1, <1>3, <2>7 DEF Op
  <2>9. tr' \in [Hashes -> Held]
    BY <2>1, <2>2, <2>6 DEF TorrentInv, TypeOK, Held, Runs
  <2>10. \A k \in Hashes : tr'[k].tid = tr[k].tid \/ (k = h /\ tr'[k].tid = tid)
    BY <2>1, <2>2 DEF TorrentInv, TypeOK
  <2>11. TypeOK'
    BY <1>2, <2>5, <2>7, <2>9 DEF Serve, TorrentInv, TypeOK
  <2>12. HeldInv'
    <3>1. ASSUME NEW k \in Hashes, tr'[k].tid # 0 PROVE Gave(issued', tr'[k].tid, k)
      <4>1. tr[k].tid # 0 => Gave(issued', tr[k].tid, k)
        BY <2>5, GaveStays DEF TorrentInv, HeldInv
      <4>2. QED  BY <2>6, <2>10, <3>1, <4>1
    <3>2. ASSUME NEW s \in Syncs, NEW k \in Hashes, sync[s].snap[k].tid # 0
          PROVE  Gave(issued', sync[s].snap[k].tid, k)
      BY <2>5, <3>2, GaveStays DEF TorrentInv, HeldInv
    <3>3. QED  BY <3>1, <3>2 DEF HeldInv, Serve
  <2>13. MapInv'
    BY <1>2, <2>5, MapStays DEF TorrentInv
  <2>14. OpOk(op'[c], row'[op'[c].id], issued')
    BY <1>1, <1>2, <1>3, <2>1, <2>6, <2>8 DEF OpOk, Kinds
  <2>15. OpInv' /\ OneAdd'
    BY <1>2, <1>3, <2>5, <2>7, <2>8, <2>14, OneOpStep DEF TorrentInv
  <2>16. OneRowPerHash' /\ HashInv'
    BY <1>2, RowsStay DEF TorrentInv
  <2>17. QED  BY <2>11, <2>12, <2>13, <2>15, <2>16 DEF TorrentInv
<1>4. CASE op[c].kind # "add"
  <2>1. /\ tr' = [k \in Hashes |-> IF tr[k].tid = op[c].tid THEN Served(op[c].kind, tr[k])
                                   ELSE tr[k]]
        /\ op' = [op EXCEPT ![c].phase = "answered"]
        /\ UNCHANGED <<issued, sync>>
    BY <1>4 DEF Serve
  <2>2. \A k \in Hashes : /\ Served(op[c].kind, tr[k]) \in Held
                          /\ Served(op[c].kind, tr[k]).tid \in {0, tr[k].tid}
    <3>1. \A k \in Hashes : tr[k] \in Held
      BY DEF TorrentInv, TypeOK
    <3>2. \A t \in Held : /\ Served(op[c].kind, t) \in Held
                          /\ Served(op[c].kind, t).tid \in {0, t.tid}
      BY Records DEF Served, Held, Runs, Gone
    <3>3. QED  BY <3>1, <3>2
  <2>3. /\ tr' \in [Hashes -> Held]
        /\ \A k \in Hashes : tr'[k].tid # 0 => tr'[k].tid = tr[k].tid
    BY <2>1, <2>2 DEF TorrentInv, TypeOK
  <2>4. /\ op' \in [Clients -> Op]
        /\ \A d \in Clients \ {c} : op'[d] = op[d]
        /\ op'[c] = [op[c] EXCEPT !.phase = "answered"]
    BY <1>1, <2>1 DEF TorrentInv, TypeOK, Op
  <2>5. /\ op'[c].kind = op[c].kind /\ op'[c].id = op[c].id /\ op'[c].hash = op[c].hash
        /\ op'[c].tid = op[c].tid /\ op'[c].phase = "answered"
    BY <1>1, <2>4 DEF Op
  <2>6. IdsKept(issued, issued')
    BY <2>1 DEF IdsKept
  <2>7. TypeOK'
    BY <1>2, <2>1, <2>3, <2>4 DEF Serve, TorrentInv, TypeOK
  <2>8. HeldInv'
    BY <2>1, <2>3, <2>6, HeldStays DEF TorrentInv
  <2>9. MapInv'
    BY <1>2, <2>6, MapStays DEF TorrentInv
  <2>10. OpOk(op'[c], row'[op'[c].id], issued')
    BY <1>1, <1>2, <1>4, <2>1, <2>5 DEF OpOk
  <2>11. OpInv' /\ OneAdd'
    BY <1>2, <1>4, <2>4, <2>5, <2>6, <2>10, OneOpStep DEF TorrentInv
  <2>12. OneRowPerHash' /\ HashInv'
    BY <1>2, RowsStay DEF TorrentInv
  <2>13. QED  BY <2>7, <2>8, <2>9, <2>11, <2>12 DEF TorrentInv
<1>5. QED  BY <1>3, <1>4

LEMMA RequestStep ==
  ASSUME TorrentInv, NEW c \in Clients, NEW i \in Ids, NEW kind \in Kinds, Request(c, i, kind)
  PROVE  TorrentInv'
<1> DEFINE was == [done |-> row[i].done, stamped |-> row[i].stamped,
                   announced |-> announced[i]]
<1>1. /\ row[i] \in Row /\ tids[i] \in Nat /\ op[c] = Idle /\ Exists(i)
      /\ was \in [done : BOOLEAN, stamped : BOOLEAN, announced : Nat] /\ was.done \in BOOLEAN
  BY DEF Request, Begin, TorrentInv, TypeOK, Row
<1>2. requests' \in Nat /\ UNCHANGED <<tr, issued, sync, load, moves, regressed>>
  BY DEF Request, Begin, TorrentInv, TypeOK
<1>3. HeldInv' /\ IdsKept(issued, issued')
  BY <1>2, HeldSame DEF TorrentInv, IdsKept
<1>4. CASE Finish(kind, i, was) /\ UNCHANGED op
  <2>1. /\ row' \in [Ids -> Row] /\ tids' \in [Ids -> Nat] /\ announced' \in [Ids -> Nat]
        /\ overtaken' \in [Ids -> Nat] /\ RowsKept /\ MapInv'
    <3> HIDE DEF was
    <3>1. QED  BY <1>1, <1>2, <1>4, FinishKeeps DEF TorrentInv
  <2>2. OpsKept
    BY <1>4 DEF OpsKept
  <2>3. TypeOK'
    BY <1>2, <1>4, <2>1 DEF TorrentInv, TypeOK
  <2>4. QED  BY <1>2, <1>3, <2>1, <2>2, <2>3, QuietStep
<1>5. CASE ~(tids[i] = 0 /\ kind # "resume")
  <2> DEFINE o == [Idle EXCEPT !.kind = kind, !.id = i, !.hash = row[i].hash, !.was = was,
                               !.tid = tids[i],
                               !.phase = IF tids[i] = 0 THEN "lookup" ELSE "sent"]
  <2>1. op' = [op EXCEPT ![c] = o] /\ UNCHANGED <<row, tids, announced, overtaken>>
    BY <1>5 DEF Request
  <2>2. /\ o \in Op /\ o.kind = kind /\ o.id = i /\ o.hash = row[i].hash /\ o.tid = tids[i]
        /\ o.phase = IF tids[i] = 0 THEN "lookup" ELSE "sent"
    <3>1. row[i].hash \in Hashes \cup Ids
      BY <1>1 DEF Row
    <3> HIDE DEF was
    <3>2. QED  BY <1>1, <3>1, IdleFacts DEF Op
  <2> HIDE DEF o
  <2>3. /\ op' \in [Clients -> Op] /\ op'[c] = o
        /\ \A d \in Clients \ {c} : op'[d] = op[d]
    BY <2>1, <2>2 DEF TorrentInv, TypeOK
  <2>4. TypeOK'
    BY <1>2, <2>1, <2>3 DEF TorrentInv, TypeOK
  <2>5. RowsKept /\ MapInv'
    BY <1>2, <2>1, RowsSame, MapSame DEF TorrentInv
  <2>6. kind # "add"
    BY DEF Kinds
  <2>7. OpOk(o, row[i], issued)
    BY <1>1, <2>2, <2>6 DEF OpOk, TorrentInv, MapInv, Exists, Live, Absent
  <2>8. OpInv' /\ OneAdd'
    <3>1. OpOk(op'[c], row'[op'[c].id], issued')
      BY <1>2, <2>1, <2>2, <2>3, <2>7
    <3>2. QED  BY <1>3, <2>2, <2>3, <2>5, <2>6, <3>1, OneOpStep DEF TorrentInv
  <2>9. OneRowPerHash' /\ HashInv'
    BY <2>5, RowsStay DEF TorrentInv
  <2>10. QED  BY <1>3, <2>4, <2>5, <2>8, <2>9 DEF TorrentInv
<1>6. QED  BY <1>4, <1>5 DEF Request

\* A request on row k, other than the one in which row k is added, is about a
\* row that was there: what the step does to k is all that matters to it.
LEMMA OpOfRow ==
  ASSUME TorrentInv, NEW d \in Clients, op[d].kind # "idle"
  PROVE  op[d] \in Op /\ op[d].id \in Ids /\ row[op[d].id] \in Row
         /\ row[op[d].id].status # "unborn"
         /\ OpOk(op[d], row[op[d].id], issued)
BY DEF TorrentInv, TypeOK, Op, OpInv, OpOk

LEMMA AddTorrentStep ==
  ASSUME TorrentInv, NEW c \in Clients, NEW i \in Ids, NEW h \in Hashes, NEW known \in BOOLEAN,
         AddTorrent(c, i, h, known)
  PROVE  TorrentInv'
<1> DEFINE temp == IF known THEN h ELSE i
           q == [Blank(i, "adding") EXCEPT !.hash = temp]
           o == [Idle EXCEPT !.kind = "add", !.id = i, !.hash = h, !.known = known]
<1>1. /\ row[i].status = "unborn" /\ op[c] = Idle
      /\ row' = [j \in Ids |-> IF j = i THEN q
                               ELSE IF j \in ByHash(temp) THEN Blank(j, "deleted")
                               ELSE row[j]]
      /\ tids' = [j \in Ids |-> IF j \in ByHash(temp) THEN 0 ELSE tids[j]]
      /\ op' = [op EXCEPT ![c] = o]
      /\ UNCHANGED <<tr, issued, sync, load, moves, announced, overtaken, regressed>>
      /\ requests' \in Nat
  BY DEF AddTorrent, Begin, TorrentInv, TypeOK
<1>2. /\ q \in Row /\ q.status = "adding" /\ q.hash = temp
  BY DEF Blank, Row, Status, Active
<1>3. o \in Op /\ o.kind = "add" /\ o.id = i /\ o.hash = h /\ o.known = known /\ o.phase = "sent"
  BY IdleFacts DEF Op, Idle
<1>4. \A j \in Ids : Blank(j, "deleted") \in Row /\ Blank(j, "deleted").status = "deleted"
  BY Records DEF Blank, Status, Absent
<1> HIDE DEF q, o
<1>5. row' \in [Ids -> Row] /\ tids' \in [Ids -> Nat] /\ op' \in [Clients -> Op]
  BY <1>1, <1>2, <1>3, <1>4 DEF TorrentInv, TypeOK
<1>6. TypeOK'
  BY <1>1, <1>5 DEF TorrentInv, TypeOK
<1>7. HeldInv' /\ IdsKept(issued, issued')
  BY <1>1, HeldSame DEF TorrentInv, IdsKept
<1>8. ASSUME NEW j \in Ids, j # i
      PROVE  RowKept(row[j], row'[j]) /\ (Live(row'[j]) => row'[j].hash # temp)
  BY <1>1, <1>4, <1>8 DEF RowKept, Live, Absent, ByHash, Exists
<1>9. row'[i] = q
  BY <1>1
<1>10. temp \in Hashes \cup {i}
  OBVIOUS
<1>11. OneRowPerHash'
  <2> SUFFICES ASSUME NEW j \in Ids, NEW k \in Ids, Live(row'[j]), Live(row'[k]),
                      row'[j].hash = row'[k].hash
               PROVE  j = k
    BY DEF OneRowPerHash, Exists, Live
  <2>1. CASE j = i \/ k = i
    BY <1>2, <1>8, <1>9, <2>1
  <2>2. CASE j # i /\ k # i
    <3>1. Live(row[j]) /\ Live(row[k]) /\ row[j].hash = row[k].hash
      BY <1>8, <2>2 DEF RowKept
    <3>2. QED  BY <3>1 DEF TorrentInv, OneRowPerHash, Exists, Live
  <2>3. QED  BY <2>1, <2>2
<1>12. HashInv'
  <2> SUFFICES ASSUME NEW j \in Ids, Live(row'[j]) PROVE row'[j].hash \in Hashes \cup {j}
    BY DEF HashInv
  <2>1. CASE j = i
    BY <1>2, <1>9, <1>10, <2>1
  <2>2. CASE j # i
    BY <1>8, <2>2 DEF RowKept, TorrentInv, HashInv
  <2>3. QED  BY <2>1, <2>2
<1>13. MapInv'
  <2> SUFFICES ASSUME NEW j \in Ids, tids'[j] # 0
               PROVE  /\ row'[j].status # "unborn"
                      /\ Live(row'[j]) => Gave(issued', tids'[j], row'[j].hash)
    BY DEF MapInv
  <2>1. tids'[j] = tids[j] /\ tids[j] # 0
    BY <1>1
  <2>2. row[j].status # "unborn" /\ (Live(row[j]) => Gave(issued, tids[j], row[j].hash))
    BY <2>1 DEF TorrentInv, MapInv
  <2>3. j # i
    BY <1>1, <2>2
  <2>4. QED  BY <1>1, <1>8, <2>1, <2>2, <2>3 DEF RowKept
<1>14. ASSUME NEW d \in Clients, d # c, op[d].kind # "idle"
       PROVE  op[d].id # i /\ OpOk(op[d], row'[op[d].id], issued')
  <2>1. op[d].id \in Ids /\ row[op[d].id].status # "unborn" /\ OpOk(op[d], row[op[d].id], issued)
    BY <1>14, OpOfRow
  <2>2. op[d].id # i
    BY <1>1, <2>1
  <2>3. RowKept(row[op[d].id], row'[op[d].id])
    BY <1>8, <2>1, <2>2
  <2>4. QED  BY <1>7, <2>1, <2>2, <2>3, OpStays
<1>15. op'[c] = o /\ \A d \in Clients : d # c => op'[d] = op[d]
  BY <1>1 DEF TorrentInv, TypeOK
<1>16. OpOk(o, q, issued')
  BY <1>2, <1>3 DEF OpOk, Kinds
<1>17. OpInv'
  BY <1>3, <1>9, <1>14, <1>15, <1>16 DEF OpInv
<1>18. OneAdd'
  BY <1>3, <1>14, <1>15 DEF OneAdd, TorrentInv
<1>19. QED  BY <1>6, <1>7, <1>11, <1>12, <1>13, <1>17, <1>18 DEF TorrentInv

\* The one step in which a row that is there changes its hash.
LEMMA AddAnsweredStep ==
  ASSUME TorrentInv, NEW c \in Clients, AddAnswered(c)
  PROVE  TorrentInv'
<1> DEFINE i == op[c].id
           h == op[c].hash
           refused == \E j \in Rivals(c) : ~Dead(j)
           q == Added(row[i], h)
<1>1. /\ op[c].kind = "add" /\ op[c].phase = "answered" /\ End(c)
      /\ UNCHANGED <<tr, issued, sync, load, requests, moves, announced, overtaken, regressed>>
  BY DEF AddAnswered
<1>2. /\ i \in Ids /\ op[c].tid \in Nat /\ op[c].known \in BOOLEAN /\ row[i] \in Row
      /\ row[i].status # "unborn" /\ h \in Hashes /\ Gave(issued, op[c].tid, h)
      /\ Live(row[i]) => row[i].hash = IF op[c].known THEN h ELSE i
  BY <1>1, OpOfRow DEF OpOk, Op
<1>3. /\ row' = [j \in Ids |->
                  IF refused THEN IF j = i THEN Blank(j, "deleted") ELSE row[j]
                  ELSE IF j \in Rivals(c) THEN Blank(j, "deleted")
                  ELSE IF j = i /\ Exists(i) THEN q
                  ELSE row[j]]
      /\ tids' = [j \in Ids |->
                   IF refused THEN IF j = i THEN 0 ELSE tids[j]
                   ELSE IF j \in Rivals(c) THEN 0
                   ELSE IF j = i THEN op[c].tid ELSE tids[j]]
  BY DEF AddAnswered
<1>4. q \in Row /\ q.hash = h /\ q.status = "downloading"
  BY <1>2 DEF Added, Row, Status, Active
<1>5. \A j \in Ids : Blank(j, "deleted") \in Row /\ Blank(j, "deleted").status = "deleted"
  BY Records DEF Blank, Status, Absent
<1> HIDE DEF q
<1>6. row' \in [Ids -> Row] /\ tids' \in [Ids -> Nat]
  <2> HIDE DEF refused
  <2>1. QED  BY <1>2, <1>3, <1>4, <1>5 DEF TorrentInv, TypeOK
<1>7. op' \in [Clients -> Op] /\ OpsKept
  BY <1>1, EndOp DEF TorrentInv
<1>8. TypeOK'
  BY <1>1, <1>6, <1>7 DEF TorrentInv, TypeOK
<1>9. HeldInv' /\ IdsKept(issued, issued')
  BY <1>1, HeldSame DEF TorrentInv, IdsKept
<1>10. ASSUME NEW j \in Ids, j # i
       PROVE  /\ RowKept(row[j], row'[j])
              /\ tids'[j] # 0 => tids'[j] = tids[j]
  <2> HIDE DEF refused
  <2>1. QED  BY <1>3, <1>5, <1>10 DEF RowKept, Live, Absent, Rivals, ByHash, Exists
<1>11. CASE refused
  <2>1. RowKept(row[i], row'[i]) /\ tids'[i] = 0
    <3> HIDE DEF refused
    <3>1. QED  BY <1>2, <1>3, <1>5, <1>11 DEF RowKept, Live, Absent
  <2>2. RowsKept
    BY <1>10, <2>1 DEF RowsKept
  <2>3. MapInv'
    BY <1>9, <1>10, <2>1, <2>2, MapStays DEF TorrentInv
  <2>4. QED  BY <1>1, <1>7, <1>8, <1>9, <2>2, <2>3, QuietStep
<1>12. CASE ~refused
  <2>1. \A j \in Ids : Live(row'[j]) => j \notin Rivals(c)
    BY <1>3, <1>5, <1>12 DEF Live, Absent
  <2>2. Live(row'[i]) => row'[i] = q /\ Live(row[i])
    <3>1. Live(row'[i]) => row'[i] = IF Exists(i) THEN q ELSE row[i]
      <4> HIDE DEF refused
      <4>1. QED  BY <1>2, <1>3, <1>12, <2>1
    <3>2. QED  BY <3>1 DEF Live, Exists
  <2>3. row'[i].status # "unborn"
    <3> HIDE DEF refused
    <3>1. QED  BY <1>2, <1>3, <1>4, <1>5
  <2>4. ASSUME NEW j \in Ids, j # i, Live(row'[j])
        PROVE  row'[j].hash # h \/ ~Live(row'[i])
    <3> SUFFICES ASSUME row'[j].hash = h, Live(row'[i]) PROVE FALSE
      OBVIOUS
    <3>1. Live(row[j]) /\ row[j].hash = h
      BY <1>10, <2>4 DEF RowKept
    <3>2. CASE op[c].known
      <4>1. Live(row[i]) /\ row[i].hash = h
        BY <1>2, <2>2, <3>2
      <4>2. QED  BY <1>2, <2>4, <3>1, <4>1 DEF TorrentInv, OneRowPerHash, Exists, Live
    <3>3. CASE ~op[c].known
      BY <2>1, <2>4, <3>1, <3>3 DEF Rivals, ByHash, Exists, Live
    <3>4. QED  BY <3>2, <3>3
  <2>5. OneRowPerHash'
    <3> SUFFICES ASSUME NEW j \in Ids, NEW k \in Ids, Live(row'[j]), Live(row'[k]),
                        row'[j].hash = row'[k].hash
                 PROVE  j = k
      BY DEF OneRowPerHash, Exists, Live
    <3>1. CASE j = i \/ k = i
      BY <1>4, <2>2, <2>4, <3>1
    <3>2. CASE j # i /\ k # i
      <4>1. Live(row[j]) /\ Live(row[k]) /\ row[j].hash = row[k].hash
        BY <1>10, <3>2 DEF RowKept
      <4>2. QED  BY <4>1 DEF TorrentInv, OneRowPerHash, Exists, Live
    <3>3. QED  BY <3>1, <3>2
  <2>6. HashInv'
    <3> SUFFICES ASSUME NEW j \in Ids, Live(row'[j]) PROVE row'[j].hash \in Hashes \cup {j}
      BY DEF HashInv
    <3>1. CASE j = i
      BY <1>2, <1>4, <2>2, <3>1
    <3>2. CASE j # i
      BY <1>10, <3>2 DEF RowKept, TorrentInv, HashInv
    <3>3. QED  BY <3>1, <3>2
  <2>7. MapInv'
    <3> SUFFICES ASSUME NEW j \in Ids, tids'[j] # 0
                 PROVE  /\ row'[j].status # "unborn"
                        /\ Live(row'[j]) => Gave(issued, tids'[j], row'[j].hash)
      BY <1>1 DEF MapInv
    <3>1. CASE j = i
      <4>1. Live(row'[i]) => tids'[i] = op[c].tid
        <5> HIDE DEF refused
        <5>1. QED  BY <1>2, <1>3, <1>12, <2>1
      <4>2. QED  BY <1>2, <1>4, <2>2, <2>3, <3>1, <4>1
    <3>2. CASE j # i
      <4>1. tids'[j] = tids[j] /\ tids[j] # 0 /\ RowKept(row[j], row'[j])
        BY <1>10, <3>2
      <4>2. row[j].status # "unborn" /\ (Live(row[j]) => Gave(issued, tids[j], row[j].hash))
        BY <4>1 DEF TorrentInv, MapInv
      <4>3. QED  BY <4>1, <4>2 DEF RowKept
    <3>3. QED  BY <3>1, <3>2
  <2>8. \A d \in Clients : op'[d].kind # "idle" => d # c /\ op'[d] = op[d]
    BY <1>1, IdleFacts DEF End, TorrentInv, TypeOK
  <2>9. ASSUME NEW d \in Clients, op'[d].kind # "idle"
        PROVE  OpOk(op'[d], row'[op'[d].id], issued')
    <3>1. /\ op'[d] = op[d] /\ d # c /\ op[d] \in Op /\ op[d].id \in Ids
          /\ op[d].kind # "idle" /\ OpOk(op[d], row[op[d].id], issued)
      BY <2>8, <2>9, OpOfRow
    <3>2. CASE op[d].id # i
      BY <1>9, <1>10, <3>1, <3>2, OpStays
    <3>3. CASE op[d].id = i
      <4>1. op[d].kind # "add"
        BY <1>1, <3>1, <3>3 DEF TorrentInv, OneAdd
      <4>2. ASSUME Live(row'[i]), op[d].hash \in Hashes PROVE op[d].hash = h
        <5>1. row[i].hash = op[d].hash
          BY <2>2, <3>1, <3>3, <4>1, <4>2 DEF OpOk, Op
        <5>2. QED  BY <1>2, <2>2, <4>2, <5>1, TorrentAssumption
      <4>3. ASSUME Live(row'[i]), op[d].phase # "lookup" PROVE Gave(issued, op[d].tid, h)
        <5>1. Gave(issued, op[d].tid, row[i].hash)
          BY <2>2, <3>1, <3>3, <4>1, <4>3 DEF OpOk, Op
        <5>2. row[i].hash \in Hashes
          BY <5>1 DEF Gave, TorrentInv, TypeOK
        <5>3. row[i].hash = h
          BY <1>2, <2>2, <4>3, <5>2, TorrentAssumption
        <5>4. QED  BY <5>1, <5>3
      <4>4. QED  BY <1>1, <1>4, <2>2, <2>3, <3>1, <3>3, <4>1, <4>2, <4>3 DEF OpOk
    <3>4. QED  BY <3>2, <3>3
  <2>10. OneAdd'
    BY <2>8 DEF OneAdd, TorrentInv
  <2>11. OpInv'
    BY <2>9 DEF OpInv
  <2>12. QED  BY <1>8, <1>9, <2>5, <2>6, <2>7, <2>10, <2>11 DEF TorrentInv
<1>13. QED  BY <1>11, <1>12

-----------------------------------------------------------------------------
(* Announcements, as long as syncs do not overlap. *)

OneSync == \A s, t \in load.who \cap Syncs : s = t

\* The torrent is ahead of the sync: it will be walked with this snapshot.
Pending(s, h) == sync[s].walking /\ h \in sync[s].left

\* A suspended pause that will announce the row, and that nobody overtook.
Pausing(i) == \E c \in Clients :
  /\ op[c].kind = "pause" /\ op[c].id = i
  /\ op[c].was.done /\ ~op[c].was.stamped
  /\ op[c].was.announced = announced[i]

\* The announcements beyond the first for which there was a reason.
Due(i, h) == regressed[h] + overtaken[i]

\* A row that is stamped has been announced at most once without a reason; if
\* it has, nobody will find the torrent unfinished who has not seen it become so.
StampedOk(i, h) ==
  /\ announced[i] <= 1 + Due(i, h)
  /\ announced[i] = 1 + Due(i, h) =>
       /\ tr[h].done
       /\ \A s \in Syncs : Pending(s, h) => sync[s].snap[h].done

\* A row that is not stamped may be announced once more; if that is the last
\* time, whatever remembers the torrent as finished is right.
UnstampedOk(i, h) ==
  /\ announced[i] <= Due(i, h)
  /\ announced[i] = Due(i, h) =>
       /\ row[i].done \/ Pausing(i) => tr[h].done
       /\ \A s \in Syncs : Pending(s, h) =>
            /\ sync[s].snap[h].done => tr[h].done
            /\ row[i].done \/ Pausing(i) => sync[s].snap[h].done

CreditOf(i, h) == IF row[i].stamped THEN StampedOk(i, h) ELSE UnstampedOk(i, h)
Credit == \A i \in Ids, h \in Hashes : Live(row[i]) /\ row[i].hash = h => CreditOf(i, h)

\* Nothing is announced, or found finished, before a row has its torrent's hash.
Unheard == \A i \in Ids :
  /\ row[i].status = "unborn" => announced[i] = 0
  /\ Live(row[i]) /\ row[i].hash \notin Hashes =>
       announced[i] = 0 /\ ~row[i].stamped /\ ~row[i].done /\ ~Pausing(i)

\* Suspended requests have not seen more announcements than there are, and a
\* row that one of them will announce is not stamped.
Seen ==
  /\ \A c \in Clients : op[c].kind # "idle" => op[c].was.announced <= announced[op[c].id]
  /\ \A i \in Ids : Live(row[i]) /\ Pausing(i) => ~row[i].stamped

\* A snapshot that remembers a torrent as finished that is so no longer has
\* missed it becoming unfinished; only the syncs of the load walk.
Aged ==
  /\ \A s \in Syncs : sync[s].walking => s \in load.who
  /\ \A s \in Syncs, h \in Hashes :
       Pending(s, h) /\ sync[s].snap[h].done /\ ~tr[h].done => regressed[h] >= 1

AnnounceInv == Unheard /\ Seen /\ Aged /\ (OneSync => Credit)

\* A row that is as it was, except that a pause may have read it.
SameCredit(i) ==
  /\ Live(row[i])
  /\ row'[i].hash = row[i].hash /\ row'[i].done = row[i].done
  /\ row'[i].stamped = row[i].stamped
  /\ Pausing(i)' => Pausing(i) \/ (row[i].done /\ ~row[i].stamped)

\* A row that has just been made, or has just been given its torrent's hash.
FreshCredit(i) ==
  announced[i] = 0 /\ ~row'[i].stamped /\ ~row'[i].done /\ ~Pausing(i)'

\* Steps that announce nothing and in which Transmission does nothing: rows
\* stay, appear or go, and a sync takes a snapshot or goes on with its own.
CalmRows == \A i \in Ids :
  /\ row'[i].status = "unborn" => row[i].status = "unborn"
  /\ Live(row'[i]) => SameCredit(i) \/ FreshCredit(i)

CalmSyncs ==
  /\ \A s \in Syncs : sync'[s].walking => s \in load.who
  /\ \A s \in Syncs, h \in Hashes : Pending(s, h)' =>
       \/ sync'[s].snap[h].done = tr[h].done
       \/ Pending(s, h) /\ sync'[s].snap[h].done = sync[s].snap[h].done

CalmOps == \A c \in Clients :
  op'[c].kind # "idle" => op'[c].was.announced <= announced[op'[c].id]

LEMMA Counts ==
  ASSUME TypeOK
  PROVE  /\ \A i \in Ids : announced[i] \in Nat /\ overtaken[i] \in Nat
         /\ \A h \in Hashes : regressed[h] \in Nat /\ tr[h].done \in BOOLEAN
         /\ \A i \in Ids, h \in Hashes : Due(i, h) \in Nat
         /\ \A s \in Syncs, h \in Hashes : sync[s].snap[h].done \in BOOLEAN
         /\ \A i \in Ids : row[i].done \in BOOLEAN /\ row[i].stamped \in BOOLEAN
BY DEF TypeOK, Row, Held, Sync, Due

LEMMA CalmStep ==
  ASSUME TypeOK, TypeOK', AnnounceInv, CalmRows, CalmSyncs, CalmOps,
         UNCHANGED <<tr, announced, overtaken, regressed, load>>
  PROVE  AnnounceInv'
<1>1. Unheard'
  <2> SUFFICES ASSUME NEW i \in Ids
               PROVE  /\ row'[i].status = "unborn" => announced'[i] = 0
                      /\ Live(row'[i]) /\ row'[i].hash \notin Hashes =>
                           announced'[i] = 0 /\ ~row'[i].stamped /\ ~row'[i].done /\ ~Pausing(i)'
    BY DEF Unheard
  <2>1. row'[i].status = "unborn" => announced'[i] = 0
    BY DEF AnnounceInv, Unheard, CalmRows
  <2>2. CASE SameCredit(i)
    BY <2>1, <2>2 DEF SameCredit, AnnounceInv, Unheard
  <2>3. CASE FreshCredit(i)
    BY <2>1, <2>3 DEF FreshCredit
  <2>4. QED  BY <2>1, <2>2, <2>3 DEF CalmRows
<1>2. Seen'
  <2>1. ASSUME NEW i \in Ids, Live(row'[i]), Pausing(i)' PROVE ~row'[i].stamped
    BY <2>1 DEF AnnounceInv, Seen, CalmRows, SameCredit, FreshCredit
  <2>2. QED  BY <2>1 DEF Seen, CalmOps
<1>3. Aged'
  <2>1. ASSUME NEW s \in Syncs, NEW h \in Hashes, Pending(s, h)',
               sync'[s].snap[h].done, ~tr[h].done
        PROVE  regressed[h] >= 1
    BY <2>1 DEF AnnounceInv, Aged, CalmSyncs
  <2>2. QED  BY <2>1 DEF Aged, CalmSyncs
<1>4. ASSUME OneSync', NEW i \in Ids, NEW h \in Hashes, Live(row'[i]), row'[i].hash = h
      PROVE  CreditOf(i, h)'
  <2>1. OneSync
    BY <1>4 DEF OneSync
  <2>2. Due(i, h)' = Due(i, h) /\ Due(i, h) \in Nat /\ announced[i] \in Nat
    BY Counts DEF Due
  <2>3. CASE SameCredit(i)
    <3>1. CreditOf(i, h)
      BY <1>4, <2>1, <2>3 DEF AnnounceInv, Credit, SameCredit
    <3>2. CASE row[i].stamped
      <4>1. StampedOk(i, h) /\ row'[i].stamped
        BY <2>3, <3>1, <3>2 DEF CreditOf, SameCredit
      <4>2. StampedOk(i, h)'
        BY <2>2, <4>1 DEF StampedOk, CalmSyncs
      <4>3. QED  BY <4>1, <4>2 DEF CreditOf
    <3>3. CASE ~row[i].stamped
      <4>1. UnstampedOk(i, h) /\ ~row'[i].stamped
        BY <2>3, <3>1, <3>3 DEF CreditOf, SameCredit
      <4>2. row'[i].done \/ Pausing(i)' => row[i].done \/ Pausing(i)
        BY <2>3 DEF SameCredit
      <4>3. UnstampedOk(i, h)'
        BY <2>2, <4>1, <4>2 DEF UnstampedOk, CalmSyncs
      <4>4. QED  BY <4>1, <4>3 DEF CreditOf
    <3>4. QED  BY <3>2, <3>3
  <2>4. CASE FreshCredit(i)
    <3>1. ASSUME NEW s \in Syncs, Pending(s, h)', sync'[s].snap[h].done, Due(i, h) = 0
          PROVE  tr[h].done
      <4>1. regressed'[h] = 0
        BY <3>1, Counts DEF Due
      <4>2. QED  BY <1>3, <3>1, <4>1, Counts DEF Aged
    <3>2. UnstampedOk(i, h)'
      BY <2>2, <2>4, <3>1 DEF UnstampedOk, FreshCredit
    <3>3. QED  BY <2>4, <3>2 DEF FreshCredit, CreditOf
  <2>5. QED  BY <1>4, <2>3, <2>4 DEF CalmRows
<1>5. QED  BY <1>1, <1>2, <1>3, <1>4 DEF AnnounceInv, Credit

\* A step that leaves the rows, or what matters of them, and in which requests
\* go on with the row they read, or end.
SameRows == \A i \in Ids : RowKept(row[i], row'[i]) /\
  (Live(row'[i]) => row'[i].done = row[i].done /\ row'[i].stamped = row[i].stamped)

SameOps == \A c \in Clients : op'[c].kind # "idle" =>
  op'[c].kind = op[c].kind /\ op'[c].id = op[c].id /\ op'[c].was = op[c].was

LEMMA PausingStays ==
  ASSUME SameOps, UNCHANGED announced, NEW i \in Ids, Pausing(i)'
  PROVE  Pausing(i)
<1>1. PICK c \in Clients : /\ op'[c].kind = "pause" /\ op'[c].id = i
                           /\ op'[c].was.done /\ ~op'[c].was.stamped
                           /\ op'[c].was.announced = announced'[i]
  BY DEF Pausing
<1>2. op[c].kind = op'[c].kind /\ op[c].id = op'[c].id /\ op[c].was = op'[c].was
  BY <1>1 DEF SameOps
<1>3. QED  BY <1>1, <1>2 DEF Pausing

LEMMA EndSame ==
  ASSUME TypeOK, NEW c \in Clients, End(c)
  PROVE  SameOps
BY IdleFacts DEF End, TypeOK, SameOps

LEMMA CalmParts ==
  ASSUME TypeOK, Seen, SameRows, SameOps, UNCHANGED announced
  PROVE  CalmRows /\ CalmOps
<1>1. CalmOps
  BY DEF CalmOps, SameOps, Seen
<1>2. CalmRows
  BY PausingStays DEF CalmRows, SameRows, RowKept, SameCredit
<1>3. QED  BY <1>1, <1>2

LEMMA SyncsSame == ASSUME Aged, UNCHANGED <<sync, load>> PROVE CalmSyncs
BY DEF Aged, CalmSyncs, Pending

LEMMA SameRowsStay == ASSUME UNCHANGED row PROVE SameRows
BY DEF SameRows, RowKept

LEMMA AddFailedCalm ==
  ASSUME TorrentInv, TypeOK', AnnounceInv, NEW c \in Clients, AddFailed(c)
  PROVE  AnnounceInv'
<1>1. op[c].id \in Ids /\ row[op[c].id] \in Row
  BY DEF TorrentInv, TypeOK, Op
<1>2. SameRows
  <2> DEFINE i == op[c].id
             q == [row[i] EXCEPT !.status = "error"]
  <2>1. row' = [row EXCEPT ![i] = IF Exists(i) THEN q ELSE row[i]]
    BY <1>1 DEF AddFailed, Update, TorrentInv, TypeOK
  <2>2. /\ q.status = "error" /\ q.hash = row[i].hash
        /\ q.done = row[i].done /\ q.stamped = row[i].stamped
    BY <1>1 DEF Row
  <2> HIDE DEF q
  <2>3. QED  BY <1>1, <2>1, <2>2 DEF SameRows, RowKept, Live, Exists, Absent, TorrentInv, TypeOK
<1>3. CalmRows /\ CalmOps /\ CalmSyncs
  BY <1>2, EndSame, CalmParts, SyncsSame DEF AddFailed, TorrentInv, AnnounceInv
<1>4. QED  BY <1>3, CalmStep DEF AddFailed, TorrentInv

LEMMA RequestFailedCalm ==
  ASSUME TorrentInv, TypeOK', AnnounceInv, NEW c \in Clients, RequestFailed(c)
  PROVE  AnnounceInv'
<1>1. CalmRows /\ CalmOps /\ CalmSyncs
  BY EndSame, CalmParts, SyncsSame, SameRowsStay DEF RequestFailed, TorrentInv, AnnounceInv
<1>2. QED  BY <1>1, CalmStep DEF RequestFailed, TorrentInv

LEMMA LookupCalm ==
  ASSUME TorrentInv, TypeOK', AnnounceInv, NEW c \in Clients, Lookup(c)
  PROVE  AnnounceInv'
<1>1. SameOps
  <2>1. ASSUME NEW h \in Hashes, op' = [op EXCEPT ![c].tid = tr[h].tid, ![c].phase = "sent"]
        PROVE  SameOps
    BY <2>1 DEF SameOps, TorrentInv, TypeOK, Op
  <2>2. QED  BY <2>1, EndSame DEF Lookup, TorrentInv
<1>2. CalmRows /\ CalmOps /\ CalmSyncs
  BY <1>1, CalmParts, SyncsSame, SameRowsStay DEF Lookup, TorrentInv, AnnounceInv
<1>3. QED  BY <1>2, CalmStep DEF Lookup, TorrentInv

LEMMA SyncStatsCalm ==
  ASSUME TorrentInv, TypeOK', AnnounceInv, NEW s \in Syncs, SyncStats(s)
  PROVE  AnnounceInv'
<1>1. SameOps
  BY DEF SameOps, SyncStats
<1>2. CalmRows /\ CalmOps
  BY <1>1, CalmParts, SameRowsStay DEF SyncStats, TorrentInv, AnnounceInv
<1>3. CalmSyncs
  BY DEF CalmSyncs, SyncStats, AnnounceInv, Aged, TorrentInv, TypeOK, Pending
<1>4. QED  BY <1>2, <1>3, CalmStep DEF SyncStats, TorrentInv

LEMMA ReconcileCalm ==
  ASSUME TorrentInv, TypeOK', AnnounceInv, NEW s \in Syncs, Reconcile(s)
  PROVE  AnnounceInv'
<1>1. SameRows
  <2> DEFINE q(i) == [row[i] EXCEPT !.status = "removed"]
  <2>1. row' = [i \in Ids |-> IF i \in Missing(s) THEN q(i) ELSE row[i]]
    BY DEF Reconcile
  <2>2. ASSUME NEW i \in Ids
        PROVE  /\ q(i).status = "removed" /\ q(i).hash = row[i].hash
               /\ q(i).done = row[i].done /\ q(i).stamped = row[i].stamped
    <3>1. row[i] \in Row
      BY DEF TorrentInv, TypeOK
    <3>2. QED  BY <3>1 DEF Row
  <2>3. \A i \in Missing(s) : Live(row[i])
    BY DEF Missing, Live, Active, Absent
  <2> HIDE DEF q
  <2>4. ASSUME NEW i \in Ids
        PROVE  RowKept(row[i], row'[i]) /\
               (Live(row'[i]) => row'[i].done = row[i].done /\ row'[i].stamped = row[i].stamped)
    <3>1. CASE i \in Missing(s)
      <4>1. row'[i] = q(i)
        BY <2>1, <3>1
      <4>2. QED  BY <2>2, <2>3, <3>1, <4>1 DEF RowKept
    <3>2. CASE i \notin Missing(s)
      BY <2>1, <3>2 DEF RowKept
    <3>3. QED  BY <3>1, <3>2
  <2>5. QED  BY <2>4 DEF SameRows
<1>2. SameOps
  BY DEF SameOps, Reconcile
<1>3. CalmRows /\ CalmOps
  BY <1>1, <1>2, CalmParts DEF Reconcile, TorrentInv, AnnounceInv
<1>4. CalmSyncs
  BY DEF CalmSyncs, Reconcile, AnnounceInv, Aged, TorrentInv, TypeOK, Pending, NoSync
<1>5. QED  BY <1>3, <1>4, CalmStep DEF Reconcile, TorrentInv

LEMMA RestartCalm ==
  ASSUME TorrentInv, TypeOK', AnnounceInv, Restart
  PROVE  AnnounceInv'
<1>1. SameOps
  BY IdleFacts DEF SameOps, Restart
<1>2. CalmRows /\ CalmOps
  BY <1>1, CalmParts, SameRowsStay DEF Restart, TorrentInv, AnnounceInv
<1>3. CalmSyncs
  BY DEF CalmSyncs, Restart, Pending, NoSync
<1>4. QED  BY <1>2, <1>3, CalmStep DEF Restart, TorrentInv

\* A new row is fresh: no request can be about it.
LEMMA AddTorrentCalm ==
  ASSUME TorrentInv, TypeOK', AnnounceInv,
         NEW c \in Clients, NEW i \in Ids, NEW h \in Hashes, NEW known \in BOOLEAN,
         AddTorrent(c, i, h, known)
  PROVE  AnnounceInv'
<1> DEFINE temp == IF known THEN h ELSE i
           q == [Blank(i, "adding") EXCEPT !.hash = temp]
           o == [Idle EXCEPT !.kind = "add", !.id = i, !.hash = h, !.known = known]
<1>1. /\ row[i].status = "unborn"
      /\ row' = [j \in Ids |-> IF j = i THEN q
                               ELSE IF j \in ByHash(temp) THEN Blank(j, "deleted")
                               ELSE row[j]]
      /\ op' = [op EXCEPT ![c] = o]
      /\ UNCHANGED <<tr, sync, load, announced, overtaken, regressed>>
  BY DEF AddTorrent
<1>2. q.status = "adding" /\ ~q.done /\ ~q.stamped
  BY DEF Blank
<1>3. o.kind = "add" /\ o.id = i /\ o.was.announced = 0
  BY DEF Idle
<1> HIDE DEF q, o
<1>4. op'[c] = o /\ \A d \in Clients : d # c => op'[d] = op[d]
  BY <1>1 DEF TorrentInv, TypeOK
<1>5. CalmOps
  BY <1>1, <1>3, <1>4, Counts DEF CalmOps, AnnounceInv, Seen, TorrentInv
<1>6. ASSUME NEW j \in Ids, Pausing(j)' PROVE Pausing(j) /\ j # i
  <2>1. PICK d \in Clients : /\ op'[d].kind = "pause" /\ op'[d].id = j
                             /\ op'[d].was.done /\ ~op'[d].was.stamped
                             /\ op'[d].was.announced = announced'[j]
    BY <1>6 DEF Pausing
  <2>2. op'[d] = op[d]
    BY <1>3, <1>4, <2>1
  <2>3. row[op[d].id].status # "unborn"
    BY <2>1, <2>2, OpOfRow
  <2>4. QED  BY <1>1, <2>1, <2>2, <2>3 DEF Pausing
<1>7. FreshCredit(i)
  BY <1>1, <1>2, <1>6 DEF FreshCredit, AnnounceInv, Unheard
<1>8. \A j \in Ids : j # i /\ Live(row'[j]) => row'[j] = row[j]
  BY <1>1 DEF Blank, Live, Absent
<1>9. row'[i].status = "adding"
  BY <1>1, <1>2
<1>10. \A j \in Ids : row'[j].status = "unborn" => row[j].status = "unborn"
  BY <1>1, <1>9 DEF Blank
<1>11. CalmRows
  BY <1>6, <1>7, <1>8, <1>10 DEF CalmRows, SameCredit
<1>12. CalmSyncs
  BY <1>1, SyncsSame DEF AnnounceInv
<1>13. QED  BY <1>1, <1>5, <1>11, <1>12, CalmStep DEF TorrentInv

\* A row that is given its torrent's hash is as fresh as a new one.
LEMMA AddAnsweredCalm ==
  ASSUME TorrentInv, TypeOK', AnnounceInv, NEW c \in Clients, AddAnswered(c)
  PROVE  AnnounceInv'
<1>0. PICK i \in Ids : i = op[c].id
  BY DEF TorrentInv, TypeOK, Op
<1> DEFINE h == op[c].hash
           q == Added(row[i], h)
<1>1. /\ op[c].kind = "add" /\ End(c)
      /\ UNCHANGED <<tr, sync, load, announced, overtaken, regressed>>
  BY DEF AddAnswered
<1>2. /\ i \in Ids /\ row[i] \in Row /\ row[i].status # "unborn" /\ h \in Hashes
      /\ Live(row[i]) => row[i].hash = IF op[c].known THEN h ELSE i
  BY <1>0, <1>1, OpOfRow DEF OpOk
<1>3. /\ q.hash = h /\ q.status = "downloading" /\ q.done = row[i].done
      /\ q.stamped = row[i].stamped
  BY <1>2 DEF Added, Row
<1> HIDE DEF q
<1>4. ASSUME NEW j \in Ids
      PROVE  \/ row'[j].status = "deleted"
             \/ row'[j] = row[j]
             \/ j = i /\ Live(row[i]) /\ row'[j] = q
  BY <1>0 DEF AddAnswered, Blank, Live, Exists, q
<1>5. SameOps
  BY <1>1, EndSame DEF TorrentInv
<1>6. CalmOps
  BY <1>1, <1>5 DEF CalmOps, SameOps, AnnounceInv, Seen
<1>7. \A j \in Ids : row'[j].status = "unborn" => row[j].status = "unborn"
  BY <1>3, <1>4
<1>8. ASSUME NEW j \in Ids, Live(row'[j]), row'[j] = row[j] PROVE SameCredit(j)
  BY <1>1, <1>5, <1>8, PausingStays DEF SameCredit
<1>9. ASSUME Live(row[i]), row'[i] = q PROVE SameCredit(i) \/ FreshCredit(i)
  <2>1. Pausing(i)' => Pausing(i)
    BY <1>1, <1>2, <1>5, PausingStays
  <2>2. CASE row[i].hash = h
    BY <1>3, <1>9, <2>1, <2>2 DEF SameCredit
  <2>3. CASE row[i].hash # h
    <3>1. row[i].hash = i /\ i \notin Hashes
      BY <1>2, <1>9, <2>3, TorrentAssumption
    <3>2. QED  BY <1>2, <1>3, <1>9, <2>1, <3>1 DEF FreshCredit, AnnounceInv, Unheard
  <2>4. QED  BY <2>2, <2>3
<1>10. \A j \in Ids : row'[j].status = "deleted" => ~Live(row'[j])
  BY DEF Live, Absent
<1>11. CalmRows
  BY <1>4, <1>7, <1>8, <1>9, <1>10 DEF CalmRows
<1>12. CalmSyncs
  BY <1>1, SyncsSame DEF AnnounceInv
<1>13. QED  BY <1>1, <1>6, <1>11, <1>12, CalmStep DEF TorrentInv

\* What Transmission does: a torrent that becomes unfinished gives a reason for
\* an announcement, and one that becomes finished takes none away.
LEMMA ServedAnnounce ==
  ASSUME TorrentInv, TypeOK', AnnounceInv, SameOps, Regress,
         UNCHANGED <<row, sync, load, announced, overtaken>>
  PROVE  AnnounceInv'
<1>1. \A i \in Ids : Pausing(i)' => Pausing(i)
  BY PausingStays
<1>2. Unheard' /\ Seen'
  BY <1>1 DEF AnnounceInv, Unheard, Seen, SameOps
<1>3. \A h \in Hashes : regressed[h] \in Nat /\ tr[h].done \in BOOLEAN /\ tr'[h].done \in BOOLEAN
  BY Counts DEF TorrentInv, TypeOK, Held
<1>4. \A h \in Hashes : /\ regressed'[h] >= regressed[h]
                        /\ tr[h].done /\ ~tr'[h].done => regressed'[h] = regressed[h] + 1
  BY <1>3 DEF Regress
<1>5. Aged'
  <2>1. ASSUME NEW s \in Syncs, NEW h \in Hashes, Pending(s, h), sync[s].snap[h].done, ~tr'[h].done
        PROVE  regressed'[h] >= 1
    <3>1. regressed'[h] \in Nat
      BY DEF TypeOK
    <3>2. QED  BY <1>3, <1>4, <2>1, <3>1 DEF AnnounceInv, Aged
  <2>2. QED  BY <2>1 DEF Aged, Pending, AnnounceInv
<1>6. ASSUME OneSync', NEW i \in Ids, NEW h \in Hashes, Live(row[i]), row[i].hash = h
      PROVE  CreditOf(i, h)'
  <2>1. CreditOf(i, h)
    BY <1>6 DEF OneSync, AnnounceInv, Credit
  <2>2. /\ announced[i] \in Nat /\ Due(i, h) \in Nat /\ Due(i, h)' \in Nat
        /\ Due(i, h)' >= Due(i, h)
        /\ tr[h].done /\ ~tr'[h].done => Due(i, h)' > Due(i, h)
    <3>1. overtaken[i] \in Nat /\ regressed[h] \in Nat /\ regressed'[h] \in Nat
      BY DEF TorrentInv, TypeOK
    <3>2. QED  BY <1>4, <3>1, Counts DEF Due, TorrentInv
  <2>3. CASE row[i].stamped
    <3>1. StampedOk(i, h)'
      BY <2>1, <2>2, <2>3 DEF CreditOf, StampedOk, Pending
    <3>2. QED  BY <2>3, <3>1 DEF CreditOf
  <2>4. CASE ~row[i].stamped
    <3>1. UnstampedOk(i, h)'
      BY <1>1, <2>1, <2>2, <2>4 DEF CreditOf, UnstampedOk, Pending
    <3>2. QED  BY <2>4, <3>1 DEF CreditOf
  <2>5. QED  BY <2>3, <2>4
<1>7. QED  BY <1>2, <1>5, <1>6 DEF AnnounceInv, Credit

LEMMA ServeAnnounce ==
  ASSUME TorrentInv, TypeOK', AnnounceInv, NEW c \in Clients, Serve(c)
  PROVE  AnnounceInv'
<1>1. op[c] \in Op
  BY DEF TorrentInv, TypeOK
<1>2. CASE op[c].kind = "add"
  <2>1. PICK t : op' = [op EXCEPT ![c].phase = "answered", ![c].tid = t]
    BY <1>2 DEF Serve
  <2>2. SameOps
    BY <1>1, <2>1 DEF SameOps, TorrentInv, TypeOK, Op
  <2>3. QED  BY <2>2, ServedAnnounce DEF Serve
<1>3. CASE op[c].kind # "add"
  <2>1. op' = [op EXCEPT ![c].phase = "answered"]
    BY <1>3 DEF Serve
  <2>2. SameOps
    BY <1>1, <2>1 DEF SameOps, TorrentInv, TypeOK, Op
  <2>3. QED  BY <2>2, ServedAnnounce DEF Serve
<1>4. QED  BY <1>2, <1>3

LEMMA MoveAnnounce ==
  ASSUME TorrentInv, TypeOK', AnnounceInv, NEW h \in Hashes, Move(h)
  PROVE  AnnounceInv'
BY ServedAnnounce DEF Move, SameOps

\* The end of a request.  A pause that announces the row uses the announcement
\* the row still had when it was read; if another came first, that is its reason.
LEMMA FinishAnnounce ==
  ASSUME TypeOK, TypeOK', AnnounceInv, NEW i \in Ids, NEW kind \in Kinds,
         NEW was \in [done : BOOLEAN, stamped : BOOLEAN, announced : Nat],
         Finish(kind, i, was), SameOps, UNCHANGED <<tr, sync, load, regressed>>,
         row[i].status # "unborn", was.announced <= announced[i],
         Emits(kind, was) /\ was.announced = announced[i] =>
           Pausing(i) \/ (row[i].done /\ ~row[i].stamped)
  PROVE  AnnounceInv'
<1> DEFINE q == After(kind, i, was)
<1>1. row[i] \in Row /\ announced \in [Ids -> Nat] /\ overtaken \in [Ids -> Nat]
  BY DEF TypeOK
<1>2. row' = [row EXCEPT ![i] = IF Exists(i) THEN q ELSE row[i]]
  BY DEF Finish, Update, TypeOK
<1>3. \A j \in Ids : j # i => row'[j] = row[j]
  BY <1>2 DEF TypeOK
<1>4. row'[i] = IF Exists(i) THEN q ELSE row[i]
  BY <1>2 DEF TypeOK
<1>5. Live(row'[i]) => /\ Live(row[i]) /\ row'[i].hash = row[i].hash
                       /\ row'[i].done = row[i].done
                       /\ row'[i].stamped = (row[i].stamped \/ Emits(kind, was))
  <2> SUFFICES ASSUME Live(row'[i])
               PROVE  /\ Live(row[i]) /\ row'[i].hash = row[i].hash
                      /\ row'[i].done = row[i].done
                      /\ row'[i].stamped = (row[i].stamped \/ Emits(kind, was))
    OBVIOUS
  <2>0. Live(row[i]) /\ row'[i] = q
    BY <1>4 DEF Live, Exists
  <2>1. CASE kind = "pause"
    <3> DEFINE s == IF was.done THEN "completed" ELSE "paused"
               b == row[i].stamped \/ (was.done /\ ~was.stamped)
    <3>1. q = [row[i] EXCEPT !.status = s, !.stamped = b]
      BY <1>1, <2>1 DEF After, Row
    <3>2. b = (row[i].stamped \/ Emits(kind, was))
      BY <2>1 DEF Emits
    <3> HIDE DEF s, b, q
    <3>3. q.hash = row[i].hash /\ q.done = row[i].done /\ q.stamped = b
      BY <1>1, <3>1 DEF Row
    <3>4. QED  BY <2>0, <3>2, <3>3
  <2>2. CASE kind \in {"resume", "verify", "remove"}
    <3>1. q.hash = row[i].hash /\ q.done = row[i].done /\ q.stamped = row[i].stamped
      BY <1>1, <2>2 DEF After, Row
    <3>2. ~Emits(kind, was) /\ row[i].stamped \in BOOLEAN
      BY <1>1, <2>2 DEF Emits, Row
    <3> HIDE DEF q
    <3>3. QED  BY <2>0, <3>1, <3>2
  <2>3. CASE kind = "erase"
    BY <1>4, <2>3 DEF After, Blank, Live, Exists, Absent
  <2>4. QED  BY <2>1, <2>2, <2>3 DEF Kinds
<1>6. row'[i].status # "unborn"
  BY <1>1, <1>4 DEF After, Blank, Kinds, Row
<1> HIDE DEF q
<1>7. CASE ~Emits(kind, was)
  <2>1. UNCHANGED <<announced, overtaken>>
    BY <1>7 DEF Finish
  <2>2. SameRows
    <3>1. row[i].stamped \in BOOLEAN
      BY <1>1 DEF Row
    <3>2. QED  BY <1>3, <1>5, <1>6, <1>7, <3>1 DEF SameRows, RowKept
  <2>3. CalmRows /\ CalmOps /\ CalmSyncs
    BY <2>1, <2>2, CalmParts, SyncsSame DEF AnnounceInv
  <2>4. QED  BY <2>1, <2>3, CalmStep
<1>8. CASE Emits(kind, was)
  <2>1. /\ announced' = [announced EXCEPT ![i] = announced[i] + 1]
        /\ overtaken' = IF Overtaken(i, was) THEN [overtaken EXCEPT ![i] = overtaken[i] + 1]
                        ELSE overtaken
    BY <1>1, <1>8 DEF Finish
  <2>2. /\ announced'[i] = announced[i] + 1
        /\ \A j \in Ids : j # i => announced'[j] = announced[j] /\ overtaken'[j] = overtaken[j]
        /\ overtaken'[i] = overtaken[i] + IF Overtaken(i, was) THEN 1 ELSE 0
    BY <1>1, <2>1
  <2>3. ~Pausing(i)'
    <3> SUFFICES ASSUME NEW c \in Clients, op'[c].kind = "pause", op'[c].id = i,
                        op'[c].was.announced = announced'[i]
                 PROVE  FALSE
      BY DEF Pausing
    <3>1. op[c].kind = "pause" /\ op[c].id = i /\ op[c].was.announced = announced'[i]
      BY DEF SameOps
    <3>2. op[c].was.announced <= announced[i]
      BY <3>1 DEF AnnounceInv, Seen
    <3>3. announced[i] \in Nat
      BY <1>1
    <3>4. QED  BY <2>2, <3>1, <3>2, <3>3
  <2>4. \A j \in Ids : j # i /\ Pausing(j)' => Pausing(j)
    BY <2>2 DEF Pausing, SameOps
  <2>5. ASSUME Live(row[i]), was.announced = announced[i] PROVE ~Overtaken(i, was)
    BY <2>5 DEF Overtaken, Exists, Live
  <2>6. Unheard'
    <3>1. ASSUME NEW j \in Ids, Live(row'[j]), row'[j].hash \notin Hashes
          PROVE  announced'[j] = 0 /\ ~row'[j].stamped /\ ~row'[j].done /\ ~Pausing(j)'
      <4>1. CASE j = i
        <5>1. announced[i] = 0 /\ ~row[i].done /\ ~Pausing(i)
          BY <1>5, <3>1, <4>1 DEF AnnounceInv, Unheard
        <5>2. QED  BY <1>8, <5>1
      <4>2. CASE j # i
        BY <1>3, <2>2, <2>4, <3>1, <4>2 DEF AnnounceInv, Unheard
      <4>3. QED  BY <4>1, <4>2
    <3>2. QED  BY <1>3, <1>6, <2>2, <3>1 DEF AnnounceInv, Unheard
  <2>7. Seen'
    <3>1. ASSUME NEW c \in Clients, op'[c].kind # "idle"
          PROVE  op'[c].was.announced <= announced'[op'[c].id]
      <4>1. /\ op[c].kind # "idle" /\ op'[c].id = op[c].id /\ op'[c].was = op[c].was
            /\ op[c].id \in Ids /\ op[c].was.announced \in Nat
        BY <3>1 DEF SameOps, TypeOK, Op
      <4>2. op[c].was.announced <= announced[op[c].id]
        BY <4>1 DEF AnnounceInv, Seen
      <4>3. QED  BY <1>1, <2>2, <4>1, <4>2
    <3>2. QED  BY <1>3, <2>3, <2>4, <3>1 DEF AnnounceInv, Seen
  <2>8. Aged'
    BY DEF AnnounceInv, Aged, Pending
  <2>9. ASSUME OneSync', NEW j \in Ids, NEW h \in Hashes, Live(row'[j]), row'[j].hash = h
        PROVE  CreditOf(j, h)'
    <3>1. Live(row[j]) /\ row[j].hash = h
      BY <1>3, <1>5, <2>9
    <3>2. CreditOf(j, h)
      BY <2>9, <3>1 DEF OneSync, AnnounceInv, Credit
    <3>3. CASE j # i
      BY <1>3, <2>2, <2>4, <3>2, <3>3
         DEF CreditOf, StampedOk, UnstampedOk, Due, Pending
    <3>4. CASE j = i
      <4>1. announced[i] \in Nat /\ Due(i, h) \in Nat /\ row'[i].stamped
        BY <1>5, <1>8, <2>9, <3>4, Counts
      <4>2. Due(i, h)' = Due(i, h) + IF Overtaken(i, was) THEN 1 ELSE 0
        BY <1>1, <2>2, Counts DEF Due
      <4>3. CASE row[i].stamped
        <5>1. Overtaken(i, was)
          BY <1>8, <3>1, <3>4, <4>3 DEF AnnounceInv, Seen, Overtaken
        <5>2. StampedOk(i, h)'
          BY <2>2, <3>2, <3>4, <4>1, <4>2, <4>3, <5>1 DEF CreditOf, StampedOk, Pending
        <5>3. QED  BY <3>4, <4>1, <5>2 DEF CreditOf
      <4>4. CASE ~row[i].stamped
        <5>1. UnstampedOk(i, h)
          BY <3>2, <3>4, <4>4 DEF CreditOf
        <5>2. CASE Overtaken(i, was)
          <6>1. announced'[i] < 1 + Due(i, h)'
            BY <2>2, <4>1, <4>2, <5>1, <5>2 DEF UnstampedOk
          <6>2. StampedOk(i, h)'
            BY <2>2, <4>1, <4>2, <6>1 DEF StampedOk
          <6>3. QED  BY <3>4, <4>1, <6>2 DEF CreditOf
        <5>3. CASE ~Overtaken(i, was)
          <6>1. row[i].done \/ Pausing(i)
            BY <1>8, <5>3 DEF Overtaken
          <6>2. StampedOk(i, h)'
            BY <2>2, <4>1, <4>2, <5>1, <5>3, <6>1 DEF StampedOk, UnstampedOk, Pending
          <6>3. QED  BY <3>4, <4>1, <6>2 DEF CreditOf
        <5>4. QED  BY <5>2, <5>3
      <4>5. QED  BY <4>3, <4>4
    <3>5. QED  BY <3>3, <3>4
  <2>10. QED  BY <2>6, <2>7, <2>8, <2>9 DEF AnnounceInv, Credit
<1>9. QED  BY <1>7, <1>8

LEMMA RequestAnsweredAnnounce ==
  ASSUME TorrentInv, TypeOK', AnnounceInv, NEW c \in Clients, RequestAnswered(c)
  PROVE  AnnounceInv'
<1>1. PICK i \in Ids : i = op[c].id
  BY DEF TorrentInv, TypeOK, Op
<1>2. PICK kind \in Kinds : kind = op[c].kind
  BY DEF RequestAnswered
<1>3. PICK was \in [done : BOOLEAN, stamped : BOOLEAN, announced : Nat] : was = op[c].was
  BY DEF TorrentInv, TypeOK, Op
<1>4. kind # "idle" /\ row[i].status # "unborn"
  BY <1>1, <1>2, OpOfRow DEF Kinds
<1>5. was.announced <= announced[i]
  BY <1>1, <1>2, <1>3, <1>4 DEF AnnounceInv, Seen
<1>6. Emits(kind, was) /\ was.announced = announced[i] => Pausing(i)
  BY <1>1, <1>2, <1>3 DEF Emits, Pausing
<1>7. Finish(kind, i, was) /\ SameOps
  BY <1>1, <1>2, <1>3, EndSame DEF RequestAnswered, TorrentInv
<1>8. QED  BY <1>4, <1>5, <1>6, <1>7, FinishAnnounce DEF RequestAnswered, TorrentInv

LEMMA RequestAnnounce ==
  ASSUME TorrentInv, TypeOK', AnnounceInv, NEW c \in Clients, NEW i \in Ids, NEW kind \in Kinds,
         Request(c, i, kind)
  PROVE  AnnounceInv'
<1>1. PICK was \in [done : BOOLEAN, stamped : BOOLEAN, announced : Nat] :
        was = [done |-> row[i].done, stamped |-> row[i].stamped, announced |-> announced[i]]
  BY DEF TorrentInv, TypeOK, Row
<1>2. /\ UNCHANGED <<tr, sync, load, regressed>> /\ Exists(i) /\ op[c] = Idle
      /\ announced[i] \in Nat
  BY DEF Request, Begin, TorrentInv, TypeOK
<1>3. CASE Finish(kind, i, was) /\ UNCHANGED op
  <2>1. SameOps /\ row[i].status # "unborn" /\ was.announced <= announced[i]
    BY <1>1, <1>2, <1>3 DEF SameOps, Exists, Absent
  <2>2. Emits(kind, was) => row[i].done /\ ~row[i].stamped
    BY <1>1 DEF Emits
  <2>3. QED  BY <1>2, <1>3, <2>1, <2>2, FinishAnnounce DEF TorrentInv
<1>4. CASE /\ UNCHANGED <<row, tids, announced, overtaken>>
           /\ \E t, p : op' = [op EXCEPT ![c] = [Idle EXCEPT !.kind = kind, !.id = i,
                                 !.hash = row[i].hash, !.was = was, !.tid = t, !.phase = p]]
  <2>1. PICK t, p : op' = [op EXCEPT ![c] = [Idle EXCEPT !.kind = kind, !.id = i,
                             !.hash = row[i].hash, !.was = was, !.tid = t, !.phase = p]]
    BY <1>4
  <2>2. op'[c].id = i /\ op'[c].was = was /\ \A d \in Clients : d # c => op'[d] = op[d]
    BY <2>1 DEF TorrentInv, TypeOK, Idle
  <2>3. CalmOps
    BY <1>1, <1>2, <2>2 DEF CalmOps, AnnounceInv, Seen
  <2>4. ASSUME NEW j \in Ids, Pausing(j)'
        PROVE  Pausing(j) \/ (j = i /\ row[i].done /\ ~row[i].stamped)
    BY <1>1, <1>4, <2>2, <2>4 DEF Pausing
  <2>5. CalmRows
    BY <1>4, <2>4 DEF CalmRows, SameCredit
  <2>6. CalmSyncs
    BY <1>2, SyncsSame DEF AnnounceInv
  <2>7. QED  BY <1>2, <1>4, <2>3, <2>5, <2>6, CalmStep DEF TorrentInv
<1>5. QED  BY <1>1, <1>3, <1>4 DEF Request

\* One turn of a sync that overlaps no other: it announces what its snapshot
\* has finished, or takes the stamp back where the snapshot has it unfinished.
LEMMA SyncTorrentAnnounce ==
  ASSUME TorrentInv, TypeOK', AnnounceInv, NEW s \in Syncs, NEW h \in Hashes, SyncTorrent(s, h)
  PROVE  AnnounceInv'
<1> DEFINE t == sync[s].snap[h]
           finished(i) == t.done /\ row[i].status \in {"downloading", "adding"} /\ ~row[i].stamped
           reopened(i) == ~t.done /\ Shown(t, row[i].status) = "downloading"
           q(i) == [status |-> Shown(t, row[i].status), hash |-> h, done |-> t.done,
                    stamped |-> finished(i) \/ (row[i].stamped /\ ~reopened(i))]
<1>1. /\ sync[s].walking /\ h \in sync[s].left
      /\ row' = [i \in Ids |-> IF i \in Mine(h) THEN q(i) ELSE row[i]]
      /\ announced' = [i \in Ids |-> IF i \in Mine(h) /\ finished(i) THEN announced[i] + 1
                                     ELSE announced[i]]
      /\ \E passed : sync' = [sync EXCEPT ![s].left = @ \ (passed \cup {h})]
      /\ UNCHANGED <<tr, op, load, overtaken, regressed>>
  BY DEF SyncTorrent
<1>2. \A i \in Mine(h) : Live(row[i]) /\ row[i].hash = h
  BY DEF Mine, ByHash, Exists, Live
<1>3. t \in Held /\ announced \in [Ids -> Nat] /\ row \in [Ids -> Row]
  BY DEF TorrentInv, TypeOK, Sync
<1>4. ASSUME NEW i \in Ids, i \notin Mine(h)
      PROVE  row'[i] = row[i] /\ announced'[i] = announced[i] /\ (Pausing(i)' => Pausing(i))
  BY <1>1, <1>4 DEF Pausing
<1>5. ASSUME NEW i \in Ids, i \in Mine(h)
      PROVE  /\ row'[i].hash = h /\ row'[i].done = t.done
             /\ row'[i].stamped = (finished(i) \/ (row[i].stamped /\ ~reopened(i)))
             /\ Live(row'[i])
             /\ announced'[i] = IF finished(i) THEN announced[i] + 1 ELSE announced[i]
  <2>1. row'[i] = q(i)
    BY <1>1, <1>5
  <2>2. Shown(t, row[i].status) \notin Absent
    BY <1>3 DEF Shown, Held, Runs, Row, Status, Active, Absent
  <2> HIDE DEF finished, reopened, t
  <2>3. QED  BY <1>1, <1>5, <2>1, <2>2 DEF Live
<1>6. \A k \in Syncs : sync'[k].snap = sync[k].snap /\ sync'[k].walking = sync[k].walking
  <2>1. PICK passed : sync' = [sync EXCEPT ![s].left = @ \ (passed \cup {h})]
    BY <1>1
  <2>2. QED  BY <2>1 DEF TorrentInv, TypeOK, Sync
<1>7. \A k \in Syncs, g \in Hashes : Pending(k, g)' => Pending(k, g) /\ ~(k = s /\ g = h)
  <2>1. PICK passed : sync' = [sync EXCEPT ![s].left = @ \ (passed \cup {h})]
    BY <1>1
  <2>2. \A k \in Syncs : sync'[k].left \subseteq sync[k].left
    BY <2>1 DEF TorrentInv, TypeOK, Sync
  <2>3. h \notin sync'[s].left
    BY <2>1 DEF TorrentInv, TypeOK, Sync
  <2>4. QED  BY <1>6, <2>2, <2>3 DEF Pending
<1> HIDE DEF q
<1>8. ASSUME NEW i \in Ids, i \in Mine(h), Pausing(i)'
      PROVE  Pausing(i) /\ ~finished(i) /\ ~row[i].stamped
  <2>1. PICK c \in Clients : /\ op[c].kind = "pause" /\ op[c].id = i
                             /\ op[c].was.done /\ ~op[c].was.stamped
                             /\ op[c].was.announced = announced'[i]
    BY <1>1, <1>8 DEF Pausing
  <2>2. op[c].was.announced <= announced[i]
    BY <2>1 DEF AnnounceInv, Seen
  <2> HIDE DEF finished
  <2>3. ~finished(i)
    BY <1>3, <1>5, <1>8, <2>1, <2>2
  <2>4. Pausing(i)
    BY <1>5, <1>8, <2>1, <2>3 DEF Pausing
  <2>5. QED  BY <1>2, <1>8, <2>3, <2>4 DEF AnnounceInv, Seen
<1>9. Unheard'
  <2>1. ASSUME NEW i \in Ids
        PROVE  /\ row'[i].status = "unborn" => announced'[i] = 0
               /\ Live(row'[i]) /\ row'[i].hash \notin Hashes =>
                    announced'[i] = 0 /\ ~row'[i].stamped /\ ~row'[i].done /\ ~Pausing(i)'
    <3>1. CASE i \in Mine(h)
      BY <1>5, <3>1 DEF Live, Absent
    <3>2. CASE i \notin Mine(h)
      BY <1>4, <3>2 DEF AnnounceInv, Unheard
    <3>3. QED  BY <3>1, <3>2
  <2>2. QED  BY <2>1 DEF Unheard
<1>10. Seen'
  <2>1. ASSUME NEW c \in Clients, op[c].kind # "idle"
        PROVE  op[c].was.announced <= announced'[op[c].id]
    <3>1. op[c].id \in Ids /\ op[c].was.announced \in Nat
      BY DEF TorrentInv, TypeOK, Op
    <3>2. op[c].was.announced <= announced[op[c].id]
      BY <2>1 DEF AnnounceInv, Seen
    <3> HIDE DEF finished
    <3>3. announced'[op[c].id] \in {announced[op[c].id], announced[op[c].id] + 1}
      BY <1>1, <3>1
    <3>4. QED  BY <1>3, <3>1, <3>2, <3>3
  <2>2. ASSUME NEW i \in Ids, Live(row'[i]), Pausing(i)' PROVE ~row'[i].stamped
    <3>1. CASE i \in Mine(h)
      BY <1>5, <1>8, <2>2, <3>1
    <3>2. CASE i \notin Mine(h)
      BY <1>4, <2>2, <3>2 DEF AnnounceInv, Seen
    <3>3. QED  BY <3>1, <3>2
  <2>3. QED  BY <1>1, <2>1, <2>2 DEF Seen
<1>11. Aged'
  BY <1>1, <1>6, <1>7 DEF AnnounceInv, Aged
<1>12. ASSUME OneSync', NEW i \in Ids, NEW g \in Hashes, Live(row'[i]), row'[i].hash = g
       PROVE  CreditOf(i, g)'
  <2>1. OneSync
    BY <1>1, <1>12 DEF OneSync
  <2>2. Due(i, g)' = Due(i, g) /\ Due(i, g) \in Nat /\ announced[i] \in Nat
    BY <1>1, Counts DEF Due, TorrentInv
  <2>3. CASE i \notin Mine(h)
    <3>1. CreditOf(i, g)
      BY <1>4, <1>12, <2>1, <2>3 DEF AnnounceInv, Credit
    <3>2. QED  BY <1>1, <1>4, <1>6, <1>7, <2>2, <2>3, <3>1 DEF CreditOf, StampedOk, UnstampedOk
  <2>4. CASE i \in Mine(h)
    <3>1. g = h /\ CreditOf(i, h)
      BY <1>2, <1>5, <1>12, <2>1, <2>4 DEF AnnounceInv, Credit
    <3>2. \A k \in Syncs : ~Pending(k, h)'
      BY <1>1, <1>7, <2>1 DEF Pending, AnnounceInv, Aged, OneSync
    <3>3. Pending(s, h) /\ UNCHANGED tr
      BY <1>1 DEF Pending
    <3>4. CASE row[i].stamped
      <4>1. StampedOk(i, h) /\ ~finished(i) /\ announced'[i] = announced[i]
        BY <1>5, <2>4, <3>1, <3>4 DEF CreditOf
      <4>2. CASE reopened(i)
        <5>0. ~t.done
          BY <4>2
        <5>1. announced'[i] < Due(i, h) + 1 /\ ~row'[i].done /\ ~row'[i].stamped
          <6>1. announced[i] # 1 + Due(i, h)
            BY <3>3, <4>1, <5>0 DEF StampedOk
          <6>2. announced[i] <= 1 + Due(i, h)
            BY <4>1 DEF StampedOk
          <6>3. ~row'[i].done /\ ~row'[i].stamped
            BY <1>3, <1>5, <2>4, <4>1, <4>2, <5>0
          <6>4. announced'[i] = announced[i]
            BY <4>1
          <6> HIDE DEF t, finished, reopened
          <6>5. QED  BY <2>2, <3>1, <6>1, <6>2, <6>3, <6>4
        <5>2. ~Pausing(i)'
          BY <1>8, <2>4, <3>4
        <5>3. UnstampedOk(i, h)'
          BY <2>2, <3>1, <3>2, <4>1, <5>1, <5>2 DEF UnstampedOk
        <5>4. QED  BY <3>1, <5>1, <5>3 DEF CreditOf
      <4>3. CASE ~reopened(i)
        <5>1. row'[i].stamped
          BY <1>5, <2>4, <3>4, <4>3
        <5>2. StampedOk(i, h)'
          BY <2>2, <3>1, <3>2, <3>3, <4>1 DEF StampedOk
        <5>3. QED  BY <3>1, <5>1, <5>2 DEF CreditOf
      <4>4. QED  BY <4>2, <4>3
    <3>5. CASE ~row[i].stamped
      <4>1. UnstampedOk(i, h)
        BY <3>1, <3>5 DEF CreditOf
      <4>2. CASE finished(i)
        <5>1. row'[i].stamped /\ announced'[i] = announced[i] + 1
          BY <1>5, <2>4, <4>2
        <5>2. announced[i] = Due(i, h) => tr[h].done
          BY <3>3, <4>1, <4>2 DEF UnstampedOk
        <5>3. StampedOk(i, h)'
          BY <2>2, <3>1, <3>2, <3>3, <4>1, <5>1, <5>2 DEF StampedOk, UnstampedOk
        <5>4. QED  BY <3>1, <5>1, <5>3 DEF CreditOf
      <4>3. CASE ~finished(i)
        <5>1. ~row'[i].stamped /\ announced'[i] = announced[i] /\ row'[i].done = t.done
          BY <1>5, <2>4, <3>5, <4>3
        <5>2. announced[i] = Due(i, h) => (t.done \/ Pausing(i)' => tr[h].done)
          BY <1>8, <2>4, <3>3, <4>1 DEF UnstampedOk
        <5>3. UnstampedOk(i, h)'
          BY <2>2, <3>1, <3>2, <3>3, <4>1, <5>1, <5>2 DEF UnstampedOk
        <5>4. QED  BY <3>1, <5>1, <5>3 DEF CreditOf
      <4>4. QED  BY <4>2, <4>3
    <3>6. QED  BY <3>4, <3>5
  <2>5. QED  BY <2>3, <2>4
<1>13. QED  BY <1>9, <1>10, <1>11, <1>12 DEF AnnounceInv, Credit

-----------------------------------------------------------------------------
(* The theorems. *)

LEMMA InitInv == Init => TorrentInv
<1> SUFFICES ASSUME Init PROVE TorrentInv
  OBVIOUS
<1>1. \A i \in Ids : Blank(i, "unborn") \in Row /\ ~Live(Blank(i, "unborn"))
  BY Records DEF Blank, Live, Absent, Status
<1>2. TypeOK
  BY <1>1, Records, IdleFacts, TorrentAssumption DEF Init, TypeOK
<1>3. OneRowPerHash /\ HashInv /\ MapInv
  BY <1>1 DEF Init, OneRowPerHash, HashInv, MapInv, Exists, Live
<1>4. HeldInv
  BY DEF Init, HeldInv, NoSync, Gone
<1>5. OpInv /\ OneAdd
  BY IdleFacts DEF Init, OpInv, OneAdd
<1>6. QED  BY <1>2, <1>3, <1>4, <1>5 DEF TorrentInv

LEMMA NextInv == TorrentInv /\ [Next]_vars => TorrentInv'
<1> SUFFICES ASSUME TorrentInv, [Next]_vars PROVE TorrentInv'
  OBVIOUS
<1>1. ASSUME NEW c \in Clients, NEW i \in Ids, NEW h \in Hashes, NEW known \in BOOLEAN,
             AddTorrent(c, i, h, known)
      PROVE  TorrentInv'
  BY <1>1, AddTorrentStep
<1>2. ASSUME NEW c \in Clients, NEW i \in Ids, NEW kind \in Kinds, Request(c, i, kind)
      PROVE  TorrentInv'
  BY <1>2, RequestStep
<1>3. ASSUME NEW c \in Clients, Step(c) PROVE TorrentInv'
  BY <1>3, AddAnsweredStep, AddFailedStep, LookupStep, RequestAnsweredStep,
     RequestFailedStep, ServeStep DEF Step
<1>4. ASSUME NEW s \in Syncs, SyncStats(s) \/ Walk(s) PROVE TorrentInv'
  BY <1>4, SyncStatsStep, SyncTorrentStep, ReconcileStep DEF Walk
<1>5. ASSUME NEW h \in Hashes, Move(h) PROVE TorrentInv'
  BY <1>5, MoveStep
<1>6. CASE Restart
  BY <1>6, RestartStep
<1>7. CASE UNCHANGED vars
  <2>1. TypeOK' /\ RowsKept /\ HeldInv' /\ MapInv' /\ OpsKept
    BY <1>7, RowsSame, HeldSame, MapSame DEF vars, TorrentInv, TypeOK, OpsKept
  <2>2. QED  BY <1>7, <2>1, QuietStep DEF vars
<1>8. QED  BY <1>1, <1>2, <1>3, <1>4, <1>5, <1>6, <1>7 DEF Next

LEMMA Inductive == Spec => []TorrentInv
BY InitInv, NextInv, PTL DEF Spec

\* Rows, requests and snapshots stay what table torrents, the suspended calls
\* and the syncs can hold.
THEOREM TypeCorrect == Spec => []TypeOK
<1>1. TorrentInv => TypeOK
  BY DEF TorrentInv
<1>2. QED  BY <1>1, Inductive, PTL

\* The two duplicate checks of addTorrent keep info_hash unique, whatever adds,
\* requests and syncs run between its await and its answer.
THEOREM HashesUnique == Spec => []OneRowPerHash
<1>1. TorrentInv => OneRowPerHash
  BY DEF TorrentInv
<1>2. QED  BY <1>1, Inductive, PTL

\* No request is ever carried out on the torrent of another row.
THEOREM RequestsHitOwn == Spec => []OwnTorrent
<1>1. ASSUME TorrentInv PROVE OwnTorrent
  <2>1. ASSUME NEW i \in Ids, Exists(i), tids[i] # 0
        PROVE  tids[i] \in 1..Len(issued) /\ issued[tids[i]] = row[i].hash
    BY <1>1, <2>1 DEF TorrentInv, MapInv, Gave, Exists, Live
  <2>2. ASSUME NEW c \in Clients, op[c].kind \in Kinds, op[c].phase # "lookup",
               Exists(op[c].id)
        PROVE  op[c].tid \in 1..Len(issued) /\ issued[op[c].tid] = row[op[c].id].hash
    <3>1. op[c].kind # "idle"
      BY <2>2 DEF Kinds
    <3>2. QED  BY <1>1, <2>2, <3>1 DEF TorrentInv, OpInv, OpOk, Gave, Exists, Live
  <2>3. QED  BY <2>1, <2>2 DEF OwnTorrent
<1>2. QED  BY <1>1, Inductive, PTL

\* No sync brings a removed row back, however old the snapshot it works on.
THEOREM NoRevival == Spec => RemovedStaysRemoved
<1>1. ASSUME TorrentInv, [Next]_vars, sync' # sync, NEW i \in Ids, row[i].status = "removed"
      PROVE  row'[i] = row[i]
  <2>1. Restart \/ \E s \in Syncs : SyncStats(s) \/ Walk(s)
    <3>1. ASSUME NEW c \in Clients, Step(c) PROVE UNCHANGED sync
      BY <3>1 DEF Step, AddAnswered, AddFailed, Lookup, RequestAnswered, RequestFailed, Serve
    <3>2. ASSUME NEW c \in Clients, NEW j \in Ids, NEW h \in Hashes, NEW known \in BOOLEAN,
                 AddTorrent(c, j, h, known)
          PROVE  UNCHANGED sync
      BY <3>2 DEF AddTorrent
    <3>3. ASSUME NEW c \in Clients, NEW j \in Ids, NEW kind \in Kinds, Request(c, j, kind)
          PROVE  UNCHANGED sync
      BY <3>3 DEF Request
    <3>4. ASSUME NEW h \in Hashes, Move(h) PROVE UNCHANGED sync
      BY <3>4 DEF Move
    <3>5. ~UNCHANGED vars
      BY <1>1 DEF vars
    <3>6. QED  BY <1>1, <3>1, <3>2, <3>3, <3>4, <3>5 DEF Next
  <2>2. CASE Restart
    BY <2>2 DEF Restart
  <2>3. ASSUME NEW s \in Syncs, SyncStats(s) PROVE row'[i] = row[i]
    BY <2>3 DEF SyncStats
  <2>4. ASSUME NEW s \in Syncs, NEW h \in Hashes, SyncTorrent(s, h) PROVE row'[i] = row[i]
    <3>1. i \notin Mine(h)
      BY <1>1 DEF Mine
    <3>2. QED  BY <2>4, <3>1 DEF SyncTorrent
  <2>5. ASSUME NEW s \in Syncs, Reconcile(s) PROVE row'[i] = row[i]
    <3>1. i \notin Missing(s)
      BY <1>1 DEF Missing, Active
    <3>2. QED  BY <2>5, <3>1 DEF Reconcile
  <2>6. QED  BY <2>1, <2>2, <2>3, <2>4, <2>5 DEF Walk
<1>2. TorrentInv /\ [Next]_vars =>
        [sync' # sync => \A i \in Ids : row[i].status = "removed" => row'[i] = row[i]]_vars
  BY <1>1
<1>3. QED  BY <1>2, Inductive, PTL DEF Spec, RemovedStaysRemoved

LEMMA AnnounceInit == Init => AnnounceInv
<1> SUFFICES ASSUME Init PROVE AnnounceInv
  OBVIOUS
<1>1. \A i \in Ids : ~Live(row[i]) /\ announced[i] = 0
  BY DEF Init, Live, Blank, Absent
<1>2. \A c \in Clients : op[c].kind = "idle"
  BY IdleFacts DEF Init
<1>3. \A s \in Syncs : ~sync[s].walking
  BY DEF Init, NoSync
<1>4. QED  BY <1>1, <1>2, <1>3 DEF AnnounceInv, Unheard, Seen, Aged, Pending, Credit

LEMMA AnnounceNext ==
  ASSUME TorrentInv, TorrentInv', AnnounceInv, [Next]_vars
  PROVE  AnnounceInv'
<1>0. TypeOK'
  BY DEF TorrentInv
<1>1. ASSUME NEW c \in Clients, NEW i \in Ids, NEW h \in Hashes, NEW known \in BOOLEAN,
             AddTorrent(c, i, h, known)
      PROVE  AnnounceInv'
  BY <1>0, <1>1, AddTorrentCalm
<1>2. ASSUME NEW c \in Clients, NEW i \in Ids, NEW kind \in Kinds, Request(c, i, kind)
      PROVE  AnnounceInv'
  BY <1>0, <1>2, RequestAnnounce
<1>3. ASSUME NEW c \in Clients, Step(c) PROVE AnnounceInv'
  BY <1>0, <1>3, AddAnsweredCalm, AddFailedCalm, LookupCalm, RequestAnsweredAnnounce,
     RequestFailedCalm, ServeAnnounce DEF Step
<1>4. ASSUME NEW s \in Syncs, SyncStats(s) \/ Walk(s) PROVE AnnounceInv'
  BY <1>0, <1>4, SyncStatsCalm, SyncTorrentAnnounce, ReconcileCalm DEF Walk
<1>5. ASSUME NEW h \in Hashes, Move(h) PROVE AnnounceInv'
  BY <1>0, <1>5, MoveAnnounce
<1>6. CASE Restart
  BY <1>0, <1>6, RestartCalm
<1>7. CASE UNCHANGED vars
  <2>1. SameOps /\ CalmSyncs /\ SameRows
    BY <1>7, SameRowsStay, SyncsSame DEF vars, SameOps, AnnounceInv
  <2>2. CalmRows /\ CalmOps
    BY <1>7, <2>1, CalmParts DEF vars, TorrentInv, AnnounceInv
  <2>3. QED  BY <1>0, <1>7, <2>1, <2>2, CalmStep DEF vars, TorrentInv
<1>8. QED  BY <1>1, <1>2, <1>3, <1>4, <1>5, <1>6, <1>7 DEF Next

\* "Fire completion once per torrent": while syncs do not overlap, a second
\* announcement has a reason, whatever is added, paused, resumed and restarted.
THEOREM OneAnnouncement == Spec => []AnnouncedOnce
<1>1. TorrentInv /\ AnnounceInv /\ TorrentInv' /\ [Next]_vars => AnnounceInv'
  BY AnnounceNext
<1>2. TorrentInv /\ AnnounceInv => AnnouncedOnce
  <2> SUFFICES ASSUME TorrentInv, AnnounceInv, OneSync,
                      NEW i \in Ids, NEW h \in Hashes, Exists(i), row[i].hash = h
               PROVE  announced[i] <= 1 + regressed[h] + overtaken[i]
    BY DEF AnnouncedOnce, OneSync
  <2>1. CreditOf(i, h)
    BY DEF AnnounceInv, Credit, Exists, Live
  <2>2. announced[i] \in Nat /\ regressed[h] \in Nat /\ overtaken[i] \in Nat
    BY Counts DEF TorrentInv
  <2>3. QED  BY <2>1, <2>2 DEF CreditOf, StampedOk, UnstampedOk, Due
<1>3. QED  BY <1>1, <1>2, Inductive, AnnounceInit, PTL DEF Spec
=============================================================================
