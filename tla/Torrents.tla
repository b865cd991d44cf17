------------------------------ MODULE Torrents ------------------------------
(***************************************************************************)
(* The torrent manager: the rows of table torrents, the map from rows to   *)
(* Transmission ids, the requests on a torrent and the sync that polls     *)
(* Transmission every three seconds.  A request is suspended while         *)
(* Transmission works, and continues with the row it read before; a sync   *)
(* walks a snapshot that ages at every await.  Transmission itself is      *)
(* external: it may refuse a call, carry it out and time out, and change   *)
(* its torrents on its own or at another client's hand.                    *)
(***************************************************************************)
EXTENDS Naturals, Sequences

CONSTANTS
  Ids,          \* row ids, one for each add
  Hashes,       \* the torrents there are
  Clients,      \* requests that may be in progress together
  Syncs,        \* syncs that may be in progress together
  Loads         \* what may be going on in a behaviour, see below

\* A load: clients and syncs, the torrents users add, and two bounds, on the
\* requests and on the changes in Transmission and restarts of the daemon.
ASSUME TorrentAssumption ==
  /\ Ids \cap Hashes = {} /\ Ids # {}
  /\ Loads \subseteq [who : SUBSET (Clients \cup Syncs), hashes : SUBSET Hashes,
                     requests : Nat, moves : Nat]

VARIABLES
  row,        \* table torrents
  tids,       \* transmissionIds: row -> Transmission id, 0 when there is none
  tr,         \* what Transmission holds of each torrent
  issued,     \* the torrent each Transmission id was given to
  op,         \* the request each client is waiting for
  sync,       \* the syncs in progress
  load,       \* the load of this behaviour
  requests,   \* requests still to come
  moves,      \* changes outside still to come
  announced,  \* times COMPLETED was emitted for a row
  overtaken,  \* of those, by pauses that had read the row before another one
  regressed   \* times a finished torrent became unfinished in Transmission

vars == <<row, tids, tr, issued, op, sync, load, requests, moves, announced,
          overtaken, regressed>>

\* "downloading" stands for "queued" too: what waits in the download queue is
\* treated like what downloads.
Active == {"adding", "downloading", "seeding"}
Absent == {"unborn", "deleted"}
Status == Active \cup Absent \cup {"checking", "paused", "completed", "error", "removed"}
Kinds == {"pause", "resume", "verify", "remove", "erase"}
Runs == {"stopped", "checking", "downloading", "seeding", "error"}

Row == [status : Status, hash : Hashes \cup Ids, done : BOOLEAN, stamped : BOOLEAN]
Held == [tid : Nat, run : Runs, done : BOOLEAN]
Op == [kind : Kinds \cup {"idle", "add"},
       id : Ids, hash : Hashes \cup Ids, known : BOOLEAN,
       was : [done : BOOLEAN, stamped : BOOLEAN, announced : Nat], tid : Nat,
       phase : {"lookup", "sent", "answered"}]
Sync == [walking : BOOLEAN, snap : [Hashes -> Held],
         left : SUBSET Hashes]

-----------------------------------------------------------------------------
(* Rows and what Transmission holds. *)

Blank(i, s) == [status |-> s, hash |-> i, done |-> FALSE, stamped |-> FALSE]
Gone == [tid |-> 0, run |-> "stopped", done |-> FALSE]
NoSync == [walking |-> FALSE, snap |-> [h \in Hashes |-> Gone], left |-> {}]
Idle == [kind |-> "idle", id |-> CHOOSE i \in Ids : TRUE, hash |-> CHOOSE i \in Ids : TRUE,
         known |-> FALSE, was |-> [done |-> FALSE, stamped |-> FALSE, announced |-> 0],
         tid |-> 0, phase |-> "sent"]

Exists(i) == row[i].status \notin Absent

\* getTorrentByHash: at most one row, as info_hash is unique.
ByHash(x) == {i \in Ids : Exists(i) /\ row[i].hash = x}

\* Mutant: the sync does not pass over removed rows.
MineOrRemoved(h) == ByHash(h)
\* The row a sync updates for a torrent: never a removed one.
Mine(h) == {i \in ByHash(h) : row[i].status # "removed"}

\* Rows that do not stand in the way of a new add.
Dead(i) == row[i].status \in {"removed", "error"}

\* updateTorrent: nothing happens when the row is gone.
Update(i, r) == [row EXCEPT ![i] = IF Exists(i) THEN r ELSE @]

\* The status a sync writes for a torrent in this state.
Shown(t, status) ==
  CASE t.run # "stopped" -> t.run
    [] t.run = "stopped" /\ status = "adding" -> status
    [] OTHER -> IF t.done THEN "completed" ELSE "paused"

Init ==
  /\ row = [i \in Ids |-> Blank(i, "unborn")]
  /\ tids = [i \in Ids |-> 0]
  /\ tr = [h \in Hashes |-> Gone]
  /\ issued = <<>>
  /\ op = [c \in Clients |-> Idle]
  /\ sync = [s \in Syncs |-> NoSync]
  /\ load \in Loads
  /\ requests = load.requests
  /\ moves = load.moves
  /\ announced = [i \in Ids |-> 0]
  /\ overtaken = [i \in Ids |-> 0]
  /\ regressed = [h \in Hashes |-> 0]

-----------------------------------------------------------------------------
(* Requests. *)

Begin(c) ==
  /\ c \in load.who
  /\ op[c] = Idle
  /\ requests > 0
  /\ requests' = requests - 1

End(c) == op' = [op EXCEPT ![c] = Idle]

\* Row ids and torrents nobody has used yet are alike: take any one of them.
NextId == CHOOSE i \in Ids : row[i].status = "unborn"
Met == {h \in Hashes : \/ \E i \in Ids : row[i].hash = h
                       \/ \E k \in 1..Len(issued) : issued[k] = h
                       \/ \E c \in Clients : op[c].hash = h}
NextHash == CHOOSE h \in load.hashes : h \notin Met

\* addTorrent up to torrent-add.  A magnet link carries its hash, a file does
\* not and is stored under a hash of its own for now.
AddTorrent(c, i, h, known) ==
  LET temp == IF known THEN h ELSE i
  IN /\ Begin(c)
     /\ row[i].status = "unborn"
     /\ i = NextId /\ h \in load.hashes /\ (h \notin Met => h = NextHash)
     /\ \A j \in ByHash(temp) : Dead(j)
     /\ row' = [j \in Ids |-> IF j = i THEN [Blank(i, "adding") EXCEPT !.hash = temp]
                              ELSE IF j \in ByHash(temp) THEN Blank(j, "deleted")
                              ELSE row[j]]
     /\ tids' = [j \in Ids |-> IF j \in ByHash(temp) THEN 0 ELSE tids[j]]
     /\ op' = [op EXCEPT ![c] = [Idle EXCEPT !.kind = "add", !.id = i, !.hash = h,
                                             !.known = known]]
     /\ UNCHANGED <<tr, issued, sync, load, moves, announced, overtaken, regressed>>

\* Mutant: no second duplicate check.
RivalsUnchecked(c) == {}
\* Rows that hold the hash Transmission answered: an add under a hash of its
\* own may have missed them.
Rivals(c) == IF op[c].known THEN {} ELSE ByHash(op[c].hash)

\* Mutant: the row keeps the hash it was stored under.
AddedUnderTemp(r, h) == [r EXCEPT !.status = "downloading"]
\* What the answer makes of the row of the add.
Added(r, h) == [r EXCEPT !.hash = h, !.status = "downloading"]

\* torrent-add answered: the row takes the real hash, unless a living row has
\* it already, and is downloading whatever a sync made of it meanwhile.
AddAnswered(c) ==
  LET i == op[c].id
      refused == \E j \in Rivals(c) : ~Dead(j)
  IN /\ op[c].kind = "add"
     /\ op[c].phase = "answered"
     /\ row' = [j \in Ids |->
                  IF refused THEN IF j = i THEN Blank(j, "deleted") ELSE row[j]
                  ELSE IF j \in Rivals(c) THEN Blank(j, "deleted")
                  ELSE IF j = i /\ Exists(i) THEN Added(row[i], op[c].hash)
                  ELSE row[j]]
     /\ tids' = [j \in Ids |->
                   IF refused THEN IF j = i THEN 0 ELSE tids[j]
                   ELSE IF j \in Rivals(c) THEN 0
                   ELSE IF j = i THEN op[c].tid ELSE tids[j]]
     /\ End(c)
     /\ UNCHANGED <<tr, issued, sync, load, requests, moves, announced, overtaken, regressed>>

\* torrent-add threw: refused, or carried out without an answer in time.
AddFailed(c) ==
  /\ op[c].kind = "add"
  /\ op[c].phase \in {"sent", "answered"}
  /\ row' = Update(op[c].id, [row[op[c].id] EXCEPT !.status = "error"])
  /\ End(c)
  /\ UNCHANGED <<tids, tr, issued, sync, load, requests, moves, announced, overtaken, regressed>>

\* What a request on row i leaves behind, given the row it read at its start.
After(kind, i, was) ==
  CASE kind = "pause" ->
         [row[i] EXCEPT !.status = IF was.done THEN "completed" ELSE "paused",
                        !.stamped = @ \/ (was.done /\ ~was.stamped)]
    [] kind = "resume" ->
         [row[i] EXCEPT !.status = IF was.done THEN "seeding" ELSE "downloading"]
    [] kind = "verify" -> [row[i] EXCEPT !.status = "checking"]
    [] kind = "remove" -> [row[i] EXCEPT !.status = "removed"]
    [] kind = "erase" -> Blank(i, "deleted")

\* Mutant: every pause of a finished torrent announces it.
EmitsAgain(kind, was) == kind = "pause" /\ was.done
\* A pause announces a finished torrent that nobody has announced.
Emits(kind, was) == kind = "pause" /\ was.done /\ ~was.stamped

\* The row was announced, or deleted, since the request read it.
Overtaken(i, was) == announced[i] # was.announced \/ ~Exists(i)

Finish(kind, i, was) ==
  /\ row' = Update(i, After(kind, i, was))
  /\ tids' = IF kind \in {"remove", "erase"} THEN [tids EXCEPT ![i] = 0] ELSE tids
  /\ announced' = IF Emits(kind, was) THEN [announced EXCEPT ![i] = @ + 1]
                  ELSE announced
  /\ overtaken' = IF Emits(kind, was) /\ Overtaken(i, was)
                    THEN [overtaken EXCEPT ![i] = @ + 1]
                  ELSE overtaken

\* pauseTorrent, resumeTorrent, verifyTorrent and removeTorrent up to their
\* call, or to the end when Transmission does not know the row.
Request(c, i, kind) ==
  LET was == [done |-> row[i].done, stamped |-> row[i].stamped,
              announced |-> announced[i]]
  IN /\ Begin(c)
     /\ Exists(i)
     /\ IF tids[i] = 0 /\ kind # "resume"
          THEN Finish(kind, i, was) /\ UNCHANGED op
          ELSE /\ op' = [op EXCEPT ![c] =
                           [Idle EXCEPT !.kind = kind, !.id = i, !.hash = row[i].hash,
                                        !.was = was, !.tid = tids[i],
                                        !.phase = IF tids[i] = 0 THEN "lookup" ELSE "sent"]]
               /\ UNCHANGED <<row, tids, announced, overtaken>>
     /\ UNCHANGED <<tr, issued, sync, load, moves, regressed>>

\* resumeTorrent asks Transmission by hash, and gives up when it holds nothing.
Lookup(c) ==
  /\ op[c].kind = "resume"
  /\ op[c].phase = "lookup"
  /\ \/ \E h \in Hashes :
          /\ h = op[c].hash
          /\ tr[h].tid # 0
          /\ op' = [op EXCEPT ![c].tid = tr[h].tid, ![c].phase = "sent"]
          /\ tids' = [tids EXCEPT ![op[c].id] = tr[h].tid]
     \/ End(c) /\ UNCHANGED tids
  /\ UNCHANGED <<row, tr, issued, sync, load, requests, moves, announced, overtaken, regressed>>

RequestAnswered(c) ==
  /\ op[c].kind \in Kinds
  /\ op[c].phase = "answered"
  /\ Finish(op[c].kind, op[c].id, op[c].was)
  /\ End(c)
  /\ UNCHANGED <<tr, issued, sync, load, requests, moves, regressed>>

\* The call threw, refused or without an answer in time: so does the request,
\* before it writes anything.
RequestFailed(c) ==
  /\ op[c].kind \in Kinds
  /\ op[c].phase \in {"sent", "answered"}
  /\ End(c)
  /\ UNCHANGED <<row, tids, tr, issued, sync, load, requests, moves, announced, overtaken, regressed>>

-----------------------------------------------------------------------------
(* Transmission. *)

\* What a call makes of a torrent it is about.
Served(kind, t) ==
  CASE kind = "pause" -> [t EXCEPT !.run = "stopped"]
    [] kind = "resume" -> [t EXCEPT !.run = IF t.done THEN "seeding" ELSE "downloading"]
    [] kind = "verify" -> [t EXCEPT !.run = "checking"]
    [] OTHER -> Gone

\* What was finished and is so no longer, or is gone.
Regress == regressed' = [h \in Hashes |-> IF tr[h].done /\ ~tr'[h].done
                                            THEN regressed[h] + 1 ELSE regressed[h]]

\* A call is carried out.  Its answer may still be lost: AddFailed and
\* RequestFailed are possible before this step and after it.
Serve(c) ==
  /\ op[c].kind # "idle"
  /\ op[c].phase = "sent"
  /\ IF op[c].kind = "add"
       THEN LET h == op[c].hash
                fresh == tr[h].tid = 0
                tid == IF fresh THEN Len(issued) + 1 ELSE tr[h].tid
            IN /\ \E run \in {"stopped", "downloading"} :
                    tr' = IF fresh THEN [tr EXCEPT ![h] = [tid |-> tid, run |-> run, done |-> FALSE]]
                          ELSE tr
               /\ issued' = IF fresh THEN Append(issued, h) ELSE issued
               /\ op' = [op EXCEPT ![c].phase = "answered", ![c].tid = tid]
       ELSE /\ tr' = [h \in Hashes |-> IF tr[h].tid = op[c].tid THEN Served(op[c].kind, tr[h])
                                       ELSE tr[h]]
            /\ op' = [op EXCEPT ![c].phase = "answered"]
            /\ UNCHANGED issued
  /\ Regress
  /\ UNCHANGED <<row, tids, sync, load, requests, moves, announced, overtaken>>

\* States a torrent can be in: what is being downloaded is not done, what is
\* being seeded is.
Sound(t) ==
  /\ t.run = "downloading" => ~t.done
  /\ t.run = "seeding" => t.done

\* Transmission's own progress, and what other clients do to its torrents.
Move(h) ==
  /\ moves > 0
  /\ moves' = moves - 1
  /\ tr[h].tid # 0
  /\ \/ \E run \in Runs, done \in BOOLEAN :
          tr' = [tr EXCEPT ![h].run = run, ![h].done = done]
     \/ tr' = [tr EXCEPT ![h] = Gone]
  /\ Sound(tr'[h])
  /\ tr' # tr
  /\ Regress
  /\ UNCHANGED <<row, tids, issued, op, sync, load, requests, announced, overtaken>>

-----------------------------------------------------------------------------
(* The sync. *)

\* torrent-get: the snapshot a sync works on.  A sync whose call fails changes
\* nothing.
SyncStats(s) ==
  /\ s \in load.who
  /\ sync[s] = NoSync
  /\ sync' = [sync EXCEPT ![s] = [walking |-> TRUE, snap |-> tr,
                                  left |-> {h \in Hashes : tr[h].tid # 0}]]
  /\ UNCHANGED <<row, tids, tr, issued, op, load, requests, moves, announced, overtaken, regressed>>

\* One turn of the walk, on the row as it is now, to the await of its files;
\* torrents without a row may be passed over on the way.
SyncTorrent(s, h) ==
  LET t == sync[s].snap[h]
      status(i) == Shown(t, row[i].status)
      finished(i) == /\ t.done
                     /\ row[i].status \in {"downloading", "adding"}
                     /\ ~row[i].stamped
      reopened(i) == ~t.done /\ status(i) = "downloading"
  IN /\ sync[s].walking
     /\ h \in sync[s].left
     /\ Mine(h) # {}
     /\ \E passed \in SUBSET {k \in sync[s].left : Mine(k) = {}} :
          sync' = [sync EXCEPT ![s].left = @ \ (passed \cup {h})]
     /\ tids' = [i \in Ids |-> IF i \in Mine(h) THEN t.tid ELSE tids[i]]
     /\ row' = [i \in Ids |->
                  IF i \in Mine(h)
                    THEN [status |-> status(i), hash |-> h, done |-> t.done,
                          stamped |-> finished(i) \/ (row[i].stamped /\ ~reopened(i))]
                    ELSE row[i]]
     /\ announced' = [i \in Ids |-> IF i \in Mine(h) /\ finished(i) THEN announced[i] + 1
                                    ELSE announced[i]]
     /\ UNCHANGED <<tr, issued, op, load, requests, moves, overtaken, regressed>>

\* Mutant: only downloads are looked for.
MissingDownloads(s) ==
  {i \in Ids : /\ row[i].status = "downloading"
               /\ \A h \in Hashes : sync[s].snap[h].tid # 0 => row[i].hash # h}
\* Active rows the snapshot of a sync did not have.
Missing(s) ==
  {i \in Ids : /\ row[i].status \in Active
               /\ \A h \in Hashes : sync[s].snap[h].tid # 0 => row[i].hash # h}

\* The end of a sync: they were removed by another client.
Reconcile(s) ==
  /\ sync[s].walking
  /\ \A h \in sync[s].left : Mine(h) = {}
  /\ row' = [i \in Ids |-> IF i \in Missing(s) THEN [row[i] EXCEPT !.status = "removed"] ELSE row[i]]
  /\ tids' = [i \in Ids |-> IF i \in Missing(s) THEN 0 ELSE tids[i]]
  /\ sync' = [sync EXCEPT ![s] = NoSync]
  /\ UNCHANGED <<tr, issued, op, load, requests, moves, announced, overtaken, regressed>>

\* The daemon stops and starts: requests, syncs and the map are gone, and the
\* map is made again if Transmission answers.
Restart ==
  /\ moves > 0
  /\ moves' = moves - 1
  /\ op' = [c \in Clients |-> Idle]
  /\ sync' = [s \in Syncs |-> NoSync]
  /\ \E up \in BOOLEAN :
       tids' = [i \in Ids |->
                  IF up /\ Exists(i) /\ row[i].status # "removed" /\ row[i].hash \in Hashes
                    THEN tr[row[i].hash].tid ELSE 0]
  /\ UNCHANGED <<row, tr, issued, load, requests, announced, overtaken, regressed>>

-----------------------------------------------------------------------------
Step(c) == \/ AddAnswered(c) \/ AddFailed(c)
           \/ Lookup(c) \/ RequestAnswered(c) \/ RequestFailed(c)
           \/ Serve(c)

Walk(s) == Reconcile(s) \/ \E h \in Hashes : SyncTorrent(s, h)

Next ==
  \/ \E c \in Clients :
       \/ \E i \in Ids, h \in Hashes, known \in BOOLEAN : AddTorrent(c, i, h, known)
       \/ \E i \in Ids, kind \in Kinds : Request(c, i, kind)
       \/ Step(c)
  \/ \E s \in Syncs : SyncStats(s) \/ Walk(s)
  \/ \E h \in Hashes : Move(h)
  \/ Restart

Spec == Init /\ [][Next]_vars

\* The interval timer, promises that settle, and a Transmission that answers a
\* sync in the end: nothing is assumed of users and of other clients.
Fairness ==
  /\ \A c \in Clients : WF_vars(Step(c))
  /\ \A s \in Syncs : WF_vars(SyncStats(s) \/ Walk(s))

LiveSpec == Spec /\ Fairness

-----------------------------------------------------------------------------
(* What should hold. *)

TypeOK ==
  /\ row \in [Ids -> Row]
  /\ tids \in [Ids -> Nat]
  /\ tr \in [Hashes -> Held]
  /\ issued \in Seq(Hashes)
  /\ op \in [Clients -> Op]
  /\ sync \in [Syncs -> Sync]
  /\ load \in Loads
  /\ requests \in Nat
  /\ moves \in Nat
  /\ announced \in [Ids -> Nat]
  /\ overtaken \in [Ids -> Nat]
  /\ regressed \in [Hashes -> Nat]

\* The duplicate checks of addTorrent, before and after its await, keep
\* info_hash unique: the UNIQUE constraint of the table never throws.
OneRowPerHash ==
  \A i, j \in Ids : Exists(i) /\ Exists(j) /\ row[i].hash = row[j].hash => i = j

\* transmissionIds, and the id a suspended request took from it, name the
\* torrent of the row: no request is ever carried out on another torrent.
OwnTorrent ==
  /\ \A i \in Ids : Exists(i) /\ tids[i] # 0 =>
       /\ tids[i] \in 1..Len(issued)
       /\ issued[tids[i]] = row[i].hash
  /\ \A c \in Clients :
       op[c].kind \in Kinds /\ op[c].phase # "lookup" /\ Exists(op[c].id) =>
         /\ op[c].tid \in 1..Len(issued)
         /\ issued[op[c].tid] = row[op[c].id].hash

\* "Fire completion once per torrent": as long as syncs do not overlap, each
\* further announcement of a row, whatever requests go on, needs its torrent to
\* become unfinished in Transmission, or is that of a pause that had read the
\* row before the last one.
AnnouncedOnce ==
  (\A s, t \in load.who \cap Syncs : s = t) =>
    \A i \in Ids, h \in Hashes : Exists(i) /\ row[i].hash = h =>
      announced[i] <= 1 + regressed[h] + overtaken[i]

\* "A removal means don't bring this back": a removed row leaves that state
\* only by a request on a torrent, never by a sync, however old its snapshot.
RemovedStaysRemoved ==
  [][sync' # sync =>
       \A i \in Ids : row[i].status = "removed" => row'[i] = row[i]]_vars

\* Every row shows what Transmission holds, and no row is active without it.
Mirrored ==
  \A i \in Ids :
    /\ row[i].status \in Active => row[i].hash \in Hashes /\ tr[row[i].hash].tid # 0
    /\ \A h \in Hashes :
         tr[h].tid # 0 /\ i \in Mine(h) =>
           row[i].status = Shown(tr[h], row[i].status) /\ row[i].done = tr[h].done

\* When users and other clients stop, the table settles on what Transmission
\* holds, whatever the syncs and requests wrote on top of each other.
EventuallyMirrored == <>[]Mirrored
=============================================================================
