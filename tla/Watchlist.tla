------------------------------ MODULE Watchlist ------------------------------
(***************************************************************************)
(* The watchlist: entries that are searched for by a periodic check, whose *)
(* finds are kept as results and, when one will do, added as torrents.     *)
(* The check works on a copy of the entries that ages while the searches   *)
(* run, up to three at a time; meanwhile the routes edit and delete        *)
(* entries, search for them on their own, add results by hand and take     *)
(* votes, and torrents are removed.  Indexers are external: a search may   *)
(* fail and may find anything.  How finds are ranked is left open, and so  *)
(* is which of many are stored: any may be among the best.                 *)
(*                                                                         *)
(* A find is known by its link.  A magnet link carries the info hash of    *)
(* its torrent; what the link of an indexer leads to shows only when it is *)
(* followed, and its result has no info hash.                              *)
(***************************************************************************)
EXTENDS Integers, FiniteSets

CONSTANTS
  Entries,      \* watchlist entries, by id
  Listed,       \* the entries there are when the daemon starts
  Finds,        \* what searches may find, by link
  Hashed,       \* the finds whose link is a magnet
  Torrents,     \* torrents, by info hash
  Leads,        \* the torrent a find leads to
  Limit,        \* finds of a search that are stored (50)
  Workers,      \* CONCURRENCY: searches of a check at a time
  MaxUser,      \* bound: things the user does
  MaxSearches   \* bound: searches of the routes at a time

ASSUME WatchlistAssumption ==
  /\ Entries # {} /\ Finds # {} /\ Hashed \subseteq Finds
  /\ Leads \in [Finds -> Torrents]
  /\ Limit \in Nat /\ MaxUser \in Nat /\ MaxSearches \in Nat

VARIABLES
  entry,     \* table watchlist
  result,    \* table watchlist_results, by entry and find
  torrent,   \* table torrents, by info hash: no row, a live one, or one whose
             \* status is removed or error
  checking,  \* checkInFlight
  todo,      \* the check's queue: entries it has not come to
  snap,      \* the check's copy of the entries: which are ongoing watches
  worker,    \* what each worker of the check waits for
  searches,  \* entries the routes are searching for (one search of an entry
             \* at a time)
  adding,    \* additions by hand that are under way
  user,      \* things the user may still do
  banned     \* history: finds of an entry that the user has voted down, or whose
             \* torrent was removed while their result held its info hash

vars == <<entry, result, torrent, checking, todo, snap, worker, searches,
          adding, user, banned>>
check == <<checking, todo, snap, worker>>

States == {"unborn", "watching", "fulfilled", "deleted"}
\* ongoing: isOngoingWatch, of what is watched; failing: the last attempts have
\* failed and the back-off is not over.
Entry == [state : States, enabled : BOOLEAN, ongoing : BOOLEAN, failing : BOOLEAN]
Result == [known : BOOLEAN, selected : BOOLEAN, vote : {-1, 0, 1}, blocked : BOOLEAN]
NoResult == [known |-> FALSE, selected |-> FALSE, vote |-> 0, blocked |-> FALSE]
Unborn == [state |-> "unborn", enabled |-> TRUE, ongoing |-> FALSE, failing |-> FALSE]
Resting == [phase |-> "idle", e |-> CHOOSE e \in Entries : TRUE,
            f |-> CHOOSE f \in Finds : TRUE]

Init ==
  /\ entry = [e \in Entries |->
                IF e \in Listed THEN [Unborn EXCEPT !.state = "watching"] ELSE Unborn]
  /\ result = [e \in Entries |-> [f \in Finds |-> NoResult]]
  /\ torrent = [t \in Torrents |-> "none"]
  /\ checking = FALSE
  /\ todo = {} /\ snap = [e \in Entries |-> FALSE]
  /\ worker = [w \in Workers |-> Resting]
  /\ searches = {} /\ adding = {}
  /\ user = MaxUser
  /\ banned = [e \in Entries |-> {}]

Exists(e) == entry[e].state \in {"watching", "fulfilled"}

-----------------------------------------------------------------------------
(* Results. *)

\* Mutant: a release that is found again starts afresh.
FreshResult(was) == [NoResult EXCEPT !.known = TRUE]
\* insertWatchlistResult: what was chosen, voted and blocked is kept.
FoundAgain(was) == [was EXCEPT !.known = TRUE]

\* The finds of a search that get a row: the first ones.
Stored(found) ==
  {s \in SUBSET found :
     IF Cardinality(found) <= Limit THEN s = found ELSE Cardinality(s) = Limit}

\* The stored finds of a search for an entry.
Inserted(e, stored) ==
  [result EXCEPT ![e] = [f \in Finds |->
     IF f \in stored THEN FoundAgain(@[f]) ELSE @[f]]]

\* deleteUnselectedResults
Cleared(e) ==
  [result EXCEPT ![e] = [f \in Finds |->
     IF ~@[f].selected /\ @[f].vote = 0 /\ ~@[f].blocked THEN NoResult ELSE @[f]]]

\* Two links to one release, as far as their text tells.
SameRelease(f, g) == f = g \/ (f \in Hashed /\ g \in Hashed /\ Leads[f] = Leads[g])

\* getBlockedResultKeys
Blocked(e) == {f \in Finds : result[e][f].vote = -1 \/ result[e][f].blocked}

\* A chosen find, if it has a row.
Selected(e, f) ==
  [result EXCEPT ![e][f].selected = @ \/ result[e][f].known]

-----------------------------------------------------------------------------
(* addTorrent.  A worker or a route that waits for it is "adding" when the row of
   the torrent is there under its info hash, and "resolving" while an indexer's
   link is followed, or while the torrent file it led to has a row under a
   temporary hash that no check can see. *)

Live(t) == torrent[t] = "live"

Phase(f) == IF f \in Hashed THEN "adding" ELSE "resolving"

\* The duplicate check and the insert; rows that are removed or in error give way.
Insert(t) == ~Live(t) /\ torrent' = [torrent EXCEPT ![t] = "live"]

\* The call: for a magnet the row is there before the first await.
Call(f) == IF f \in Hashed THEN Insert(Leads[f]) ELSE UNCHANGED torrent

\* It ends, well or not.  An addition that fails leaves a row in error, unless a
\* removal has taken its row meanwhile; one that finds the real hash taken once
\* Transmission has told it deletes its own, and a dead link never had any.
Ends(f, phase, ok) ==
  LET t == Leads[f] IN
  IF phase = "resolving"
    THEN IF ok THEN Insert(t) ELSE UNCHANGED torrent
    ELSE IF ok THEN torrent' = [torrent EXCEPT ![t] = "live"]
               ELSE \/ torrent' = [torrent EXCEPT ![t] = "dead"]
                    \/ UNCHANGED torrent

-----------------------------------------------------------------------------
(* The check. *)

Watched == {e \in Entries : entry[e].state = "watching" /\ entry[e].enabled}

\* Mutant: a check requested while one is running starts beside it.
StartBeside(force) ==
  LET asked == IF force THEN Watched ELSE {e \in Watched : ~entry[e].failing} IN
  /\ checking' = (checking \/ asked # {})
  /\ todo' = todo \cup asked
  /\ snap' = [e \in Entries |-> IF e \in asked THEN entry[e].ongoing ELSE snap[e]]

\* runWatchlistCheck: a check requested while one is running joins it.
StartCheck(force) ==
  /\ ~checking
  /\ LET asked == IF force THEN Watched ELSE {e \in Watched : ~entry[e].failing} IN
     /\ checking' = (asked # {})
     /\ todo' = asked
     /\ snap' = [e \in Entries |-> e \in asked /\ entry[e].ongoing]

\* tick, whenever the interval has passed; one that finds a check running joins it
\* and changes nothing here.
Tick ==
  /\ StartCheck(FALSE)
  /\ UNCHANGED <<entry, result, torrent, worker, searches, adding, user, banned>>

\* POST /api/watchlist/check
CheckNow ==
  /\ user > 0 /\ user' = user - 1
  /\ StartCheck(TRUE)
  /\ UNCHANGED <<entry, result, torrent, worker, searches, adding, banned>>

TakeEntry(w) ==
  /\ checking /\ worker[w].phase = "idle" /\ todo # {}
  /\ \E e \in todo :
       /\ todo' = todo \ {e}
       /\ worker' = [worker EXCEPT ![w] = [Resting EXCEPT !.phase = "searching", !.e = e]]
  /\ UNCHANGED <<entry, result, torrent, checking, snap, searches, adding,
                 user, banned>>

\* Mutant: a check that has ended stays in flight.
NeverOver(w) == TRUE
\* The check goes on without worker w.
GoesOn(w) == todo # {} \/ \E v \in Workers \ {w} : worker[v].phase # "idle"

\* A worker is done with its entry and the copy of it; the last one ends the check.
WorkerDone(w) ==
  /\ snap' = [snap EXCEPT ![worker[w].e] = FALSE]
  /\ worker' = [worker EXCEPT ![w] = Resting]
  /\ checking' = GoesOn(w)

\* recordFailure; an entry that is gone is not updated.
SearchFails(w) ==
  /\ worker[w].phase = "searching"
  /\ LET e == worker[w].e IN
     entry' = IF Exists(e) THEN [entry EXCEPT ![e].failing = TRUE] ELSE entry
  /\ WorkerDone(w)
  /\ UNCHANGED <<result, torrent, todo, searches, adding, user, banned>>

\* The gate of an automatic addition: no blocked link or info hash, and no live
\* torrent of the info hash, if the link has one.
Addable(e, f) ==
  /\ \A g \in Blocked(e) : ~SameRelease(f, g)
  /\ f \in Hashed => ~Live(Leads[f])

\* persistAndGrab for finds of which none is added: automatic additions are off,
\* or none of the best has seeders, the quality and a free way.
SearchFinds(w, found) ==
  /\ worker[w].phase = "searching"
  /\ LET e == worker[w].e IN
     IF Exists(e)
       THEN /\ \E stored \in Stored(found) : result' = Inserted(e, stored)
            /\ entry' = [entry EXCEPT ![e].failing = FALSE]
       ELSE \* the insert fails, as does the update of the entry
            UNCHANGED <<entry, result>>
  /\ WorkerDone(w)
  /\ UNCHANGED <<torrent, todo, searches, adding, user, banned>>

\* persistAndGrab up to the first await of addTorrent.  What is added is ranked
\* among all finds, stored or not; its row, if it has one, is looked at as it is
\* now.  The entry may have been edited or fulfilled since the copy was made, and
\* the finds may answer a query it has no more: nobody looks.
Grab(w, found, f) ==
  /\ worker[w].phase = "searching"
  /\ LET e == worker[w].e IN
     /\ Exists(e) /\ f \in found /\ Addable(e, f)
     /\ \E stored \in Stored(found) : result' = Inserted(e, stored)
     /\ entry' = [entry EXCEPT ![e].failing = FALSE]
  /\ Call(f)
  /\ worker' = [worker EXCEPT ![w].phase = Phase(f), ![w].f = f]
  /\ UNCHANGED <<checking, todo, snap, searches, adding, user, banned>>

\* The link has led to a magnet that nothing tracks.
Resolved(w) ==
  /\ worker[w].phase = "resolving"
  /\ Insert(Leads[worker[w].f])
  /\ worker' = [worker EXCEPT ![w].phase = "adding"]
  /\ UNCHANGED <<entry, result, checking, todo, snap, searches, adding, user, banned>>

\* What an addition makes of its entry, by the kind of watch it began as.
Matched(e, ongoing) ==
  IF Exists(e)
    THEN [entry EXCEPT ![e].state = IF ongoing THEN "watching" ELSE "fulfilled"]
    ELSE entry

\* addTorrent has ended.
Grabbed(w, ok) ==
  /\ worker[w].phase \in {"resolving", "adding"}
  /\ Ends(worker[w].f, worker[w].phase, ok)
  /\ LET e == worker[w].e IN
     IF ok
       THEN /\ result' = Selected(e, worker[w].f)
            /\ entry' = Matched(e, snap[e])
       ELSE UNCHANGED <<result, entry>>
  /\ WorkerDone(w)
  /\ UNCHANGED <<todo, searches, adding, user, banned>>

-----------------------------------------------------------------------------
(* The routes. *)

Asks == user > 0 /\ user' = user - 1

\* searchAndPersist, up to its search
StartSearch(e) == searches' = searches \cup {e}
MayStart == Cardinality(searches) < MaxSearches

\* POST /api/watchlist
Create(e, ongoing) ==
  /\ Asks /\ MayStart /\ entry[e].state = "unborn"
  /\ entry' = [entry EXCEPT ![e] = [Unborn EXCEPT !.state = "watching", !.ongoing = ongoing]]
  /\ StartSearch(e)
  /\ UNCHANGED <<result, torrent, check, adding, banned>>

\* An addition by hand knows its result by the id of its row; a find that was
\* cleared and is found again has another.
Orphaned == {[a EXCEPT !.row = @ /\ result'[a.e][a.f].known] : a \in adding}

\* PUT /api/watchlist/:id with another query
EditQuery(e) ==
  /\ Asks /\ MayStart /\ Exists(e)
  /\ result' = Cleared(e)
  /\ adding' = Orphaned
  /\ IF entry[e].state = "watching"
       THEN StartSearch(e) ELSE UNCHANGED searches
  /\ UNCHANGED <<entry, torrent, check, banned>>

\* PUT with what does not change the query
Edit(e, enabled, ongoing) ==
  /\ Asks /\ MayStart /\ Exists(e)
  /\ entry' = [entry EXCEPT ![e].enabled = enabled, ![e].ongoing = ongoing]
  \* whether a watch is ongoing follows from its query, which is compared
  /\ IF ongoing = entry[e].ongoing
       THEN UNCHANGED result ELSE result' \in {result, Cleared(e)}
  /\ adding' = Orphaned
  /\ IF entry[e].state = "watching" THEN StartSearch(e) ELSE UNCHANGED searches
  /\ UNCHANGED <<torrent, check, banned>>

\* DELETE; the results go with their entry.
Delete(e) ==
  /\ Asks /\ Exists(e)
  /\ entry' = [entry EXCEPT ![e] = [Unborn EXCEPT !.state = "deleted"]]
  /\ result' = [result EXCEPT ![e] = [f \in Finds |-> NoResult]]
  /\ adding' = Orphaned
  /\ banned' = [banned EXCEPT ![e] = {}]
  /\ UNCHANGED <<torrent, check, searches>>

\* POST .../search: what is fulfilled is watched again.
Search(e) ==
  /\ Asks /\ MayStart /\ Exists(e)
  /\ entry' = [entry EXCEPT ![e].state = "watching"]
  /\ StartSearch(e)
  /\ UNCHANGED <<result, torrent, check, adding, banned>>

\* The search of a route ends, in finds or in nothing.
SearchEnds(e, found, ok) ==
  /\ searches' = searches \ {e}
  /\ IF ok /\ Exists(e)
       THEN \E stored \in Stored(found) : result' = Inserted(e, stored)
       ELSE UNCHANGED result
  /\ entry' = IF Exists(e) THEN [entry EXCEPT ![e].failing = ~ok] ELSE entry
  /\ UNCHANGED <<torrent, check, adding, user, banned>>

\* POST .../results/:rid/add, up to the first await of addTorrent; what is
\* tracked is refused.
Add(e, f) ==
  /\ Asks /\ Exists(e) /\ result[e][f].known
  /\ Call(f)
  /\ adding' = adding \cup {[e |-> e, f |-> f, ongoing |-> entry[e].ongoing,
                            phase |-> Phase(f), row |-> TRUE]}
  /\ UNCHANGED <<entry, result, check, searches, banned>>

\* The link has led to a magnet that nothing tracks.
AddResolved(a) ==
  /\ a.phase = "resolving"
  /\ Insert(Leads[a.f])
  /\ adding' = (adding \ {a}) \cup {[a EXCEPT !.phase = "adding"]}
  /\ UNCHANGED <<entry, result, check, searches, user, banned>>

\* markResultSelected, and clearResultBlock: an addition by hand contradicts a
\* downvote.
Unblocked(was) ==
  [was EXCEPT !.selected = TRUE, !.blocked = FALSE,
              !.vote = IF was.vote = -1 THEN 0 ELSE was.vote]

Added(a, ok) ==
  /\ adding' = adding \ {a}
  /\ Ends(a.f, a.phase, ok)
  /\ entry' = IF ok THEN Matched(a.e, a.ongoing) ELSE entry
  /\ IF ok /\ a.row
       THEN /\ result' = [result EXCEPT ![a.e][a.f] = Unblocked(@)]
            /\ banned' = [banned EXCEPT ![a.e] = @ \ {a.f}]
       ELSE UNCHANGED <<result, banned>>
  /\ UNCHANGED <<check, searches, user>>

\* POST .../results/:rid/feedback
Vote(e, f, vote) ==
  /\ Asks /\ result[e][f].known
  /\ result' = [result EXCEPT ![e][f].vote = vote]
  /\ banned' = [banned EXCEPT ![e] = IF vote = -1 THEN @ \cup {f}
                                     ELSE IF result[e][f].blocked THEN @ ELSE @ \ {f}]
  /\ UNCHANGED <<entry, torrent, check, searches, adding>>

\* The results with the info hash of torrent t.
WithHash(e, t) == {f \in Hashed : Leads[f] = t /\ result[e][f].known}

\* A torrent is removed, its row kept or deleted: blockResultsByInfoHash.
Remove(t) ==
  /\ Asks /\ torrent[t] # "none"
  /\ \E left \in {"none", "dead"} : torrent' = [torrent EXCEPT ![t] = left]
  /\ result' = [e \in Entries |-> [f \in Finds |->
       [result[e][f] EXCEPT !.blocked = @ \/ f \in WithHash(e, t)]]]
  /\ banned' = [e \in Entries |-> banned[e] \cup WithHash(e, t)]
  /\ UNCHANGED <<entry, check, searches, adding>>

\* The back-off of an entry is over.
RetryDue(e) ==
  /\ entry[e].failing
  /\ entry' = [entry EXCEPT ![e].failing = FALSE]
  /\ UNCHANGED <<result, torrent, check, searches, adding, user, banned>>

-----------------------------------------------------------------------------
WorkerStep(w) ==
  \/ TakeEntry(w)
  \/ SearchFails(w)
  \/ \E found \in SUBSET Finds :
       \/ SearchFinds(w, found)
       \/ \E f \in found : Grab(w, found, f)
  \/ Resolved(w)
  \/ \E ok \in BOOLEAN : Grabbed(w, ok)

Next ==
  \/ Tick \/ CheckNow
  \/ \E w \in Workers : WorkerStep(w)
  \/ \E e \in Entries :
       \/ \E ongoing \in BOOLEAN : Create(e, ongoing)
       \/ EditQuery(e) \/ Delete(e) \/ Search(e) \/ RetryDue(e)
       \/ \E enabled, ongoing \in BOOLEAN : Edit(e, enabled, ongoing)
       \/ \E f \in Finds : Add(e, f) \/ \E vote \in {-1, 0, 1} : Vote(e, f, vote)
  \/ \E e \in searches, found \in SUBSET Finds, ok \in BOOLEAN : SearchEnds(e, found, ok)
  \/ \E a \in adding : AddResolved(a) \/ \E ok \in BOOLEAN : Added(a, ok)
  \/ \E t \in Torrents : Remove(t)

Spec == Init /\ [][Next]_vars

\* The ticks come, calls end, and back-offs end.  A check takes up an entry
\* whichever other entries there are.
Fairness ==
  /\ WF_vars(Tick)
  /\ \A w \in Workers : WF_vars(WorkerStep(w))
  /\ \A e \in Entries : WF_vars(RetryDue(e))

LiveSpec == Spec /\ Fairness

-----------------------------------------------------------------------------
Phases == {"idle", "searching", "resolving", "adding"}

TypeOK ==
  /\ entry \in [Entries -> Entry]
  /\ result \in [Entries -> [Finds -> Result]]
  /\ torrent \in [Torrents -> {"none", "live", "dead"}]
  /\ checking \in BOOLEAN
  /\ todo \subseteq Entries /\ snap \in [Entries -> BOOLEAN]
  /\ worker \in [Workers -> [phase : Phases, e : Entries, f : Finds]]
  /\ searches \subseteq Entries
  /\ adding \subseteq [e : Entries, f : Finds, ongoing : BOOLEAN, phase : Phases, row : BOOLEAN]
  /\ user \in 0..MaxUser
  /\ banned \in [Entries -> SUBSET Finds]

\* The check decides in this step to add find f.
Grabs(w, f) ==
  worker[w].phase = "searching" /\ worker'[w].phase = Phase(f) /\ worker'[w].f = f

\* "Downvoted and removal-blocked releases are the exception: those never come
\* back" (watchlist-runner.ts:220): however often they are found again, under the
\* same link or another magnet of the torrent, and whatever edits clear, until the
\* user adds them or takes the vote back.  A removal blocks the results that hold
\* the info hash and no others: what was found under an indexer's link, or was not
\* stored, does come back.
NeverComesBack ==
  [][\A w \in Workers, f \in Finds :
       Grabs(w, f) => \A g \in banned[worker[w].e] : ~SameRelease(f, g)]_vars

Busy(w) == worker[w].phase # "idle"

\* "A check requested while one is running joins it; the startup run and a manual
\* one otherwise grab the same release twice" (watchlist-runner.ts:81): whenever
\* checks are due, forced and joined, no two workers are on one entry, nor is one
\* on an entry that is still to be taken up.
NoDoubleGrab ==
  \A v, w \in Workers :
    Busy(v) => worker[v].e \notin todo /\ (Busy(w) /\ worker[v].e = worker[w].e => v = w)

\* No watched entry is forgotten by the checks: not by one that fails, nor by
\* one that was joined, nor by a long back-off.
KeepsLooking ==
  \A e \in Entries :
    e \in Watched ~> (e \notin Watched \/ \E w \in Workers : Busy(w) /\ worker[w].e = e)
=============================================================================
