--------------------------- MODULE WatchlistProofs ---------------------------
(***************************************************************************)
(* What holds of the watchlist for any entries, finds and workers: no      *)
(* check adds what was voted down or blocked by a removal, whatever        *)
(* searches, edits and additions did to the table of results in between;   *)
(* and no entry is checked twice at a time.                                *)
(***************************************************************************)
EXTENDS Watchlist, TLAPS

\* What is banned for an entry is a result that the gate turns away.
Turned(e, f) == result[e][f].known /\ (result[e][f].vote = -1 \/ result[e][f].blocked)

TypeInv ==
  /\ result \in [Entries -> [Finds -> Result]]
  /\ banned \in [Entries -> SUBSET Finds]
  /\ worker \in [Workers -> [phase : Phases, e : Entries, f : Finds]]
  /\ todo \subseteq Entries /\ searches \subseteq Entries
  /\ \A a \in adding : a.e \in Entries /\ a.f \in Finds

BannedTurned == \A e \in Entries : \A f \in banned[e] : Turned(e, f)

IInv == TypeInv /\ BannedTurned

-----------------------------------------------------------------------------
(* The operators on results. *)

\* A result with fields of their types is one.
LEMMA ResultIs ==
  ASSUME NEW k \in BOOLEAN, NEW s \in BOOLEAN, NEW v \in {-1, 0, 1}, NEW b \in BOOLEAN
  PROVE  [known |-> k, selected |-> s, vote |-> v, blocked |-> b] \in Result
BY DEF Result

\* No result is one, and it is neither chosen nor turned away.
LEMMA NoResultIs == NoResult \in Result
BY DEF Result, NoResult

\* What single updates make of a result.
LEMMA ResultUpdates ==
  ASSUME NEW x \in Result, NEW b \in BOOLEAN, NEW v \in {-1, 0, 1}
  PROVE  /\ [x EXCEPT !.known = TRUE] \in Result
         /\ [x EXCEPT !.known = TRUE].known
         /\ [x EXCEPT !.known = TRUE].vote = x.vote
         /\ [x EXCEPT !.known = TRUE].blocked = x.blocked
         /\ [x EXCEPT !.selected = b] \in Result
         /\ [x EXCEPT !.selected = b].known = x.known
         /\ [x EXCEPT !.selected = b].vote = x.vote
         /\ [x EXCEPT !.selected = b].blocked = x.blocked
         /\ [x EXCEPT !.vote = v] \in Result
         /\ [x EXCEPT !.vote = v].known = x.known
         /\ [x EXCEPT !.vote = v].vote = v
         /\ [x EXCEPT !.vote = v].blocked = x.blocked
         /\ [x EXCEPT !.blocked = b] \in Result
         /\ [x EXCEPT !.blocked = b].known = x.known
         /\ [x EXCEPT !.blocked = b].vote = x.vote
         /\ [x EXCEPT !.blocked = b].blocked = b
         /\ x.known \in BOOLEAN /\ x.selected \in BOOLEAN /\ x.blocked \in BOOLEAN
         /\ x.vote \in {-1, 0, 1}
<1>1. /\ x.known \in BOOLEAN /\ x.selected \in BOOLEAN /\ x.blocked \in BOOLEAN
      /\ x.vote \in {-1, 0, 1}
  BY DEF Result
<1>2. /\ [x EXCEPT !.known = TRUE] \in Result
      /\ [x EXCEPT !.known = TRUE].known
      /\ [x EXCEPT !.known = TRUE].vote = x.vote
      /\ [x EXCEPT !.known = TRUE].blocked = x.blocked
  BY DEF Result
<1>3. /\ [x EXCEPT !.selected = b] \in Result
      /\ [x EXCEPT !.selected = b].known = x.known
      /\ [x EXCEPT !.selected = b].vote = x.vote
      /\ [x EXCEPT !.selected = b].blocked = x.blocked
  BY DEF Result
<1>4. /\ [x EXCEPT !.vote = v] \in Result
      /\ [x EXCEPT !.vote = v].known = x.known
      /\ [x EXCEPT !.vote = v].vote = v
      /\ [x EXCEPT !.vote = v].blocked = x.blocked
  BY DEF Result
<1>5. /\ [x EXCEPT !.blocked = b] \in Result
      /\ [x EXCEPT !.blocked = b].known = x.known
      /\ [x EXCEPT !.blocked = b].vote = x.vote
      /\ [x EXCEPT !.blocked = b].blocked = b
  BY DEF Result
<1> QED
  BY <1>1, <1>2, <1>3, <1>4, <1>5

\* A table of results that keeps what is banned turned away.
LEMMA Keeps ==
  ASSUME IInv, TypeInv',
         \A e \in Entries : banned'[e] \subseteq banned[e],
         \A e \in Entries : \A f \in banned'[e] :
            /\ result[e][f].known => result'[e][f].known
            /\ result'[e][f].vote = result[e][f].vote
            /\ result[e][f].blocked => result'[e][f].blocked
  PROVE  IInv'
BY DEF IInv, BannedTurned, Turned

\* New finds.
LEMMA InsertedKeeps ==
  ASSUME IInv, NEW e \in Entries, NEW found, result' = Inserted(e, found)
  PROVE  /\ result' \in [Entries -> [Finds -> Result]]
         /\ \A d \in Entries, f \in Finds :
              /\ result[d][f].known => result'[d][f].known
              /\ result'[d][f].vote = result[d][f].vote
              /\ result[d][f].blocked => result'[d][f].blocked
<1>1. \A f \in Finds : result[e][f] \in Result
  BY DEF IInv, TypeInv
<1> DEFINE new == [f \in Finds |-> IF f \in found THEN FoundAgain(result[e][f])
                                      ELSE result[e][f]]
<1>2. new \in [Finds -> Result]
  BY <1>1, ResultUpdates DEF FoundAgain
<1>3. \A f \in Finds : /\ result[e][f].known => new[f].known
                       /\ new[f].vote = result[e][f].vote
                       /\ result[e][f].blocked => new[f].blocked
  BY <1>1, ResultUpdates DEF FoundAgain
<1>4. result' = [result EXCEPT ![e] = new]
  BY DEF Inserted
<1> HIDE DEF new
<1>5. result' \in [Entries -> [Finds -> Result]]
  BY <1>2, <1>4 DEF IInv, TypeInv
<1>6. result'[e] = new /\ \A d \in Entries \ {e} : result'[d] = result[d]
  BY <1>4 DEF IInv, TypeInv
<1> QED
  BY <1>3, <1>5, <1>6

\* An edit of the query.
LEMMA ClearedKeeps ==
  ASSUME IInv, NEW e \in Entries, result' = Cleared(e)
  PROVE  /\ result' \in [Entries -> [Finds -> Result]]
         /\ \A d \in Entries : \A f \in banned[d] : result'[d][f] = result[d][f]
<1> DEFINE new == [f \in Finds |->
                     IF ~result[e][f].selected /\ result[e][f].vote = 0 /\ ~result[e][f].blocked
                       THEN NoResult ELSE result[e][f]]
<1>1. result' = [result EXCEPT ![e] = new]
  BY DEF Cleared
<1>2. new \in [Finds -> Result]
  BY NoResultIs DEF IInv, TypeInv
<1>3. \A f \in banned[e] : new[f] = result[e][f]
  BY DEF IInv, TypeInv, BannedTurned, Turned
<1> HIDE DEF new
<1> QED
  BY <1>1, <1>2, <1>3 DEF IInv, TypeInv

\* One result changed.
LEMMA OneResult ==
  ASSUME IInv, NEW e \in Entries, NEW f \in Finds, NEW x \in Result,
         result' = [result EXCEPT ![e][f] = x]
  PROVE  /\ result' \in [Entries -> [Finds -> Result]]
         /\ result'[e][f] = x
         /\ \A d \in Entries, s \in Finds :
              d # e \/ s # f => result'[d][s] = result[d][s]
BY DEF IInv, TypeInv

\* One result changed, in nothing that turns it away.
LEMMA OneKept ==
  ASSUME IInv, NEW e \in Entries, NEW f \in Finds, NEW x \in Result,
         result' = [result EXCEPT ![e][f] = x],
         result[e][f].known => x.known, x.vote = result[e][f].vote,
         result[e][f].blocked => x.blocked
  PROVE  /\ result' \in [Entries -> [Finds -> Result]]
         /\ \A d \in Entries, s \in Finds :
              /\ result[d][s].known => result'[d][s].known
              /\ result'[d][s].vote = result[d][s].vote
              /\ result[d][s].blocked => result'[d][s].blocked
<1>1. /\ result' \in [Entries -> [Finds -> Result]] /\ result'[e][f] = x
      /\ \A d \in Entries, s \in Finds :
           d # e \/ s # f => result'[d][s] = result[d][s]
  BY DEF IInv, TypeInv
<1>2. ASSUME NEW d \in Entries, NEW s \in Finds
      PROVE  /\ result[d][s].known => result'[d][s].known
             /\ result'[d][s].vote = result[d][s].vote
             /\ result[d][s].blocked => result'[d][s].blocked
  <2>1. CASE d = e /\ s = f
    BY <1>1, <2>1
  <2>2. CASE ~(d = e /\ s = f)
    BY <1>1, <2>2
  <2> QED
    BY <2>1, <2>2
<1> QED
  BY <1>1, <1>2

\* A choice.
LEMMA SelectedKeeps ==
  ASSUME IInv, NEW e \in Entries, NEW f \in Finds, result' = Selected(e, f)
  PROVE  /\ result' \in [Entries -> [Finds -> Result]]
         /\ \A d \in Entries, s \in Finds :
              /\ result[d][s].known => result'[d][s].known
              /\ result'[d][s].vote = result[d][s].vote
              /\ result[d][s].blocked => result'[d][s].blocked
<1>1. result[e][f] \in Result
  BY DEF IInv, TypeInv
<1>2. PICK b \in BOOLEAN : b = (result[e][f].selected \/ result[e][f].known)
  OBVIOUS
<1>3. PICK x \in Result : x = [result[e][f] EXCEPT !.selected = b]
  BY <1>1, ResultUpdates
<1>4. result' = [result EXCEPT ![e][f] = x]
  BY <1>2, <1>3 DEF Selected, IInv, TypeInv
<1>5. /\ result[e][f].known => x.known
      /\ x.vote = result[e][f].vote
      /\ result[e][f].blocked => x.blocked
  BY <1>1, <1>3, ResultUpdates
<1> QED
  BY <1>4, <1>5, OneKept

-----------------------------------------------------------------------------
(* The steps. *)

\* A step that leaves results and bans alone.
LEMMA Aside ==
  ASSUME IInv, TypeInv', UNCHANGED <<result, banned>>
  PROVE  IInv'
BY DEF IInv, BannedTurned, Turned

Waits == [phase : Phases, e : Entries, f : Finds]

\* What a worker waits for next.
LEMMA WorkerTypes ==
  ASSUME TypeInv, NEW w \in Workers
  PROVE  /\ worker[w].e \in Entries /\ worker[w].f \in Finds
         /\ Resting \in Waits
         /\ WorkerDone(w) => worker' \in [Workers -> Waits]
<1>1. worker[w].e \in Entries /\ worker[w].f \in Finds
  BY DEF TypeInv
<1> DEFINE c == CHOOSE e \in Entries : TRUE
<1> DEFINE d == CHOOSE f \in Finds : TRUE
<1>2. c \in Entries /\ d \in Finds
  BY <1>1
<1>3. Resting = [phase |-> "idle", e |-> c, f |-> d]
  BY DEF Resting
<1> HIDE DEF c, d
<1>4. Resting \in Waits
  BY <1>2, <1>3 DEF Waits, Phases
<1> QED
  BY <1>1, <1>4 DEF WorkerDone, TypeInv, Waits

\* A check that starts takes up entries.
LEMMA StartTypes ==
  ASSUME TypeInv, NEW force \in BOOLEAN, StartCheck(force)
  PROVE  todo' \subseteq Entries
BY DEF StartCheck, Watched

\* An entry and a release that a step gave up to be searched and added.
LEMMA WorkerGoes ==
  ASSUME TypeInv, NEW w \in Workers, NEW e \in Entries, NEW f \in Finds
  PROVE  /\ [worker EXCEPT ![w] = [Resting EXCEPT !.phase = "searching", !.e = e]]
              \in [Workers -> Waits]
         /\ [worker EXCEPT ![w].phase = Phase(f), ![w].f = f] \in [Workers -> Waits]
         /\ [worker EXCEPT ![w].phase = "adding"] \in [Workers -> Waits]
<1>1. Resting \in Waits /\ worker \in [Workers -> Waits]
  BY WorkerTypes DEF TypeInv, Waits
<1>2. [Resting EXCEPT !.phase = "searching", !.e = e] \in Waits
  BY <1>1 DEF Waits, Phases
<1>3. Phase(f) \in Phases /\ "adding" \in Phases
  BY DEF Phase, Phases
<1> HIDE DEF Phases
<1> QED
  BY <1>1, <1>2, <1>3 DEF Waits

\* A step that only adds to what is known and chosen.
LEMMA Gentle ==
  ASSUME IInv, UNCHANGED banned, worker' \in [Workers -> Waits],
         todo' \subseteq Entries, searches' \subseteq Entries,
         \A a \in adding' : a.e \in Entries /\ a.f \in Finds,
         \/ UNCHANGED result
         \/ \E e \in Entries : \E found : result' = Inserted(e, found)
         \/ \E e \in Entries : result' = Cleared(e)
         \/ \E e \in Entries, f \in Finds : result' = Selected(e, f)
  PROVE  IInv'
<1>1. CASE UNCHANGED result
  BY <1>1, Keeps DEF IInv, TypeInv, Waits
<1>2. ASSUME NEW e \in Entries, NEW found, result' = Inserted(e, found) PROVE IInv'
  <2>1. TypeInv'
    BY <1>2, InsertedKeeps DEF IInv, TypeInv, Waits
  <2> QED
    BY <1>2, <2>1, InsertedKeeps, Keeps DEF IInv, TypeInv
<1>3. ASSUME NEW e \in Entries, result' = Cleared(e) PROVE IInv'
  <2>1. TypeInv'
    BY <1>3, ClearedKeeps DEF IInv, TypeInv, Waits
  <2> QED
    BY <1>3, <2>1, ClearedKeeps, Keeps DEF IInv, TypeInv
<1>4. ASSUME NEW e \in Entries, NEW f \in Finds, result' = Selected(e, f) PROVE IInv'
  <2>1. TypeInv'
    BY <1>4, SelectedKeeps DEF IInv, TypeInv, Waits
  <2> QED
    BY <1>4, <2>1, SelectedKeeps, Keeps DEF IInv, TypeInv
<1> QED
  BY <1>1, <1>2, <1>3, <1>4

\* An addition by hand lifts the ban.
LEMMA AddedInv ==
  ASSUME IInv, NEW a \in adding, NEW ok \in BOOLEAN, Added(a, ok)
  PROVE  IInv'
<1>t. /\ a.e \in Entries /\ a.f \in Finds
      /\ \A b \in adding' : b.e \in Entries /\ b.f \in Finds
      /\ UNCHANGED <<worker, todo, searches>>
  BY DEF IInv, TypeInv, Added, check
<1>1. CASE ~(ok /\ a.row)
  BY <1>1, <1>t, Gentle DEF Added, IInv, TypeInv, Waits
<1>2. CASE ok /\ a.row
  <2>1. /\ result' = [result EXCEPT ![a.e][a.f] = Unblocked(@)]
        /\ banned' = [banned EXCEPT ![a.e] = @ \ {a.f}]
    BY <1>2 DEF Added
  <2>2. result[a.e][a.f] \in Result
    BY <1>t DEF IInv, TypeInv
  <2>3. PICK x \in Result : x = Unblocked(result[a.e][a.f])
    BY <2>2 DEF Unblocked, Result
  <2>4. result' = [result EXCEPT ![a.e][a.f] = x]
    BY <2>1, <2>3, <1>t DEF IInv, TypeInv
  <2>5. /\ result' \in [Entries -> [Finds -> Result]]
        /\ \A d \in Entries, s \in Finds :
             d # a.e \/ s # a.f => result'[d][s] = result[d][s]
    BY <2>4, <1>t, OneResult
  <2>6. /\ banned' \in [Entries -> SUBSET Finds] /\ a.f \notin banned'[a.e]
        /\ \A d \in Entries : banned'[d] \subseteq banned[d]
    BY <2>1, <1>t DEF IInv, TypeInv
  <2>7. TypeInv'
    BY <2>5, <2>6, <1>t DEF IInv, TypeInv
  <2>8. \A d \in Entries : \A s \in banned'[d] : result'[d][s] = result[d][s]
    BY <2>5, <2>6 DEF IInv, TypeInv
  <2> QED
    BY <2>6, <2>7, <2>8, Keeps
<1> QED
  BY <1>1, <1>2

\* A vote bans a release, or lets it go if nothing else turns it away.
LEMMA VoteInv ==
  ASSUME IInv, NEW e \in Entries, NEW f \in Finds, NEW v \in {-1, 0, 1}, Vote(e, f, v)
  PROVE  IInv'
<1>1. /\ result[e][f].known /\ result' = [result EXCEPT ![e][f].vote = v]
      /\ banned' = [banned EXCEPT ![e] = IF v = -1 THEN @ \cup {f}
                                         ELSE IF result[e][f].blocked THEN @ ELSE @ \ {f}]
      /\ UNCHANGED <<worker, todo, searches, adding>>
  BY DEF Vote, check
<1>2. result[e][f] \in Result
  BY DEF IInv, TypeInv
<1>3. PICK x \in Result : x = [result[e][f] EXCEPT !.vote = v]
  BY <1>2, ResultUpdates
<1>4. x.known /\ x.vote = v /\ x.blocked = result[e][f].blocked
  BY <1>1, <1>2, <1>3, ResultUpdates
<1>5. result' = [result EXCEPT ![e][f] = x]
  BY <1>1, <1>3 DEF IInv, TypeInv
<1>6. /\ result' \in [Entries -> [Finds -> Result]] /\ result'[e][f] = x
      /\ \A d \in Entries, s \in Finds :
           d # e \/ s # f => result'[d][s] = result[d][s]
  BY <1>5, OneResult
<1>7. /\ banned' \in [Entries -> SUBSET Finds]
      /\ \A d \in Entries : \A s \in Finds :
           s \in banned'[d] /\ (d # e \/ s # f) => s \in banned[d]
      /\ f \in banned'[e] => v = -1 \/ result[e][f].blocked
  BY <1>1 DEF IInv, TypeInv
<1>8. TypeInv'
  BY <1>1, <1>6, <1>7 DEF IInv, TypeInv
<1>9. ASSUME NEW d \in Entries, NEW s \in banned'[d] PROVE Turned(d, s)'
  <2>1. s \in Finds
    BY <1>7
  <2>2. CASE d = e /\ s = f
    BY <1>4, <1>6, <1>7, <2>2 DEF Turned
  <2>3. CASE ~(d = e /\ s = f)
    BY <1>6, <1>7, <2>1, <2>3 DEF IInv, BannedTurned, Turned
  <2> QED
    BY <2>2, <2>3
<1> QED
  BY <1>8, <1>9 DEF IInv, BannedTurned

\* The removal of a torrent blocks the results that hold its info hash.
LEMMA RemoveInv ==
  ASSUME IInv, NEW t \in Torrents, Remove(t)
  PROVE  IInv'
<1>1. /\ result' = [e \in Entries |-> [f \in Finds |->
            [result[e][f] EXCEPT !.blocked = @ \/ f \in WithHash(e, t)]]]
      /\ banned' = [e \in Entries |-> banned[e] \cup WithHash(e, t)]
      /\ UNCHANGED <<worker, todo, searches, adding>>
  BY DEF Remove, check
<1>2. ASSUME NEW e \in Entries, NEW f \in Finds
      PROVE  /\ result'[e][f] \in Result
             /\ result'[e][f].known = result[e][f].known
             /\ result'[e][f].vote = result[e][f].vote
             /\ result[e][f].blocked \/ f \in WithHash(e, t) => result'[e][f].blocked
  <2>1. result[e][f] \in Result
    BY DEF IInv, TypeInv
  <2>2. PICK b \in BOOLEAN : b = (result[e][f].blocked \/ f \in WithHash(e, t))
    OBVIOUS
  <2>3. PICK x \in Result : x = [result[e][f] EXCEPT !.blocked = b]
    BY <2>1, ResultUpdates
  <2>4. result'[e][f] = x
    BY <1>1, <2>2, <2>3
  <2>5. x.known = result[e][f].known /\ x.vote = result[e][f].vote /\ x.blocked = b
    BY <2>1, <2>3, ResultUpdates
  <2> QED
    BY <2>2, <2>4, <2>5
<1>3. \A e \in Entries : \A f \in WithHash(e, t) : f \in Finds /\ result[e][f].known
  BY WatchlistAssumption DEF WithHash
<1>4. /\ result' \in [Entries -> [Finds -> Result]]
      /\ banned' \in [Entries -> SUBSET Finds]
  <2>1. result' \in [Entries -> [Finds -> Result]]
    BY <1>1, <1>2
  <2>2. banned' \in [Entries -> SUBSET Finds]
    BY <1>1, <1>3 DEF IInv, TypeInv
  <2> QED
    BY <2>1, <2>2
<1>5. TypeInv'
  BY <1>1, <1>4 DEF IInv, TypeInv
<1>6. ASSUME NEW d \in Entries, NEW s \in banned'[d] PROVE Turned(d, s)'
  <2>1. s \in Finds
    BY <1>4
  <2>2. s \in banned[d] \/ s \in WithHash(d, t)
    BY <1>1
  <2>3. CASE s \in banned[d]
    BY <1>2, <2>1, <2>3 DEF IInv, BannedTurned, Turned
  <2>4. CASE s \in WithHash(d, t)
    BY <1>2, <1>3, <2>1, <2>4 DEF Turned
  <2> QED
    BY <2>2, <2>3, <2>4
<1> QED
  BY <1>5, <1>6 DEF IInv, BannedTurned

\* The additions by hand that are left after a change of the results.
LEMMA OrphanedTypes ==
  ASSUME TypeInv, adding' = Orphaned
  PROVE  \A a \in adding' : a.e \in Entries /\ a.f \in Finds
<1> SUFFICES ASSUME NEW a \in adding'
             PROVE  a.e \in Entries /\ a.f \in Finds
  OBVIOUS
<1>1. PICK b \in adding : a = [b EXCEPT !.row = @ /\ result'[b.e][b.f].known]
  BY DEF Orphaned
<1>2. a.e = b.e /\ a.f = b.f
  BY <1>1
<1> QED
  BY <1>2 DEF TypeInv

\* An entry that is deleted takes its bans with it.
LEMMA DeleteInv ==
  ASSUME IInv, NEW e \in Entries, Delete(e)
  PROVE  IInv'
<1>1. /\ result' = [result EXCEPT ![e] = [f \in Finds |-> NoResult]]
      /\ banned' = [banned EXCEPT ![e] = {}]
      /\ adding' = Orphaned
      /\ UNCHANGED <<worker, todo, searches>>
  BY DEF Delete, check
<1>2. TypeInv'
  BY <1>1, NoResultIs, OrphanedTypes DEF IInv, TypeInv
<1>3. \A d \in Entries : \A s \in banned'[d] : s \in banned[d] /\ result'[d][s] = result[d][s]
  BY <1>1 DEF IInv, TypeInv
<1> QED
  BY <1>2, <1>3, Keeps

\* Every step keeps the invariant.
LEMMA NextInv == IInv /\ [Next]_vars => IInv'
<1> SUFFICES ASSUME IInv, [Next]_vars PROVE IInv'
  OBVIOUS
<1>t. /\ TypeInv /\ worker \in [Workers -> Waits] /\ todo \subseteq Entries
      /\ searches \subseteq Entries
      /\ \A a \in adding : a.e \in Entries /\ a.f \in Finds
  BY DEF IInv, TypeInv, Waits
<1>1. CASE Tick
  BY <1>1, <1>t, StartTypes, Gentle DEF Tick
<1>3. CASE CheckNow
  BY <1>3, <1>t, StartTypes, Gentle DEF CheckNow
<1>4. ASSUME NEW w \in Workers, TakeEntry(w) PROVE IInv'
  <2>1. PICK e \in todo :
          worker' = [worker EXCEPT ![w] = [Resting EXCEPT !.phase = "searching", !.e = e]]
    BY <1>4 DEF TakeEntry
  <2>2. /\ UNCHANGED <<result, banned, searches, adding>> /\ todo' \subseteq Entries
    BY <1>4, <1>t DEF TakeEntry
  <2>3. e \in Entries /\ \E f \in Finds : TRUE
    BY <1>t, WatchlistAssumption
  <2>4. worker' \in [Workers -> Waits]
    BY <1>t, <2>1, <2>3, WorkerGoes
  <2> QED
    BY <1>t, <2>2, <2>4, Gentle
<1>5. ASSUME NEW w \in Workers, SearchFails(w) PROVE IInv'
  BY <1>5, <1>t, WorkerTypes, Gentle DEF SearchFails
<1>6. ASSUME NEW w \in Workers, NEW found, SearchFinds(w, found) PROVE IInv'
  <2>1. /\ UNCHANGED <<banned, todo, searches, adding>> /\ WorkerDone(w)
        /\ \/ result' = result
           \/ \E stored : result' = Inserted(worker[w].e, stored)
    BY <1>6 DEF SearchFinds
  <2> QED
    BY <1>t, <2>1, WorkerTypes, Gentle
<1>7. ASSUME NEW w \in Workers, NEW found, NEW f \in Finds, Grab(w, found, f) PROVE IInv'
  <2>1. /\ UNCHANGED <<banned, todo, searches, adding>>
        /\ \E stored : result' = Inserted(worker[w].e, stored)
        /\ worker' = [worker EXCEPT ![w].phase = Phase(f), ![w].f = f]
    BY <1>7 DEF Grab
  <2>2. worker[w].e \in Entries /\ worker' \in [Workers -> Waits]
    BY <1>t, <2>1, WorkerTypes, WorkerGoes
  <2> QED
    BY <1>t, <2>1, <2>2, Gentle
<1>8. ASSUME NEW w \in Workers, NEW ok, Grabbed(w, ok) PROVE IInv'
  <2>1. /\ UNCHANGED <<banned, todo, searches, adding>> /\ WorkerDone(w)
        /\ result' = result \/ result' = Selected(worker[w].e, worker[w].f)
    BY <1>8 DEF Grabbed
  <2> QED
    BY <1>t, <2>1, WorkerTypes, Gentle
<1>8a. ASSUME NEW w \in Workers, Resolved(w) PROVE IInv'
  <2>1. /\ UNCHANGED <<banned, todo, searches, adding, result>>
        /\ worker' = [worker EXCEPT ![w].phase = "adding"]
    BY <1>8a DEF Resolved
  <2>2. worker[w].e \in Entries /\ worker[w].f \in Finds
    BY <1>t, WorkerTypes
  <2>3. worker' \in [Workers -> Waits]
    BY <1>t, <2>1, <2>2, WorkerGoes
  <2> QED
    BY <1>t, <2>1, <2>3, Gentle
<1>9. ASSUME NEW e \in Entries, NEW ongoing, Create(e, ongoing) PROVE IInv'
  BY <1>9, <1>t, Gentle DEF Create, StartSearch, check
<1>10. ASSUME NEW e \in Entries, EditQuery(e) PROVE IInv'
  BY <1>10, <1>t, OrphanedTypes, Gentle DEF EditQuery, StartSearch, check
<1>11. ASSUME NEW e \in Entries, Delete(e) PROVE IInv'
  BY <1>11, DeleteInv
<1>12. ASSUME NEW e \in Entries, Search(e) \/ RetryDue(e) PROVE IInv'
  BY <1>12, <1>t, Gentle DEF Search, RetryDue, StartSearch, check
<1>13. ASSUME NEW e \in Entries, NEW enabled, NEW ongoing, Edit(e, enabled, ongoing)
       PROVE  IInv'
  BY <1>13, <1>t, OrphanedTypes, Gentle DEF Edit, StartSearch, check
<1>14. ASSUME NEW e \in Entries, NEW f \in Finds, Add(e, f)
       PROVE  IInv'
  <2>1. /\ adding' = adding \cup {[e |-> e, f |-> f, ongoing |-> entry[e].ongoing,
                                  phase |-> Phase(f), row |-> TRUE]}
        /\ UNCHANGED <<result, banned, worker, todo, searches>>
    BY <1>14 DEF Add, check
  <2>2. \A a \in adding' : a.e \in Entries /\ a.f \in Finds
    BY <1>t, <2>1
  <2> QED
    BY <1>t, <2>1, <2>2, Gentle
<1>15. ASSUME NEW e \in Entries, NEW f \in Finds, NEW v \in {-1, 0, 1}, Vote(e, f, v)
       PROVE  IInv'
  BY <1>15, VoteInv
<1>16. ASSUME NEW e \in searches, NEW found, NEW ok, SearchEnds(e, found, ok) PROVE IInv'
  <2>1. /\ UNCHANGED <<banned, todo, worker, adding>> /\ searches' \subseteq Entries
        /\ \/ result' = result
           \/ \E stored : result' = Inserted(e, stored)
    BY <1>16, <1>t DEF SearchEnds, check
  <2> QED
    BY <1>t, <2>1, Gentle
<1>17. ASSUME NEW a \in adding, NEW ok \in BOOLEAN, Added(a, ok) PROVE IInv'
  BY <1>17, AddedInv
<1>17a. ASSUME NEW a \in adding, AddResolved(a) PROVE IInv'
  <2>1. /\ adding' = (adding \ {a}) \cup {[a EXCEPT !.phase = "adding"]}
        /\ UNCHANGED <<result, banned, worker, todo, searches>>
    BY <1>17a DEF AddResolved, check
  <2>2. /\ [a EXCEPT !.phase = "adding"].e = a.e
        /\ [a EXCEPT !.phase = "adding"].f = a.f
    OBVIOUS
  <2>3. \A b \in adding' : b.e \in Entries /\ b.f \in Finds
    BY <1>t, <2>1, <2>2
  <2> QED
    BY <1>t, <2>1, <2>3, Gentle
<1>18. ASSUME NEW t \in Torrents, Remove(t) PROVE IInv'
  BY <1>18, RemoveInv
<1>19. CASE UNCHANGED vars
  BY <1>19, <1>t, Gentle DEF vars
<1> QED
  BY <1>1, <1>3, <1>4, <1>5, <1>6, <1>7, <1>8, <1>8a, <1>9, <1>10, <1>11, <1>12,
     <1>13, <1>14, <1>15, <1>16, <1>17, <1>17a, <1>18, <1>19 DEF Next, WorkerStep

\* It holds at the beginning.
LEMMA InitInv == Init => IInv
<1> SUFFICES ASSUME Init PROVE IInv
  OBVIOUS
<1> DEFINE c == CHOOSE e \in Entries : TRUE
<1> DEFINE d == CHOOSE f \in Finds : TRUE
<1>1. c \in Entries /\ d \in Finds
  BY WatchlistAssumption
<1>2. Resting = [phase |-> "idle", e |-> c, f |-> d]
  BY DEF Resting
<1> HIDE DEF c, d
<1>3. worker \in [Workers -> [phase : Phases, e : Entries, f : Finds]]
  BY <1>1, <1>2 DEF Init, Phases
<1>4. result \in [Entries -> [Finds -> Result]]
  BY NoResultIs DEF Init
<1>5. TypeInv
  BY <1>3, <1>4 DEF Init, TypeInv
<1>6. BannedTurned
  BY DEF Init, BannedTurned
<1> QED
  BY <1>5, <1>6 DEF IInv

\* A check adds nothing that is banned for its entry: the gate looks at the
\* table as it is when the search has ended.
LEMMA GateHolds ==
  ASSUME IInv, [Next]_vars
  PROVE  \A w \in Workers, f \in Finds :
           Grabs(w, f) => \A g \in banned[worker[w].e] : ~SameRelease(f, g)
<1> SUFFICES ASSUME NEW v \in Workers, NEW q \in Finds, Grabs(v, q)
             PROVE  \A g \in banned[worker[v].e] : ~SameRelease(q, g)
  OBVIOUS
<1>t. worker \in [Workers -> Waits] /\ worker[v].e \in Entries
  BY DEF IInv, TypeInv, Waits
<1>g. worker[v].phase = "searching" /\ worker'[v].phase \in {"resolving", "adding"}
      /\ worker'[v].f = q
  BY DEF Grabs, Phase
<1>r. Resting.phase = "idle"
  BY DEF Resting
<1>1. ASSUME UNCHANGED worker PROVE FALSE
  BY <1>1, <1>g
<1>2. ASSUME NEW w \in Workers, WorkerDone(w) PROVE FALSE
  BY <1>2, <1>g, <1>r, <1>t DEF WorkerDone
<1>3. ASSUME NEW w \in Workers, TakeEntry(w) PROVE FALSE
  BY <1>3, <1>g, <1>t DEF TakeEntry
<1>4. ASSUME NEW w \in Workers, NEW found, NEW f \in found, Grab(w, found, f)
      PROVE  \A g \in banned[worker[v].e] : ~SameRelease(q, g)
  <2>1. /\ worker' = [worker EXCEPT ![w].phase = Phase(f), ![w].f = f]
        /\ Addable(worker[w].e, f)
    BY <1>4 DEF Grab
  <2>2. w = v
    BY <1>g, <1>t, <2>1
  <2>3. f = q
    BY <1>g, <1>t, <2>1, <2>2 DEF Waits
  <2>4. \A g \in Blocked(worker[v].e) : ~SameRelease(q, g)
    BY <2>1, <2>2, <2>3 DEF Addable
  <2>5. banned[worker[v].e] \subseteq Blocked(worker[v].e)
    BY <1>t DEF Blocked, IInv, TypeInv, BannedTurned, Turned
  <2> QED
    BY <2>4, <2>5
<1>5. ASSUME NEW w \in Workers, Resolved(w) PROVE FALSE
  <2>1. worker[w].phase = "resolving" /\ worker' = [worker EXCEPT ![w].phase = "adding"]
    BY <1>5 DEF Resolved
  <2> QED
    BY <1>g, <1>t, <2>1
<1>6. ASSUME NEW w \in Workers, WorkerStep(w)
      PROVE  \A g \in banned[worker[v].e] : ~SameRelease(q, g)
  BY <1>2, <1>3, <1>4, <1>5, <1>6 DEF WorkerStep, SearchFails, SearchFinds, Grabbed
<1> QED
  BY <1>1, <1>6
     DEF Next, Tick, CheckNow, Create, EditQuery, Edit, Delete, Search, RetryDue,
         Add, AddResolved, Vote, SearchEnds, Added, Remove, check, vars

\* Downvoted and removal-blocked releases are never added by a check, whatever
\* finds, edits and votes came in between: insertWatchlistResult and
\* deleteUnselectedResults keep what blocks them.
THEOREM BannedStaysOut == Spec => NeverComesBack
<1>1. IInv /\ [Next]_vars
        => [\A w \in Workers, f \in Finds :
              Grabs(w, f) => \A g \in banned[worker[w].e] : ~SameRelease(f, g)]_vars
  BY GateHolds
<1> QED
  BY <1>1, InitInv, NextInv, PTL DEF Spec, NeverComesBack

-----------------------------------------------------------------------------
(* Checks that share. *)

\* When no check runs, nothing is left of one.
Joined == ~checking => todo = {} /\ \A w \in Workers : ~Busy(w)

\* A worker that ends its search keeps the others' entries apart.
LEMMA DoneKeepsApart ==
  ASSUME TypeInv, Joined, NoDoubleGrab, NEW w \in Workers, WorkerDone(w), UNCHANGED todo
  PROVE  Joined' /\ NoDoubleGrab'
<1>1. /\ worker' = [worker EXCEPT ![w] = Resting] /\ checking' = GoesOn(w)
      /\ Resting.phase = "idle"
  BY DEF WorkerDone, Resting
<1>2. ~Busy(w)' /\ \A v \in Workers \ {w} : worker'[v] = worker[v]
  BY <1>1 DEF Busy, TypeInv
<1>3. \A v \in Workers : Busy(v)' => v # w /\ Busy(v)
  BY <1>2 DEF Busy
<1>4. Joined'
  BY <1>1, <1>3 DEF Joined, GoesOn, Busy
<1>5. NoDoubleGrab'
  BY <1>2, <1>3 DEF NoDoubleGrab
<1> QED
  BY <1>4, <1>5

\* A worker that goes on with its entry does so too.
LEMMA OnKeepsApart ==
  ASSUME TypeInv, Joined, NoDoubleGrab, NEW w \in Workers, Busy(w), UNCHANGED <<todo, checking>>,
         worker' \in [Workers -> Waits], worker'[w].e = worker[w].e,
         \A v \in Workers \ {w} : worker'[v] = worker[v]
  PROVE  Joined' /\ NoDoubleGrab'
<1>1. \A v \in Workers : worker'[v].e = worker[v].e /\ (Busy(v)' => Busy(v))
  BY DEF Busy
<1> QED
  BY <1>1 DEF Joined, NoDoubleGrab, Busy

\* A check that starts does so with idle workers.
LEMMA StartKeepsApart ==
  ASSUME Joined, NEW force \in BOOLEAN, StartCheck(force), UNCHANGED worker
  PROVE  Joined' /\ NoDoubleGrab'
BY DEF StartCheck, Joined, NoDoubleGrab, Busy

LEMMA StepKeepsApart ==
  ASSUME TypeInv, Joined, NoDoubleGrab, [Next]_vars
  PROVE  Joined' /\ NoDoubleGrab'
<1>t. worker \in [Workers -> Waits]
  BY DEF TypeInv, Waits
<1>0. ASSUME UNCHANGED <<checking, todo, worker>> PROVE Joined' /\ NoDoubleGrab'
  BY <1>0 DEF Joined, NoDoubleGrab, Busy
<1>1. CASE Tick \/ CheckNow
  BY <1>1, StartKeepsApart DEF Tick, CheckNow
<1>2. ASSUME NEW w \in Workers, TakeEntry(w) PROVE Joined' /\ NoDoubleGrab'
  <2>1. PICK e \in todo :
          /\ todo' = todo \ {e} /\ checking /\ checking' = checking
          /\ worker' = [worker EXCEPT ![w] = [Resting EXCEPT !.phase = "searching", !.e = e]]
    BY <1>2 DEF TakeEntry
  <2>2. /\ worker'[w].e = e
        /\ \A v \in Workers \ {w} : worker'[v] = worker[v]
    BY <1>t, <2>1 DEF Resting
  <2>3. Joined'
    BY <2>1 DEF Joined
  <2>4. \A v \in Workers \ {w} : Busy(v)' => worker'[v].e \notin todo
    BY <2>2 DEF NoDoubleGrab, Busy
  <2>5. NoDoubleGrab'
    <3> SUFFICES ASSUME NEW v \in Workers, NEW u \in Workers, Busy(v)'
                 PROVE  /\ worker'[v].e \notin todo'
                        /\ Busy(u)' /\ worker'[v].e = worker'[u].e => v = u
      BY DEF NoDoubleGrab
    <3>1. CASE v = w
      BY <2>1, <2>2, <2>4, <3>1
    <3>2. CASE v # w /\ u = w
      BY <2>1, <2>2, <2>4, <3>2
    <3>3. CASE v # w /\ u # w
      BY <2>1, <2>2, <2>4, <3>3 DEF NoDoubleGrab, Busy
    <3> QED
      BY <3>1, <3>2, <3>3
  <2> QED
    BY <2>3, <2>5
<1>3. ASSUME NEW w \in Workers, SearchFails(w) PROVE Joined' /\ NoDoubleGrab'
  BY <1>3, DoneKeepsApart DEF SearchFails
<1>4. ASSUME NEW w \in Workers, NEW found, SearchFinds(w, found) PROVE Joined' /\ NoDoubleGrab'
  BY <1>4, DoneKeepsApart DEF SearchFinds
<1>5. ASSUME NEW w \in Workers, NEW ok, Grabbed(w, ok) PROVE Joined' /\ NoDoubleGrab'
  BY <1>5, DoneKeepsApart DEF Grabbed
<1>6. ASSUME NEW w \in Workers, NEW found \in SUBSET Finds, NEW f \in found, Grab(w, found, f)
      PROVE  Joined' /\ NoDoubleGrab'
  <2>1. /\ worker' = [worker EXCEPT ![w].phase = Phase(f), ![w].f = f]
        /\ UNCHANGED <<todo, checking>> /\ Busy(w)
    BY <1>6 DEF Grab, Busy
  <2>2. worker[w].e \in Entries /\ f \in Finds
    BY WorkerTypes
  <2>3. worker' \in [Workers -> Waits]
    BY <2>1, <2>2, WorkerGoes
  <2>4. worker'[w].e = worker[w].e /\ \A v \in Workers \ {w} : worker'[v] = worker[v]
    BY <1>t, <2>1
  <2> QED
    BY <2>1, <2>3, <2>4, OnKeepsApart
<1>7. ASSUME NEW w \in Workers, Resolved(w) PROVE Joined' /\ NoDoubleGrab'
  <2>1. /\ worker' = [worker EXCEPT ![w].phase = "adding"]
        /\ UNCHANGED <<todo, checking>> /\ Busy(w)
    BY <1>7 DEF Resolved, Busy
  <2>2. worker[w].e \in Entries /\ worker[w].f \in Finds
    BY WorkerTypes
  <2>3. worker' \in [Workers -> Waits]
    BY <2>1, <2>2, WorkerGoes
  <2>4. worker'[w].e = worker[w].e /\ \A v \in Workers \ {w} : worker'[v] = worker[v]
    BY <1>t, <2>1
  <2> QED
    BY <2>1, <2>3, <2>4, OnKeepsApart
<1>8. ASSUME NEW w \in Workers, WorkerStep(w) PROVE Joined' /\ NoDoubleGrab'
  BY <1>2, <1>3, <1>4, <1>5, <1>6, <1>7, <1>8 DEF WorkerStep
<1> QED
  BY <1>0, <1>1, <1>8
     DEF Next, Create, EditQuery, Edit, Delete, Search, RetryDue,
         Add, AddResolved, Vote, SearchEnds, Added, Remove, check, vars

\* However many checks are asked for while one is running, an entry is searched
\* for, and grabbed, by one worker at a time.
THEOREM OneWorkerEach == Spec => []NoDoubleGrab
<1>1. Init => Joined /\ NoDoubleGrab
  BY DEF Init, Joined, NoDoubleGrab, Busy, Resting
<1>2. IInv /\ Joined /\ NoDoubleGrab /\ [Next]_vars => Joined' /\ NoDoubleGrab'
  BY StepKeepsApart DEF IInv
<1> QED
  BY <1>1, <1>2, InitInv, NextInv, PTL DEF Spec
=============================================================================
