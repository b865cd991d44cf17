-------------------------- MODULE QueueDaemonProofs --------------------------
(***************************************************************************)
(* Proofs about the message queue for any number of messages, agents and   *)
(* retries: the inductive invariant QueueInv, what follows from it, and    *)
(* that the daemon implements the life of a message.                       *)
(***************************************************************************)
EXTENDS QueueDaemon, DrainLoop, TLAPS

USE RowAssumption, DaemonAssumption

(***************************************************************************)
(* What the row statements do.                                             *)
(***************************************************************************)

\* Every statement leaves a row of the table's type; only Fail and DeadLetter
\* raise the count of failures, by one.
LEMMA RowTypes ==
  ASSUME NEW r \in Row
  PROVE  /\ Insert(r) \in Row
         /\ Claim(r) \in Row
         /\ MarkProcessing(r) \in Row
         /\ Complete(r) \in Row
         /\ Interrupt(r) \in Row
         /\ Cancel(r) \in Row
         /\ r.retries <= MaxRetries => Fail(r) \in Row
         /\ r.retries <= MaxRetries => DeadLetter(r) \in Row
         /\ Recover(r) \in Row
         /\ RetryDead(r) \in Row
         /\ DeleteDead(r) \in Row
         /\ PruneSettled(r) \in Row
         /\ Drain(r) \in Row
<1> USE DEF Row, Status, Stored, Active, Settled, To
<1>1. Insert(r) \in Row /\ Claim(r) \in Row /\ MarkProcessing(r) \in Row
  <2>1. 0 \in 0 .. MaxRetries + 1 /\ 0 \in 0 .. MaxRecoveries - 1
    OBVIOUS
  <2>2. Insert(r) \in Row
    BY <2>1 DEF Insert, Blank
  <2>3. QED  BY <2>2 DEF Claim, MarkProcessing
<1>2. Complete(r) \in Row /\ Interrupt(r) \in Row /\ Cancel(r) \in Row
  BY DEF Complete, Interrupt, Cancel
<1>3. ASSUME r.retries <= MaxRetries
      PROVE  Fail(r) \in Row /\ DeadLetter(r) \in Row
  <2>1. r.retries + 1 \in 0 .. MaxRetries + 1
    BY <1>3, RowAssumption
  <2>2. \A s \in Status : [r EXCEPT !.status = s, !.retries = @ + 1] \in Row
    BY <2>1
  <2>3. FailOutcome(r) \in Status
    BY DEF FailOutcome
  <2>4. QED  BY <2>2, <2>3 DEF Fail, DeadLetter
<1>4. Recover(r) \in Row
  <2>1. CASE r.recovery >= MaxRecoveries - 1
    BY <2>1 DEF Recover
  <2>2. CASE ~ (r.recovery >= MaxRecoveries - 1)
    <3>1. r.recovery + 1 \in 0 .. MaxRecoveries - 1
      BY <2>2
    <3>2. [r EXCEPT !.status = "pending", !.recovery = @ + 1] \in Row
      BY <3>1
    <3>3. QED  BY <2>2, <3>2 DEF Recover
  <2>3. QED  BY <2>1, <2>2
<1>5. Gone \in Row /\ DeleteDead(r) \in Row /\ PruneSettled(r) \in Row
  <2>1. 0 \in 0 .. MaxRetries + 1 /\ 0 \in 0 .. MaxRecoveries - 1
    OBVIOUS
  <2>2. Gone \in Row
    BY <2>1 DEF Gone, Blank
  <2>3. QED  BY <2>2 DEF DeleteDead, PruneSettled
<1>6. RetryDead(r) \in Row /\ Drain(r) \in Row
  <2>1. 0 \in 0 .. MaxRetries + 1 /\ MaxRetries \in 0 .. MaxRetries + 1
    OBVIOUS
  <2>2. \A s \in Status, n \in 0 .. MaxRetries + 1 :
          [r EXCEPT !.status = s, !.retries = n] \in Row
    OBVIOUS
  <2>3. QED  BY <2>1, <2>2 DEF RetryDead, Drain
<1>7. QED  BY <1>1, <1>2, <1>3, <1>4, <1>5, <1>6

-----------------------------------------------------------------------------
(***************************************************************************)
(* The invariant of a table t in which the chains of "free" have just let  *)
(* their row go.  With t = row and nobody let go it is QueueInv again; in  *)
(* the middle of a turn it holds of the table the turn has computed.       *)
(***************************************************************************)
RowsInv(t) ==
  /\ t \in [Msgs -> Row]
  /\ \A m \in Msgs : t[m].status \in Active => t[m].retries < MaxRetries
  /\ \A m \in Msgs : t[m].status = "completed" => answered[m]

Holds(t, k) ==
  /\ cur[k] \in Msgs
  /\ mail[cur[k]].key = k
  /\ t[cur[k]].status \notin {"new", "queued", "completed"}
  /\ t[cur[k]].retries <= MaxRetries
  /\ pc[k] = "done" /\ t[cur[k]].status = "processing" => answered[cur[k]]

ChainsInv(t, free) ==
  \A k \in Keys \ free : IF pc[k] \in Busy THEN Holds(t, k) ELSE cur[k] = None

OwnedIn(t, free) ==
  \A m \in Msgs :
    /\ t[m].status # "queued"
    /\ t[m].status = "processing" =>
         /\ mail[m].key \notin free
         /\ pc[mail[m].key] \in Busy
         /\ cur[mail[m].key] = m

\* The parts of QueueInv, and the same of the next state.
LEMMA QueueInvParts ==
  QueueInv <=> /\ TypeOK
               /\ RowsInv(row)
               /\ ChainsInv(row, {})
               /\ Alive => OwnedIn(row, {})
               /\ RegisteredRuns
<1>1. TypeOK => (RowsInv(row) <=> PendingHasRetries /\ CompletedAnswered)
  BY DEF TypeOK, RowsInv, PendingHasRetries, CompletedAnswered
<1>2. ChainsInv(row, {}) <=> ChainHoldsRow /\ HeldRetries /\ DoneAnswered
  <2>1. ASSUME NEW k \in Keys
        PROVE  pc[k] = "done" => pc[k] \in Busy
    BY DEF Busy
  <2>2. QED  BY <2>1 DEF ChainsInv, Holds, ChainHoldsRow, HeldRetries, DoneAnswered
<1>3. (Alive => OwnedIn(row, {})) <=> InFlightOwned
  BY DEF OwnedIn, InFlightOwned
<1>4. QED  BY <1>1, <1>2, <1>3 DEF QueueInv

LEMMA QueueInvPartsNext ==
  QueueInv' <=> /\ TypeOK'
                /\ RowsInv(row)'
                /\ ChainsInv(row, {})'
                /\ Alive' => OwnedIn(row, {})'
                /\ RegisteredRuns'
BY QueueInvParts, PTL

(***************************************************************************)
(* Statements that only take a row back: they start nothing and complete   *)
(* nothing, so they may be applied to any rows, held or not.               *)
(***************************************************************************)
Mild(r, s) ==
  \/ s = r
  \/ /\ s.status \notin {"new", "queued", "processing", "completed"}
     /\ s.status \in Active => s.retries < MaxRetries
     /\ s.retries <= MaxRetries

LEMMA MildStatements ==
  ASSUME NEW r \in Row,
         r.status \in Active => r.retries < MaxRetries
  PROVE  /\ Mild(r, Cancel(r))
         /\ Mild(r, Interrupt(r))
         /\ Mild(r, DeadLetter(r))
         /\ r.status \in Active => Mild(r, Fail(r))
         /\ Mild(r, Recover(r))
         /\ Mild(r, RetryDead(r))
         /\ Mild(r, DeleteDead(r))
         /\ Mild(r, PruneSettled(r))
         /\ Mild(r, Drain(r))
<1> USE DEF Row, Status, Stored, Active, Settled, To
<1>1. Mild(r, Cancel(r)) /\ Mild(r, Interrupt(r))
  BY DEF Mild, Cancel, Interrupt
<1>2. Mild(r, DeadLetter(r))
  BY DEF Mild, DeadLetter
<1>3. r.status \in Active => Mild(r, Fail(r))
  BY DEF Mild, Fail, FailOutcome
<1>4. Mild(r, Recover(r))
  BY DEF Mild, Recover
<1>5. Mild(r, RetryDead(r)) /\ Mild(r, Drain(r))
  BY DEF Mild, RetryDead, Drain
<1>6. Mild(r, DeleteDead(r)) /\ Mild(r, PruneSettled(r))
  BY DEF Mild, DeleteDead, PruneSettled, Gone, Blank
<1>7. QED  BY <1>1, <1>2, <1>3, <1>4, <1>5, <1>6

LEMMA MildRows ==
  ASSUME RowsInv(row), ChainsInv(row, {}),
         row' \in [Msgs -> Row],
         \A m \in Msgs : Mild(row[m], row'[m]),
         UNCHANGED <<mail, pc, cur, answered>>
  PROVE  /\ RowsInv(row)'
         /\ ChainsInv(row, {})'
         /\ OwnedIn(row, {}) => OwnedIn(row, {})'
<1>1. RowsInv(row)'
  BY DEF RowsInv, Mild
<1>2. ChainsInv(row, {})'
  BY DEF ChainsInv, Holds, Mild
<1>3. OwnedIn(row, {}) => OwnedIn(row, {})'
  BY DEF OwnedIn, Mild
<1>4. QED  BY <1>1, <1>2, <1>3

-----------------------------------------------------------------------------
(***************************************************************************)
(* Turns: a row is taken for a chain that holds none.                      *)
(***************************************************************************)
LEMMA TakeWaiting ==
  ASSUME NEW r \in Row, r.status = "pending"
  PROVE  /\ Take(r) \in Row
         /\ Take(r).status = "processing"
         /\ Take(r).retries = r.retries
<1> USE DEF Row, Status, Stored, Active, Settled, To
<1>1. Take(r) = [r EXCEPT !.status = "processing"]
  BY DEF Take, Claim, MarkProcessing
<1>2. QED  BY <1>1

\* New chains for keys that hold no row.
LEMMA StartChainsInv ==
  ASSUME TypeOK,
         NEW free \in SUBSET Keys,
         NEW t,
         RowsInv(t), ChainsInv(t, free), OwnedIn(t, free),
         StartChains(t, free),
         mail' = mail
  PROVE  /\ RowsInv(row)' /\ ChainsInv(row, {})' /\ OwnedIn(row, {})'
         /\ pc' \in [Keys -> Phases]
         /\ cur' \in [Keys -> Msgs \cup {None}]
         /\ stale' \in [Keys -> BOOLEAN]
         /\ answered' \in [Msgs -> BOOLEAN]
         /\ \A k \in Keys \ free : pc'[k] = pc[k]
<1> DEFINE idle == {k \in free : Waiting(t, k) # {}}
<1>1. PICK next \in [idle -> Msgs] :
        /\ \A k \in idle : next[k] \in First(t, k)
        /\ row' = [m \in Msgs |-> IF m \in {next[k] : k \in idle}
                                  THEN Take(t[m]) ELSE t[m]]
        /\ answered' = [m \in Msgs |-> m \notin {next[k] : k \in idle}
                                       /\ answered[m]]
        /\ pc' = [k \in Keys |-> IF k \in idle THEN "hooks"
                                 ELSE IF k \in free THEN "none" ELSE pc[k]]
        /\ cur' = [k \in Keys |-> IF k \in idle THEN next[k]
                                  ELSE IF k \in free THEN None ELSE cur[k]]
        /\ stale' = [k \in Keys |-> k \notin free /\ stale[k]]
  BY DEF StartChains
<1> DEFINE taken == {next[k] : k \in idle}
<1>2. \A k \in idle : /\ k \in Keys
                      /\ next[k] \in Msgs
                      /\ t[next[k]].status = "pending"
                      /\ mail[next[k]].key = k
  BY <1>1 DEF First, Waiting
<1>3. t \in [Msgs -> Row]
  BY DEF RowsInv
<1>4. \A m \in taken : /\ m \in Msgs
                       /\ t[m].status = "pending"
                       /\ mail[m].key \in idle
                       /\ next[mail[m].key] = m
                       /\ row'[m] = Take(t[m])
                       /\ row'[m] \in Row
                       /\ row'[m].status = "processing"
                       /\ row'[m].retries = t[m].retries
                       /\ row'[m].retries < MaxRetries
  <2> SUFFICES ASSUME NEW m \in taken
               PROVE  /\ m \in Msgs
                      /\ t[m].status = "pending"
                      /\ mail[m].key \in idle
                      /\ next[mail[m].key] = m
                      /\ row'[m] = Take(t[m])
                      /\ row'[m] \in Row
                      /\ row'[m].status = "processing"
                      /\ row'[m].retries = t[m].retries
                      /\ row'[m].retries < MaxRetries
    OBVIOUS
  <2>1. PICK k \in idle : m = next[k]
    OBVIOUS
  <2>2. m \in Msgs /\ t[m].status = "pending" /\ mail[m].key = k
    BY <1>2, <2>1
  <2>3. t[m].retries < MaxRetries
    BY <2>2 DEF RowsInv, Active
  <2>4. row'[m] = Take(t[m])
    BY <1>1, <2>2
  <2>5. t[m] \in Row
    BY <1>3, <2>2
  <2>6. Take(t[m]) \in Row /\ Take(t[m]).status = "processing"
          /\ Take(t[m]).retries = t[m].retries
    BY <2>2, <2>5, TakeWaiting
  <2>7. QED  BY <2>1, <2>2, <2>3, <2>4, <2>6
<1>5. \A m \in Msgs \ taken : row'[m] = t[m] /\ answered'[m] = answered[m]
  BY <1>1 DEF TypeOK
<1>6. RowsInv(row)'
  <2>1. ASSUME NEW m \in Msgs
        PROVE  /\ row'[m] \in Row
               /\ row'[m].status \in Active => row'[m].retries < MaxRetries
               /\ row'[m].status = "completed" => answered'[m]
    <3>1. CASE m \in taken
      BY <1>4, <3>1
    <3>2. CASE m \notin taken
      <4>1. row'[m] = t[m] /\ answered'[m] = answered[m] /\ t[m] \in Row
        BY <1>3, <1>5, <3>2
      <4>2. QED  BY <4>1 DEF RowsInv
    <3>3. QED  BY <3>1, <3>2
  <2>2. row' \in [Msgs -> Row]
    BY <1>1, <2>1
  <2>3. QED  BY <2>1, <2>2 DEF RowsInv
<1>7. OwnedIn(row, {})'
  <2> SUFFICES ASSUME NEW m \in Msgs
               PROVE  /\ row'[m].status # "queued"
                      /\ row'[m].status = "processing" =>
                           /\ pc'[mail[m].key] \in Busy
                           /\ cur'[mail[m].key] = m
    BY DEF OwnedIn
  <2>1. CASE m \in taken
    <3>1. mail[m].key \in idle /\ mail[m].key \in Keys /\ next[mail[m].key] = m
      BY <1>2, <1>4, <2>1
    <3>2. pc'[mail[m].key] = "hooks" /\ cur'[mail[m].key] = m
      BY <1>1, <3>1
    <3>3. QED  BY <1>4, <2>1, <3>2 DEF Busy
  <2>2. CASE m \notin taken
    <3>1. row'[m] = t[m] /\ t[m].status # "queued"
      BY <1>5, <2>2 DEF OwnedIn
    <3>2. mail[m].key \in Keys
      BY DEF TypeOK, Mail
    <3>3. ASSUME t[m].status = "processing"
          PROVE  pc'[mail[m].key] \in Busy /\ cur'[mail[m].key] = m
      <4>1. /\ mail[m].key \notin free
            /\ pc[mail[m].key] \in Busy
            /\ cur[mail[m].key] = m
        BY <3>3 DEF OwnedIn
      <4>2. QED  BY <1>1, <3>2, <4>1
    <3>4. QED  BY <3>1, <3>3
  <2>3. QED  BY <2>1, <2>2
<1>8. ChainsInv(row, {})'
  <2> SUFFICES ASSUME NEW k \in Keys
               PROVE  IF pc'[k] \in Busy THEN Holds(row, k)' ELSE cur'[k] = None
    BY DEF ChainsInv
  <2>1. CASE k \in idle
    <3>1. next[k] \in taken /\ mail[next[k]].key = k
      BY <1>2, <2>1
    <3>2. pc'[k] = "hooks" /\ cur'[k] = next[k]
      BY <1>1, <2>1
    <3>3. /\ next[k] \in Msgs
          /\ row'[next[k]].status = "processing"
          /\ row'[next[k]].retries < MaxRetries
          /\ row'[next[k]] \in Row
      BY <1>4, <3>1
    <3>4. row'[next[k]].retries <= MaxRetries
      BY <3>3 DEF Row
    <3>5. Holds(row, k)'
      BY <3>1, <3>2, <3>3, <3>4 DEF Holds
    <3>6. QED  BY <3>2, <3>5 DEF Busy
  <2>2. CASE k \in free \ idle
    BY <1>1, <2>2 DEF Busy
  <2>3. CASE k \notin free
    <3>1. pc'[k] = pc[k] /\ cur'[k] = cur[k]
      BY <1>1, <2>3
    <3>2. CASE pc[k] \in Busy
      <4>1. Holds(t, k)
        BY <2>3, <3>2 DEF ChainsInv
      <4>2. cur[k] \notin taken
        BY <1>4, <2>3, <4>1 DEF Holds
      <4>3. row'[cur[k]] = t[cur[k]] /\ answered'[cur[k]] = answered[cur[k]]
        BY <1>5, <4>1, <4>2 DEF Holds
      <4>4. Holds(row, k)'
        BY <3>1, <4>1, <4>3 DEF Holds
      <4>5. QED  BY <3>1, <3>2, <4>4
    <3>3. CASE pc[k] \notin Busy
      BY <2>3, <3>1, <3>3 DEF ChainsInv
    <3>4. QED  BY <3>2, <3>3
  <2>4. QED  BY <2>1, <2>2, <2>3
<1>9. /\ pc' \in [Keys -> Phases]
      /\ cur' \in [Keys -> Msgs \cup {None}]
      /\ stale' \in [Keys -> BOOLEAN]
      /\ answered' \in [Msgs -> BOOLEAN]
      /\ \A k \in Keys \ free : pc'[k] = pc[k]
  BY <1>1, <1>2 DEF TypeOK, Phases
<1>10. QED  BY <1>6, <1>7, <1>8, <1>9

\* The turn of a chain that has just settled its row.
LEMMA NextTurnInv ==
  ASSUME TypeOK,
         NEW k \in Keys, pc[k] \in Busy,
         NEW t,
         RowsInv(t), ChainsInv(t, {k}), OwnedIn(t, {k}),
         NextTurn(k, t),
         mail' = mail
  PROVE  /\ RowsInv(row)' /\ ChainsInv(row, {})' /\ OwnedIn(row, {})'
         /\ pc' \in [Keys -> Phases]
         /\ cur' \in [Keys -> Msgs \cup {None}]
         /\ answered' \in [Msgs -> BOOLEAN]
         /\ \A j \in Keys \ {k} : pc'[j] = pc[j]
<1> t \in [Msgs -> Row]
  BY DEF RowsInv
<1>1. CASE /\ row' = [m \in Msgs |->
                        IF m \in Waiting(t, k) THEN Drain(t[m]) ELSE t[m]]
           /\ pc' = [pc EXCEPT ![k] = "winding"]
           /\ cur' = [cur EXCEPT ![k] = None]
           /\ answered' = answered
  <2>1. \A m \in Msgs : row'[m] \in Row /\ Mild(t[m], row'[m])
    <3> SUFFICES ASSUME NEW m \in Msgs
                 PROVE  row'[m] \in Row /\ Mild(t[m], row'[m])
      OBVIOUS
    <3>1. row'[m] \in {t[m], Drain(t[m])}
      BY <1>1
    <3>2. Drain(t[m]) \in Row
      BY RowTypes
    <3>3. Mild(t[m], Drain(t[m]))
      BY MildStatements DEF RowsInv
    <3>4. QED  BY <3>1, <3>2, <3>3 DEF Mild
  <2>2. RowsInv(row)'
    BY <1>1, <2>1 DEF RowsInv, Mild
  <2>3. ChainsInv(row, {})'
    <3> SUFFICES ASSUME NEW j \in Keys
                 PROVE  IF pc'[j] \in Busy THEN Holds(row, j)' ELSE cur'[j] = None
      BY DEF ChainsInv
    <3>1. CASE j = k
      BY <1>1, <3>1 DEF TypeOK, Busy
    <3>2. CASE j # k
      <4>1. pc'[j] = pc[j] /\ cur'[j] = cur[j]
        BY <1>1, <3>2 DEF TypeOK
      <4>2. IF pc[j] \in Busy THEN Holds(t, j) ELSE cur[j] = None
        BY <3>2 DEF ChainsInv
      <4>3. Holds(t, j) /\ pc'[j] = pc[j] /\ cur'[j] = cur[j] => Holds(row, j)'
        BY <1>1, <2>1 DEF Holds, Mild
      <4>4. QED  BY <4>1, <4>2, <4>3
    <3>3. QED  BY <3>1, <3>2
  <2>4. OwnedIn(row, {})'
    <3> SUFFICES ASSUME NEW m \in Msgs
                 PROVE  /\ row'[m].status # "queued"
                        /\ row'[m].status = "processing" =>
                             /\ pc'[mail[m].key] \in Busy
                             /\ cur'[mail[m].key] = m
      BY DEF OwnedIn
    <3>1. mail[m].key \in Keys
      BY DEF TypeOK, Mail
    <3>2. row'[m].status \in {"queued", "processing"} => row'[m] = t[m]
      BY <2>1 DEF Mild
    <3>3. mail[m].key # k => /\ pc'[mail[m].key] = pc[mail[m].key]
                             /\ cur'[mail[m].key] = cur[mail[m].key]
      BY <1>1, <3>1 DEF TypeOK
    <3>4. QED  BY <3>2, <3>3 DEF OwnedIn
  <2>5. QED  BY <1>1, <2>2, <2>3, <2>4 DEF TypeOK, Phases
<1>2. CASE \E m \in First(t, k) :
             /\ row' = [t EXCEPT ![m] = Take(@)]
             /\ cur' = [cur EXCEPT ![k] = m]
             /\ answered' = [answered EXCEPT ![m] = FALSE]
             /\ pc' = [pc EXCEPT ![k] = "hooks"]
  <2>1. PICK n \in First(t, k) :
               /\ row' = [t EXCEPT ![n] = Take(@)]
               /\ cur' = [cur EXCEPT ![k] = n]
               /\ answered' = [answered EXCEPT ![n] = FALSE]
               /\ pc' = [pc EXCEPT ![k] = "hooks"]
    BY <1>2
  <2>2. n \in Msgs /\ t[n].status = "pending" /\ mail[n].key = k
    BY DEF First, Waiting
  <2>3. /\ row'[n] \in Row
        /\ row'[n].status = "processing"
        /\ row'[n].retries < MaxRetries
        /\ row'[n].retries <= MaxRetries
    <3>1. row'[n] = Take(t[n])
      BY <2>1, <2>2
    <3>2. t[n].retries < MaxRetries
      BY <2>2 DEF RowsInv, Active
    <3>3. Take(t[n]) \in Row /\ Take(t[n]).status = "processing"
            /\ Take(t[n]).retries = t[n].retries
      BY <2>2, TakeWaiting
    <3>4. t[n].retries \in Nat
      BY <2>2 DEF Row
    <3>5. QED  BY <3>1, <3>2, <3>3, <3>4
  <2>4. \A m \in Msgs \ {n} : row'[m] = t[m] /\ answered'[m] = answered[m]
    BY <2>1 DEF TypeOK
  <2>5. pc'[k] = "hooks" /\ cur'[k] = n
    BY <2>1 DEF TypeOK
  <2>6. \A j \in Keys \ {k} : pc'[j] = pc[j] /\ cur'[j] = cur[j]
    BY <2>1 DEF TypeOK
  <2>7. RowsInv(row)'
    <3>1. row' \in [Msgs -> Row]
      BY <2>1, <2>2, <2>3
    <3>2. QED  BY <2>2, <2>3, <2>4, <3>1 DEF RowsInv
  <2>8. ChainsInv(row, {})'
    <3> SUFFICES ASSUME NEW j \in Keys
                 PROVE  IF pc'[j] \in Busy THEN Holds(row, j)' ELSE cur'[j] = None
      BY DEF ChainsInv
    <3>1. CASE j = k
      <4>1. Holds(row, k)'
        BY <2>2, <2>3, <2>5 DEF Holds
      <4>2. QED  BY <2>5, <3>1, <4>1 DEF Busy
    <3>2. CASE j # k
      <4>1. pc'[j] = pc[j] /\ cur'[j] = cur[j]
        BY <2>6, <3>2
      <4>2. IF pc[j] \in Busy THEN Holds(t, j) ELSE cur[j] = None
        BY <3>2 DEF ChainsInv
      <4>3. ASSUME Holds(t, j)
            PROVE  Holds(row, j)'
        <5>1. cur[j] \in Msgs \ {n}
          BY <2>2, <3>2, <4>3 DEF Holds
        <5>2. row'[cur[j]] = t[cur[j]] /\ answered'[cur[j]] = answered[cur[j]]
          BY <2>4, <5>1
        <5>3. QED  BY <4>1, <4>3, <5>2 DEF Holds
      <4>4. QED  BY <4>1, <4>2, <4>3
    <3>3. QED  BY <3>1, <3>2
  <2>9. OwnedIn(row, {})'
    <3> SUFFICES ASSUME NEW m \in Msgs
                 PROVE  /\ row'[m].status # "queued"
                        /\ row'[m].status = "processing" =>
                             /\ pc'[mail[m].key] \in Busy
                             /\ cur'[mail[m].key] = m
      BY DEF OwnedIn
    <3>1. CASE m = n
      BY <2>2, <2>3, <2>5, <3>1 DEF Busy
    <3>2. CASE m # n
      <4>1. mail[m].key \in Keys
        BY DEF TypeOK, Mail
      <4>2. row'[m] = t[m]
        BY <2>4, <3>2
      <4>3. mail[m].key # k => /\ pc'[mail[m].key] = pc[mail[m].key]
                               /\ cur'[mail[m].key] = cur[mail[m].key]
        BY <2>6, <4>1
      <4>4. QED  BY <4>2, <4>3 DEF OwnedIn
    <3>3. QED  BY <3>1, <3>2
  <2>10. QED  BY <2>1, <2>2, <2>6, <2>7, <2>8, <2>9 DEF TypeOK, Phases
<1>3. ASSUME Waiting(t, k) = {}, row' = t
      PROVE  row' = [m \in Msgs |->
                        IF m \in Waiting(t, k) THEN Drain(t[m]) ELSE t[m]]
  BY <1>3
<1>4. QED  BY <1>1, <1>2, <1>3 DEF NextTurn

\* A row whose chain has settled it with Complete or Fail: the table is ready
\* for the next turn.
LEMMA LetGo ==
  ASSUME QueueInv, Alive,
         NEW k \in Keys, pc[k] \in Busy,
         NEW s \in Row,
         s.status \notin {"queued", "processing"},
         s.status \in Active => s.retries < MaxRetries,
         s.status = "completed" => answered[cur[k]]
  PROVE  LET t == [row EXCEPT ![cur[k]] = s]
         IN  RowsInv(t) /\ ChainsInv(t, {k}) /\ OwnedIn(t, {k})
<1> DEFINE t == [row EXCEPT ![cur[k]] = s]
<1>1. TypeOK /\ RowsInv(row) /\ ChainsInv(row, {}) /\ OwnedIn(row, {})
  BY QueueInvParts
<1>2. cur[k] \in Msgs /\ mail[cur[k]].key = k
  BY <1>1 DEF ChainsInv, Holds
<1>3. t[cur[k]] = s /\ \A m \in Msgs \ {cur[k]} : t[m] = row[m]
  BY <1>1, <1>2 DEF TypeOK
<1>4. t \in [Msgs -> Row]
  BY <1>1 DEF TypeOK
<1> HIDE DEF t
<1>5. RowsInv(t)
  BY <1>1, <1>3, <1>4 DEF RowsInv
<1>6. ChainsInv(t, {k})
  <2> SUFFICES ASSUME NEW j \in Keys \ {k}
               PROVE  IF pc[j] \in Busy THEN Holds(t, j) ELSE cur[j] = None
    BY DEF ChainsInv
  <2>1. IF pc[j] \in Busy THEN Holds(row, j) ELSE cur[j] = None
    BY <1>1 DEF ChainsInv
  <2>2. ASSUME Holds(row, j)
        PROVE  Holds(t, j)
    <3>1. cur[j] \in Msgs \ {cur[k]}
      BY <1>2, <2>2 DEF Holds
    <3>2. QED  BY <1>3, <2>2, <3>1 DEF Holds
  <2>3. QED  BY <2>1, <2>2
<1>7. OwnedIn(t, {k})
  <2> SUFFICES ASSUME NEW m \in Msgs
               PROVE  /\ t[m].status # "queued"
                      /\ t[m].status = "processing" =>
                           /\ mail[m].key # k
                           /\ pc[mail[m].key] \in Busy
                           /\ cur[mail[m].key] = m
    BY DEF OwnedIn
  <2>1. CASE m = cur[k]
    BY <1>3, <2>1
  <2>2. CASE m # cur[k]
    BY <1>1, <1>3, <2>2 DEF OwnedIn
  <2>3. QED  BY <2>1, <2>2
<1>8. QED  BY <1>5, <1>6, <1>7 DEF t

\* A chain moves from one await to the next and keeps its row.
LEMMA PhaseStep ==
  ASSUME QueueInv,
         NEW k \in Keys, pc[k] \in Busy,
         NEW p \in Busy,
         pc' = [pc EXCEPT ![k] = p],
         cur' = cur, mail' = mail,
         \/ row' = row
         \/ row' = [row EXCEPT ![cur[k]] = DeadLetter(@)],
         \/ answered' = answered
         \/ answered' = [answered EXCEPT ![cur[k]] = TRUE],
         p = "done" => \/ row[cur[k]].status # "processing"
                       \/ answered'[cur[k]]
  PROVE  /\ RowsInv(row)' /\ ChainsInv(row, {})'
         /\ OwnedIn(row, {}) => OwnedIn(row, {})'
         /\ pc' \in [Keys -> Phases]
         /\ answered' \in [Msgs -> BOOLEAN]
         /\ \A j \in Keys \ {k} : pc'[j] = pc[j]
<1>1. TypeOK /\ RowsInv(row) /\ ChainsInv(row, {})
  BY QueueInvParts
<1>2. /\ cur[k] \in Msgs
      /\ mail[cur[k]].key = k
      /\ row[cur[k]].retries <= MaxRetries
  BY <1>1 DEF ChainsInv, Holds
<1>3. \A m \in Msgs : row'[m] \in Row /\ Mild(row[m], row'[m])
  <2> SUFFICES ASSUME NEW m \in Msgs
               PROVE  row'[m] \in Row /\ Mild(row[m], row'[m])
    OBVIOUS
  <2>1. row[m] \in Row
    BY <1>1 DEF TypeOK
  <2>2. \/ row'[m] = row[m]
        \/ m = cur[k] /\ row'[m] = DeadLetter(row[m])
    BY <1>1 DEF TypeOK
  <2>3. m = cur[k] => DeadLetter(row[m]) \in Row
    BY <1>2, <2>1, RowTypes
  <2>4. Mild(row[m], DeadLetter(row[m]))
    BY <1>1, <2>1, MildStatements DEF RowsInv
  <2>5. QED  BY <2>1, <2>2, <2>3, <2>4 DEF Mild
<1>4. /\ answered' \in [Msgs -> BOOLEAN]
      /\ \A m \in Msgs : answered[m] => answered'[m]
  <2>1. answered \in [Msgs -> BOOLEAN]
    BY <1>1 DEF TypeOK
  <2>2. CASE answered' = answered
    BY <2>1, <2>2
  <2>3. CASE answered' = [answered EXCEPT ![cur[k]] = TRUE]
    <3>1. \A m \in Msgs : answered'[m] \in {answered[m], TRUE}
      BY <2>1, <2>3
    <3>2. \A m \in Msgs : answered'[m] \in BOOLEAN /\ (answered[m] => answered'[m])
      BY <2>1, <3>1
    <3>3. QED  BY <2>1, <2>3, <3>2
  <2>4. QED  BY <2>2, <2>3
<1>5. row' \in [Msgs -> Row]
  BY <1>1, <1>3 DEF TypeOK
<1>6. /\ pc'[k] = p
      /\ \A j \in Keys \ {k} : pc'[j] = pc[j]
      /\ pc' \in [Keys -> Phases]
  BY <1>1 DEF TypeOK, Busy, Phases
<1>7. RowsInv(row)'
  BY <1>1, <1>3, <1>4, <1>5 DEF RowsInv, Mild
<1>8. ChainsInv(row, {})'
  <2> SUFFICES ASSUME NEW j \in Keys
               PROVE  IF pc'[j] \in Busy THEN Holds(row, j)' ELSE cur'[j] = None
    BY DEF ChainsInv
  <2>1. IF pc[j] \in Busy THEN Holds(row, j) ELSE cur[j] = None
    BY <1>1 DEF ChainsInv
  <2>2. CASE j = k
    <3>1. Holds(row, k)
      BY <1>1 DEF ChainsInv
    <3>2. Mild(row[cur[k]], row'[cur[k]])
      BY <1>2, <1>3
    <3>3. p = "done" /\ row'[cur[k]].status = "processing" => answered'[cur[k]]
      BY <3>2 DEF Mild
    <3>4. Holds(row, k)'
      BY <1>6, <3>1, <3>2, <3>3 DEF Holds, Mild
    <3>5. QED  BY <1>6, <2>2, <3>4
  <2>3. CASE j # k
    <3>1. pc'[j] = pc[j]
      BY <1>6, <2>3
    <3>2. ASSUME Holds(row, j)
          PROVE  Holds(row, j)'
      <4>1. Mild(row[cur[j]], row'[cur[j]])
        BY <1>3, <3>2 DEF Holds
      <4>2. answered[cur[j]] => answered'[cur[j]]
        BY <1>4, <3>2 DEF Holds
      <4>3. QED  BY <3>1, <3>2, <4>1, <4>2 DEF Holds, Mild
    <3>3. QED  BY <2>1, <3>1, <3>2
  <2>4. QED  BY <2>2, <2>3
<1>9. OwnedIn(row, {}) => OwnedIn(row, {})'
  <2> SUFFICES ASSUME OwnedIn(row, {}), NEW m \in Msgs
               PROVE  /\ row'[m].status # "queued"
                      /\ row'[m].status = "processing" =>
                           /\ pc'[mail[m].key] \in Busy
                           /\ cur'[mail[m].key] = m
    BY DEF OwnedIn
  <2>1. mail[m].key \in Keys
    BY <1>1 DEF TypeOK, Mail
  <2>2. pc[mail[m].key] \in Busy => pc'[mail[m].key] \in Busy
    BY <1>6, <2>1
  <2>3. row'[m].status \in {"queued", "processing"} => row'[m] = row[m]
    BY <1>3 DEF Mild
  <2>4. QED  BY <2>2, <2>3 DEF OwnedIn
<1>10. QED  BY <1>4, <1>6, <1>7, <1>8, <1>9

LEMMA KillProcessesInv ==
  ASSUME TypeOK, RegisteredRuns,
         NEW names,
         KillProcesses(names),
         pc' = pc
  PROVE  /\ RegisteredRuns'
         /\ cli' \in [Keys -> {"none", "live", "killed"}]
         /\ active' \in [Agents -> Keys \cup {None}]
<1>1. \A k \in Keys : cli'[k] \in {cli[k], "killed"}
                      /\ (cli'[k] # cli[k] => \E a \in Agents : active[a] = k)
  BY DEF KillProcesses
<1>2. \A a \in Agents : active'[a] \in {active[a], None}
  BY DEF KillProcesses
<1>3. cli' \in [Keys -> {"none", "live", "killed"}]
  BY <1>1 DEF KillProcesses, TypeOK
<1>4. active' \in [Agents -> Keys \cup {None}]
  BY <1>2 DEF KillProcesses, TypeOK
<1>5. ASSUME NEW k \in Keys, cli'[k] # "none"
      PROVE  pc'[k] = "run"
  <2>1. cli[k] # "none"
    BY <1>1, <1>5 DEF RegisteredRuns
  <2>2. QED  BY <2>1 DEF RegisteredRuns
<1>6. ASSUME NEW a \in Agents, active'[a] # None
      PROVE  cli'[active'[a]] # "none"
  <2>1. active'[a] = active[a] /\ active[a] \in Keys
    BY <1>2, <1>6 DEF TypeOK
  <2>2. cli[active[a]] # "none"
    BY <1>6, <2>1 DEF RegisteredRuns
  <2>3. QED  BY <1>1, <2>1, <2>2
<1>7. QED  BY <1>3, <1>4, <1>5, <1>6 DEF RegisteredRuns

-----------------------------------------------------------------------------
(***************************************************************************)
(* Every step preserves the invariant.                                     *)
(***************************************************************************)

\* Steps whose chains are all taken by StartChains.
LEMMA StartChainsStep ==
  ASSUME QueueInv, Alive,
         NEW free \in SUBSET Keys,
         \A k \in free : pc[k] \notin Busy /\ cli[k] = "none",
         NEW t,
         t \in [Msgs -> Row],
         \A m \in Msgs : \/ Mild(row[m], t[m])
                         \/ /\ row[m].status = "new"
                            /\ t[m] = To(Blank, "pending"),
         StartChains(t, free),
         UNCHANGED <<mail, procVars, closed, mode, scenario>>
  PROVE  QueueInv'
<1>1. TypeOK /\ RowsInv(row) /\ ChainsInv(row, {}) /\ OwnedIn(row, {})
        /\ RegisteredRuns
  BY QueueInvParts
<1>2. RowsInv(t)
  <2>1. ASSUME NEW m \in Msgs
        PROVE  /\ t[m].status \in Active => t[m].retries < MaxRetries
               /\ t[m].status = "completed" => answered[m]
    <3>1. CASE Mild(row[m], t[m])
      BY <1>1, <3>1 DEF Mild, RowsInv
    <3>2. CASE t[m] = To(Blank, "pending")
      BY <3>2 DEF To, Blank, Active
    <3>3. QED  BY <3>1, <3>2
  <2>2. QED  BY <2>1 DEF RowsInv
<1>3. ChainsInv(t, free)
  <2> SUFFICES ASSUME NEW k \in Keys \ free
               PROVE  IF pc[k] \in Busy THEN Holds(t, k) ELSE cur[k] = None
    BY DEF ChainsInv
  <2>1. IF pc[k] \in Busy THEN Holds(row, k) ELSE cur[k] = None
    BY <1>1 DEF ChainsInv
  <2>2. ASSUME pc[k] \in Busy, Holds(row, k)
        PROVE  Holds(t, k)
    <3>1. Mild(row[cur[k]], t[cur[k]])
      BY <2>2 DEF Holds
    <3>2. QED  BY <2>2, <3>1 DEF Holds, Mild
  <2>3. QED  BY <2>1, <2>2
<1>4. OwnedIn(t, free)
  <2> SUFFICES ASSUME NEW m \in Msgs
               PROVE  /\ t[m].status # "queued"
                      /\ t[m].status = "processing" =>
                           /\ mail[m].key \notin free
                           /\ pc[mail[m].key] \in Busy
                           /\ cur[mail[m].key] = m
    BY DEF OwnedIn
  <2>1. CASE Mild(row[m], t[m])
    <3>1. t[m].status \in {"queued", "processing"} => t[m] = row[m]
      BY <2>1 DEF Mild
    <3>2. QED  BY <1>1, <3>1 DEF OwnedIn
  <2>2. CASE t[m] = To(Blank, "pending")
    BY <2>2 DEF To, Blank
  <2>3. QED  BY <2>1, <2>2
<1>5. /\ RowsInv(row)' /\ ChainsInv(row, {})' /\ OwnedIn(row, {})'
      /\ pc' \in [Keys -> Phases]
      /\ cur' \in [Keys -> Msgs \cup {None}]
      /\ stale' \in [Keys -> BOOLEAN]
      /\ answered' \in [Msgs -> BOOLEAN]
      /\ \A k \in Keys \ free : pc'[k] = pc[k]
  BY <1>1, <1>2, <1>3, <1>4, StartChainsInv
<1>6. TypeOK'
  BY <1>1, <1>5 DEF TypeOK, RowsInv, procVars
<1>7. RegisteredRuns'
  BY <1>1, <1>5 DEF RegisteredRuns, procVars
<1>8. QED  BY <1>5, <1>6, <1>7, QueueInvPartsNext

\* Steps that take rows back and may kill processes.
LEMMA MildStep ==
  ASSUME QueueInv, Alive,
         row' \in [Msgs -> Row],
         \A m \in Msgs : Mild(row[m], row'[m]),
         UNCHANGED <<mail, pc, cur, answered, mode, scenario>>,
         stale' \in [Keys -> BOOLEAN],
         closed' \in [Msgs -> BOOLEAN],
         orphans' \subseteq Agents,
         \/ \E names : KillProcesses(names)
         \/ UNCHANGED <<cli, active>>
  PROVE  QueueInv'
<1>1. TypeOK /\ RowsInv(row) /\ ChainsInv(row, {}) /\ OwnedIn(row, {})
        /\ RegisteredRuns
  BY QueueInvParts
<1>2. RowsInv(row)' /\ ChainsInv(row, {})' /\ OwnedIn(row, {})'
  BY <1>1, MildRows
<1>3. /\ RegisteredRuns'
      /\ cli' \in [Keys -> {"none", "live", "killed"}]
      /\ active' \in [Agents -> Keys \cup {None}]
  <2>1. CASE \E names : KillProcesses(names)
    BY <1>1, <2>1, KillProcessesInv
  <2>2. CASE UNCHANGED <<cli, active>>
    BY <1>1, <2>2 DEF RegisteredRuns, TypeOK
  <2>3. QED  BY <2>1, <2>2
<1>4. TypeOK'
  BY <1>1, <1>3 DEF TypeOK
<1>5. QED  BY <1>2, <1>3, <1>4, QueueInvPartsNext

LEMMA AnnounceType ==
  ASSUME TypeOK, NEW m, Announce(m)
  PROVE  closed' \in [Msgs -> BOOLEAN]
BY DEF TypeOK, Announce

LEMMA ChainPreserves ==
  ASSUME QueueInv, NEW k \in Keys, ChainStep(k)
  PROVE  QueueInv'
<1>1. TypeOK /\ RowsInv(row) /\ ChainsInv(row, {}) /\ RegisteredRuns
  BY QueueInvParts
<1>2. Alive => OwnedIn(row, {})
  BY QueueInvParts
<1>3. pc[k] \in Busy => /\ cur[k] \in Msgs
                        /\ mail[cur[k]].key = k
                        /\ mail[cur[k]].agent \in Agents
                        /\ row[cur[k]] \in Row
                        /\ row[cur[k]].retries <= MaxRetries
  BY <1>1 DEF ChainsInv, Holds, TypeOK, Mail
<1>4. CASE SpawnCli(k)
  <2>1. Alive /\ pc[k] = "hooks" /\ pc' = [pc EXCEPT ![k] = "run"]
    BY <1>4 DEF SpawnCli
  <2>2. /\ RowsInv(row)' /\ ChainsInv(row, {})' /\ OwnedIn(row, {})'
        /\ pc' \in [Keys -> Phases]
        /\ \A j \in Keys \ {k} : pc'[j] = pc[j]
    BY <1>2, <1>4, <2>1, PhaseStep DEF SpawnCli, rowVars, outVars, Busy
  <2>3. mail[cur[k]].agent \in Agents
    BY <1>3, <2>1 DEF Busy
  <2>4. TypeOK'
    BY <1>1, <1>4, <2>2, <2>3 DEF TypeOK, SpawnCli, rowVars, outVars
  <2>5. RegisteredRuns'
    <3>1. cli'[k] = "live" /\ pc'[k] = "run" /\ \A j \in Keys \ {k} : cli'[j] = cli[j]
      BY <1>1, <1>4 DEF TypeOK, SpawnCli
    <3>2. \A a \in Agents : active'[a] \in {active[a], k}
      BY <1>1, <1>4 DEF TypeOK, SpawnCli
    <3>3. \A a \in Agents : active[a] \in Keys \cup {None}
      BY <1>1 DEF TypeOK
    <3>4. QED  BY <1>1, <2>2, <3>1, <3>2, <3>3 DEF RegisteredRuns
  <2>6. QED  BY <2>2, <2>4, <2>5, QueueInvPartsNext
<1>5. CASE LaunchFails(k) \/ Throw(k) \/ Deliver(k)
  <2>1. Alive /\ pc[k] \in Busy /\ pc[k] # "run"
    BY <1>5 DEF LaunchFails, Throw, Deliver, Busy
  <2>2. PICK p \in Busy :
          /\ pc' = [pc EXCEPT ![k] = p]
          /\ p = "done" => answered' = [answered EXCEPT ![cur[k]] = TRUE]
    BY <1>5 DEF LaunchFails, Throw, Deliver, Busy
  <2>3. \/ answered' = answered
        \/ answered' = [answered EXCEPT ![cur[k]] = TRUE]
    BY <1>5 DEF LaunchFails, Throw, Deliver, outVars
  <2>4. UNCHANGED <<row, mail, cur, stale, cli, active, orphans, closed, mode, scenario>>
    BY <1>5 DEF LaunchFails, Throw, Deliver, rowVars, procVars, outVars
  <2>5. p = "done" => answered'[cur[k]]
    BY <1>1, <1>3, <2>1, <2>2 DEF TypeOK
  <2>6. /\ RowsInv(row)' /\ ChainsInv(row, {})' /\ OwnedIn(row, {})'
        /\ pc' \in [Keys -> Phases]
        /\ answered' \in [Msgs -> BOOLEAN]
        /\ \A j \in Keys \ {k} : pc'[j] = pc[j]
    BY <1>2, <2>1, <2>2, <2>3, <2>4, <2>5, PhaseStep
  <2>7. TypeOK'
    BY <1>1, <2>4, <2>6 DEF TypeOK
  <2>8. RegisteredRuns'
    BY <1>1, <2>1, <2>4, <2>6 DEF RegisteredRuns
  <2>9. QED  BY <2>6, <2>7, <2>8, QueueInvPartsNext
<1>6. CASE Settle(k)
  <2> DEFINE m == cur[k]
  <2>1. /\ Alive
        /\ pc[k] = "run"
        /\ cli' = [cli EXCEPT ![k] = "none"]
        /\ active' = [a \in Agents |-> IF active[a] = k THEN None ELSE active[a]]
        /\ UNCHANGED <<mail, cur, stale, orphans, mode, scenario>>
    BY <1>6 DEF Settle
  <2>2. PICK p \in {"done", "deliver"} :
          /\ pc' = [pc EXCEPT ![k] = p]
          /\ \/ row' = row
             \/ row' = [row EXCEPT ![m] = DeadLetter(@)]
          /\ \/ answered' = answered
             \/ answered' = [answered EXCEPT ![m] = TRUE]
          /\ p = "done" => \/ row[m].status # "processing"
                           \/ answered' = [answered EXCEPT ![m] = TRUE]
          /\ closed' = closed \/ Announce(m)
    BY <1>6 DEF Settle, outVars
  <2>3. pc[k] \in Busy /\ p \in Busy
    BY <2>1, <2>2 DEF Busy
  <2>4. p = "done" => row[m].status # "processing" \/ answered'[m]
    BY <1>1, <1>3, <2>2, <2>3 DEF TypeOK
  <2>5. /\ RowsInv(row)' /\ ChainsInv(row, {})' /\ OwnedIn(row, {})'
        /\ pc' \in [Keys -> Phases]
        /\ answered' \in [Msgs -> BOOLEAN]
        /\ \A j \in Keys \ {k} : pc'[j] = pc[j]
    BY <1>2, <2>1, <2>2, <2>3, <2>4, PhaseStep
  <2>6. TypeOK'
    <3>1. closed' \in [Msgs -> BOOLEAN]
      BY <1>1, <2>2, AnnounceType DEF TypeOK
    <3>2. active' \in [Agents -> Keys \cup {None}]
      BY <1>1, <2>1 DEF TypeOK
    <3>3. QED  BY <1>1, <2>1, <2>5, <3>1, <3>2 DEF TypeOK, RowsInv
  <2>7. RegisteredRuns'
    <3>1. /\ cli'[k] = "none"
          /\ \A j \in Keys \ {k} : cli'[j] = cli[j]
          /\ \A a \in Agents : active'[a] # None =>
                                 active'[a] = active[a] /\ active[a] # k
      BY <1>1, <2>1 DEF TypeOK
    <3>2. \A a \in Agents : active[a] \in Keys \cup {None}
      BY <1>1 DEF TypeOK
    <3>3. QED  BY <1>1, <2>5, <3>1, <3>2 DEF RegisteredRuns
  <2>8. QED  BY <2>5, <2>6, <2>7, QueueInvPartsNext
<1>7. ASSUME NEW s \in Row,
             s.status \notin {"queued", "processing"},
             s.status \in Active => s.retries < MaxRetries,
             s.status = "completed" => answered[cur[k]],
             Alive,
             pc[k] \in {"done", "threw"},
             NextTurn(k, [row EXCEPT ![cur[k]] = s]),
             UNCHANGED <<mail, stale, procVars, mode, scenario>>,
             closed' \in [Msgs -> BOOLEAN]
      PROVE  QueueInv'
  <2>1. pc[k] \in Busy
    BY <1>7 DEF Busy
  <2>2. LET t == [row EXCEPT ![cur[k]] = s]
        IN  RowsInv(t) /\ ChainsInv(t, {k}) /\ OwnedIn(t, {k})
    BY <1>7, <2>1, LetGo
  <2>3. /\ RowsInv(row)' /\ ChainsInv(row, {})' /\ OwnedIn(row, {})'
        /\ pc' \in [Keys -> Phases]
        /\ cur' \in [Keys -> Msgs \cup {None}]
        /\ answered' \in [Msgs -> BOOLEAN]
        /\ \A j \in Keys \ {k} : pc'[j] = pc[j]
    BY <1>1, <1>7, <2>1, <2>2, NextTurnInv
  <2>4. TypeOK'
    BY <1>1, <1>7, <2>3 DEF TypeOK, RowsInv, procVars
  <2>5. RegisteredRuns'
    BY <1>1, <1>7, <2>3 DEF RegisteredRuns, procVars
  <2>6. QED  BY <2>3, <2>4, <2>5, QueueInvPartsNext
<1>8. CASE Finish(k)
  <2> DEFINE s == Complete(row[cur[k]])
  <2>1. /\ Alive
        /\ pc[k] = "done"
        /\ NextTurn(k, [row EXCEPT ![cur[k]] = s])
        /\ UNCHANGED <<mail, stale, procVars, closed, mode, scenario>>
    BY <1>8 DEF Finish
  <2>2. cur[k] \in Msgs /\ row[cur[k]] \in Row
    BY <1>3, <2>1 DEF Busy
  <2>3. s \in Row
    BY <2>2, RowTypes
  <2>4. s.status \notin {"queued", "processing"}
    BY <1>2, <2>1, <2>2 DEF OwnedIn, Complete, To, Row
  <2>5. s.status \in Active => s.retries < MaxRetries
    BY <1>1, <2>2 DEF RowsInv, Complete, To, Row, Active
  <2>6. s.status = "completed" => answered[cur[k]]
    <3>1. row[cur[k]].status \in {"completed", "processing"} => answered[cur[k]]
      BY <1>1, <2>1, <2>2 DEF RowsInv, ChainsInv, Holds, Busy
    <3>2. QED  BY <2>2, <3>1 DEF Complete, To, Row
  <2> HIDE DEF s
  <2>7. QED  BY <1>1, <1>7, <2>1, <2>3, <2>4, <2>5, <2>6 DEF TypeOK
<1>9. CASE FailTurn(k)
  <2> DEFINE s == Fail(row[cur[k]])
  <2>1. /\ Alive
        /\ pc[k] = "threw"
        /\ NextTurn(k, [row EXCEPT ![cur[k]] = s])
        /\ UNCHANGED <<mail, stale, procVars, mode, scenario>>
        /\ closed' = closed \/ Announce(cur[k])
    BY <1>9 DEF FailTurn
  <2>2. /\ cur[k] \in Msgs
        /\ row[cur[k]] \in Row
        /\ row[cur[k]].retries <= MaxRetries
        /\ row[cur[k]].status \notin {"new", "queued"}
    BY <1>1, <1>3, <2>1 DEF Busy, ChainsInv, Holds
  <2>3. s \in Row
    BY <2>2, RowTypes
  <2>4. /\ s.status \notin {"queued", "processing"}
        /\ s.status \in Active => s.retries < MaxRetries
        /\ s.status # "completed"
    BY <2>2 DEF Fail, FailOutcome, Row, Status, Stored, Active, Settled
  <2>5. closed' \in [Msgs -> BOOLEAN]
    BY <1>1, <2>1, AnnounceType DEF TypeOK
  <2> HIDE DEF s
  <2>6. QED  BY <1>7, <2>1, <2>3, <2>4, <2>5
<1>10. CASE WindDown(k)
  <2>1. /\ Alive
        /\ pc[k] = "winding"
        /\ StartChains(row, FreeKeys \cup {k})
        /\ UNCHANGED <<mail, procVars, closed, mode, scenario>>
    BY <1>10 DEF WindDown
  <2>2. FreeKeys \cup {k} \in SUBSET Keys
    BY DEF FreeKeys
  <2>3. \A j \in FreeKeys \cup {k} : pc[j] \notin Busy /\ cli[j] = "none"
    BY <1>1, <2>1 DEF FreeKeys, RegisteredRuns, Busy
  <2>4. row \in [Msgs -> Row] /\ \A m \in Msgs : Mild(row[m], row[m])
    BY <1>1 DEF RowsInv, Mild
  <2>5. QED  BY <2>1, <2>2, <2>3, <2>4, StartChainsStep
<1>11. QED
  BY <1>4, <1>5, <1>6, <1>8, <1>9, <1>10 DEF ChainStep

LEMMA MessagePreserves ==
  ASSUME QueueInv, NEW m \in Msgs, MessageStep(m)
  PROVE  QueueInv'
<1>1. /\ TypeOK
      /\ \A n \in Msgs : /\ row[n] \in Row
                         /\ row[n].status \in Active => row[n].retries < MaxRetries
                         /\ Mild(row[n], row[n])
  BY QueueInvParts DEF RowsInv, Mild
<1>2. /\ FreeKeys \in SUBSET Keys
      /\ \A k \in FreeKeys : pc[k] \notin Busy /\ cli[k] = "none"
  BY QueueInvParts DEF FreeKeys, Busy, RegisteredRuns
<1>3. CASE EnqueueMessage(m)
  <2> DEFINE t == [row EXCEPT ![m] = Insert(@)]
  <2>1. /\ Alive
        /\ row[m].status = "new"
        /\ StartChains(t, FreeKeys)
        /\ UNCHANGED <<mail, procVars, closed, mode, scenario>>
    BY <1>3 DEF EnqueueMessage, Alive
  <2>2. t[m] = To(Blank, "pending") /\ t[m] \in Row
    BY <1>1, <2>1, RowTypes DEF Insert, TypeOK
  <2>3. \A n \in Msgs \ {m} : t[n] = row[n]
    BY <1>1 DEF TypeOK
  <2>4. t \in [Msgs -> Row]
    BY <1>1, <2>2 DEF TypeOK
  <2>5. \A n \in Msgs : \/ Mild(row[n], t[n])
                        \/ row[n].status = "new" /\ t[n] = To(Blank, "pending")
    BY <1>1, <2>1, <2>2, <2>3
  <2> HIDE DEF t
  <2>6. QED  BY <1>2, <2>1, <2>4, <2>5, StartChainsStep
<1>4. ASSUME NEW s \in Row, Mild(row[m], s)
      PROVE  LET t == [row EXCEPT ![m] = s]
             IN  t \in [Msgs -> Row] /\ \A n \in Msgs : Mild(row[n], t[n])
  BY <1>1, <1>4 DEF TypeOK
<1>5. CASE RetryDeadMessage(m)
  <2> DEFINE s == RetryDead(row[m])
  <2>1. s \in Row /\ Mild(row[m], s)
    BY <1>1, RowTypes, MildStatements
  <2>2. /\ Alive
        /\ StartChains([row EXCEPT ![m] = s], FreeKeys)
        /\ UNCHANGED <<mail, procVars, closed, mode, scenario>>
    BY <1>5 DEF RetryDeadMessage, Alive
  <2> HIDE DEF s
  <2>3. QED  BY <1>2, <1>4, <2>1, <2>2, StartChainsStep
<1>6. CASE CancelMessage(m)
  <2>1. Cancel(row[m]) \in Row /\ Mild(row[m], Cancel(row[m]))
    BY <1>1, RowTypes, MildStatements
  <2>2. closed' \in [Msgs -> BOOLEAN]
    BY <1>1, <1>6, AnnounceType DEF CancelMessage
  <2>3. /\ Alive
        /\ row' = [row EXCEPT ![m] = Cancel(row[m])]
        /\ UNCHANGED <<mail, pc, cur, stale, orphans, answered, mode, scenario>>
        /\ (\E names : KillProcesses(names)) \/ UNCHANGED <<cli, active>>
    BY <1>6 DEF CancelMessage, chainVars, Alive
  <2>4. row' \in [Msgs -> Row] /\ \A n \in Msgs : Mild(row[n], row'[n])
    BY <1>4, <2>1, <2>3
  <2>5. QED  BY <1>1, <2>2, <2>3, <2>4, MildStep DEF TypeOK
<1>7. CASE KillMessage(m)
  <2>1. row[m].status \in Active /\ row[m].retries <= MaxRetries
    <3>1. row[m].status \in Active
      BY <1>7 DEF KillMessage
    <3>2. row[m] \in Row /\ row[m].retries < MaxRetries
      BY <1>1, <3>1
    <3>3. QED  BY <3>1, <3>2 DEF Row
  <2>2. Fail(row[m]) \in Row /\ Mild(row[m], Fail(row[m]))
    BY <1>1, <2>1, RowTypes, MildStatements
  <2>3. /\ Alive
        /\ row' = [row EXCEPT ![m] = Fail(row[m])]
        /\ UNCHANGED <<mail, pc, cur, orphans, outVars, mode, scenario>>
        /\ KillProcesses({mail[m].key})
    BY <1>7 DEF KillMessage, Alive
  <2>4. stale' \in [Keys -> BOOLEAN]
    BY <1>1, <1>7 DEF KillMessage, TypeOK
  <2>5. row' \in [Msgs -> Row] /\ \A n \in Msgs : Mild(row[n], row'[n])
    BY <1>4, <2>2, <2>3
  <2>6. QED  BY <1>1, <2>3, <2>4, <2>5, MildStep DEF TypeOK, outVars
<1>8. CASE DeleteDeadMessage(m)
  <2>1. DeleteDead(row[m]) \in Row /\ Mild(row[m], DeleteDead(row[m]))
    BY <1>1, RowTypes, MildStatements
  <2>2. /\ Alive
        /\ row' = [row EXCEPT ![m] = DeleteDead(row[m])]
        /\ UNCHANGED <<mail, pc, cur, stale, procVars, outVars, mode, scenario>>
    BY <1>8 DEF DeleteDeadMessage, chainVars, Alive
  <2>3. row' \in [Msgs -> Row] /\ \A n \in Msgs : Mild(row[n], row'[n])
    BY <1>4, <2>1, <2>2
  <2>4. QED  BY <1>1, <2>2, <2>3, MildStep DEF TypeOK, procVars, outVars
<1>9. QED
  BY <1>3, <1>5, <1>6, <1>7, <1>8 DEF MessageStep

LEMMA ServicePreserves ==
  ASSUME QueueInv, Poll \/ Prune \/ Watchdog
  PROVE  QueueInv'
<1>1. /\ TypeOK
      /\ \A n \in Msgs : /\ row[n] \in Row
                         /\ row[n].status \in Active => row[n].retries < MaxRetries
                         /\ Mild(row[n], row[n])
  BY QueueInvParts DEF RowsInv, Mild
<1>2. CASE Poll
  <2>1. /\ FreeKeys \in SUBSET Keys
        /\ \A k \in FreeKeys : pc[k] \notin Busy /\ cli[k] = "none"
    BY QueueInvParts DEF FreeKeys, Busy, RegisteredRuns
  <2>2. /\ Alive
        /\ StartChains(row, FreeKeys)
        /\ UNCHANGED <<mail, procVars, closed, mode, scenario>>
    BY <1>2 DEF Poll, Alive
  <2>3. row \in [Msgs -> Row]
    BY <1>1 DEF TypeOK
  <2>4. QED  BY <1>1, <2>1, <2>2, <2>3, StartChainsStep
<1>3. CASE Prune
  <2>1. /\ Alive
        /\ UNCHANGED <<mail, pc, cur, stale, procVars, outVars, mode, scenario>>
    BY <1>3 DEF Prune, chainVars, Alive
  <2>2. PICK gone : row' = [m \in Msgs |-> IF m \in gone THEN PruneSettled(row[m])
                                           ELSE row[m]]
    BY <1>3 DEF Prune
  <2>3. \A n \in Msgs : row'[n] \in Row /\ Mild(row[n], row'[n])
    BY <1>1, <2>2, RowTypes, MildStatements
  <2>4. row' \in [Msgs -> Row]
    BY <2>2, <2>3
  <2>5. QED  BY <1>1, <2>1, <2>3, <2>4, MildStep DEF TypeOK, procVars, outVars
<1>4. CASE Watchdog
  <2>1. /\ Alive
        /\ UNCHANGED <<mail, pc, cur, stale, orphans, outVars, mode, scenario>>
    BY <1>4 DEF Watchdog, chainVars, Alive
  <2>2. PICK paused : /\ row' = [m \in Msgs |-> IF m \in paused
                                                THEN Interrupt(row[m]) ELSE row[m]]
                      /\ KillProcesses({mail[m].key : m \in paused})
    BY <1>4 DEF Watchdog
  <2>3. \A n \in Msgs : row'[n] \in Row /\ Mild(row[n], row'[n])
    BY <1>1, <2>2, RowTypes, MildStatements
  <2>4. row' \in [Msgs -> Row]
    BY <2>2, <2>3
  <2>5. \E names : KillProcesses(names)
    BY <2>2
  <2>6. QED  BY <1>1, <2>1, <2>3, <2>4, <2>5, MildStep DEF TypeOK, outVars
<1>5. QED  BY <1>2, <1>3, <1>4

\* A process that goes away leaves the table as it is, or with one row claimed
\* and not marked yet.
LEMMA ProcessPreserves ==
  ASSUME QueueInv,
         Crash \/ Shutdown \/ Exit \/ Restart \/ \E a \in Agents : OrphanEnds(a)
  PROVE  QueueInv'
<1>1. /\ TypeOK /\ RowsInv(row) /\ ChainsInv(row, {}) /\ RegisteredRuns
      /\ Alive => OwnedIn(row, {})
  BY QueueInvParts
<1>2. ASSUME ProcessGone,
             \/ row' = row
             \/ \E m \in Msgs : row' = [row EXCEPT ![m] = Claim(@)]
      PROVE  QueueInv'
  <2>1. \A m \in Msgs : /\ row'[m] \in Row
                        /\ row'[m].retries = row[m].retries
                        /\ row'[m].status \in Active => row[m].status \in Active
                        /\ row'[m].status = "completed" => row[m].status = "completed"
    <3> SUFFICES ASSUME NEW m \in Msgs
                 PROVE  /\ row'[m] \in Row
                        /\ row'[m].retries = row[m].retries
                        /\ row'[m].status \in Active => row[m].status \in Active
                        /\ row'[m].status = "completed" => row[m].status = "completed"
      OBVIOUS
    <3>1. row'[m] \in {row[m], Claim(row[m])} /\ row[m] \in Row
      BY <1>1, <1>2 DEF TypeOK
    <3>2. Claim(row[m]) \in Row
      BY <3>1, RowTypes
    <3>3. /\ Claim(row[m]).retries = row[m].retries
          /\ Claim(row[m]).status \in Active => row[m].status \in Active
          /\ Claim(row[m]).status = "completed" => row[m].status = "completed"
      BY <3>1 DEF Claim, To, Row, Active
    <3>4. QED  BY <3>1, <3>2, <3>3
  <2>2. row' \in [Msgs -> Row]
    BY <1>1, <1>2, <2>1 DEF TypeOK
  <2>3. RowsInv(row)'
    BY <1>1, <1>2, <2>1, <2>2 DEF RowsInv, ProcessGone, outVars
  <2>4. ChainsInv(row, {})'
    BY <1>2 DEF ChainsInv, ProcessGone, Busy
  <2>5. ~ Alive'
    BY <1>2 DEF ProcessGone, Alive
  <2>6. RegisteredRuns'
    BY <1>2 DEF ProcessGone, RegisteredRuns
  <2>7. orphans' \subseteq Agents
    <3>1. ASSUME NEW j \in Keys, cli[j] = "live"
          PROVE  mail[cur[j]].agent \in Agents
      <4>1. pc[j] \in Busy
        BY <1>1, <3>1 DEF RegisteredRuns, Busy
      <4>2. cur[j] \in Msgs
        BY <1>1, <4>1 DEF ChainsInv, Holds
      <4>3. QED  BY <1>1, <4>2 DEF TypeOK, Mail
    <3>2. QED  BY <1>1, <1>2, <3>1 DEF ProcessGone, TypeOK
  <2>8. TypeOK'
    BY <1>1, <1>2, <2>2, <2>7 DEF TypeOK, ProcessGone, Phases, outVars
  <2>9. QED  BY <2>3, <2>4, <2>5, <2>6, <2>8, QueueInvPartsNext
<1>3. CASE Crash
  <2>1. ProcessGone
    BY <1>3 DEF Crash
  <2>2. \/ row' = row
        \/ \E m \in Msgs : row' = [row EXCEPT ![m] = Claim(@)]
    BY <1>3 DEF Crash, First, Waiting
  <2>3. QED  BY <1>2, <2>1, <2>2
<1>4. CASE Exit
  BY <1>2, <1>4 DEF Exit
<1>5. CASE Shutdown
  <2>1. UNCHANGED <<row, mail, pc, cur, stale, orphans, answered, closed, scenario>>
    BY <1>5 DEF Shutdown, rowVars, chainVars, outVars
  <2>2. Alive /\ mode' = "stopping" /\ KillProcesses(Agents)
    BY <1>5 DEF Shutdown, Alive
  <2>3. /\ RegisteredRuns'
        /\ cli' \in [Keys -> {"none", "live", "killed"}]
        /\ active' \in [Agents -> Keys \cup {None}]
    BY <1>1, <2>1, <2>2, KillProcessesInv
  <2>4. TypeOK'
    BY <1>1, <2>1, <2>2, <2>3 DEF TypeOK
  <2>5. RowsInv(row)' /\ ChainsInv(row, {})' /\ OwnedIn(row, {})'
    BY <1>1, <2>1, <2>2 DEF RowsInv, ChainsInv, Holds, OwnedIn
  <2>6. QED  BY <2>3, <2>4, <2>5, QueueInvPartsNext
<1>6. CASE Restart
  <2>1. /\ mode' = "up"
        /\ row' = [m \in Msgs |-> Recover(row[m])]
        /\ UNCHANGED <<mail, pc, cur, stale, cli, active, orphans, answered,
                       closed, scenario>>
    BY <1>6 DEF Restart, chainVars, procVars, outVars
  <2>2. \A m \in Msgs : /\ row'[m] \in Row
                        /\ Mild(row[m], row'[m])
                        /\ row'[m].status \notin {"queued", "processing"}
    <3> SUFFICES ASSUME NEW m \in Msgs
                 PROVE  /\ Recover(row[m]) \in Row
                        /\ Mild(row[m], Recover(row[m]))
                        /\ Recover(row[m]).status \notin {"queued", "processing"}
      BY <2>1
    <3>1. row[m] \in Row
      BY <1>1 DEF TypeOK
    <3>2. Recover(row[m]) \in Row /\ Mild(row[m], Recover(row[m]))
      BY <1>1, <3>1, RowTypes, MildStatements DEF RowsInv
    <3>3. Recover(row[m]).status \notin {"queued", "processing"}
      BY <3>1 DEF Recover, To, Row
    <3>4. QED  BY <3>2, <3>3
  <2>3. row' \in [Msgs -> Row]
    BY <2>1, <2>2
  <2>4. RowsInv(row)' /\ ChainsInv(row, {})'
    BY <1>1, <2>1, <2>2, <2>3, MildRows
  <2>5. OwnedIn(row, {})'
    BY <2>2 DEF OwnedIn
  <2>6. RegisteredRuns'
    BY <1>1, <2>1 DEF RegisteredRuns
  <2>7. TypeOK'
    BY <1>1, <2>1, <2>3 DEF TypeOK
  <2>8. QED  BY <2>4, <2>5, <2>6, <2>7, QueueInvPartsNext
<1>7. CASE \E a \in Agents : OrphanEnds(a)
  <2>1. UNCHANGED <<row, mail, pc, cur, stale, cli, active, answered, closed,
                    mode, scenario>>
    BY <1>7 DEF OrphanEnds, rowVars, chainVars, outVars
  <2>2. orphans' \subseteq orphans
    BY <1>7 DEF OrphanEnds
  <2>3. TypeOK'
    BY <1>1, <2>1, <2>2 DEF TypeOK
  <2>4. RowsInv(row)' /\ ChainsInv(row, {})' /\ RegisteredRuns'
    BY <1>1, <2>1 DEF RowsInv, ChainsInv, Holds, RegisteredRuns
  <2>5. Alive' => OwnedIn(row, {})'
    BY <1>1, <2>1 DEF Alive, OwnedIn
  <2>6. QED  BY <2>3, <2>4, <2>5, QueueInvPartsNext
<1>8. QED  BY <1>3, <1>4, <1>5, <1>6, <1>7

\* A daemon that has just started on an empty table.
LEMMA InitInv == Init => QueueInv
<1> SUFFICES ASSUME Init
             PROVE  QueueInv
  OBVIOUS
<1>1. Blank \in Row /\ Blank.status = "new"
  BY DEF Blank, Row, Status
<1>2. TypeOK
  BY <1>1 DEF Init, TypeOK, Phases
<1>3. RowsInv(row) /\ OwnedIn(row, {})
  BY <1>1 DEF Init, RowsInv, OwnedIn, Active
<1>4. ChainsInv(row, {}) /\ RegisteredRuns
  BY DEF Init, ChainsInv, RegisteredRuns, Busy
<1>5. QED  BY <1>2, <1>3, <1>4, QueueInvParts

LEMMA NextInv == QueueInv /\ [Next]_vars => QueueInv'
<1> SUFFICES ASSUME QueueInv, [Next]_vars
             PROVE  QueueInv'
  OBVIOUS
<1>1. CASE UNCHANGED vars
  <2>1. UNCHANGED <<row, mail, pc, cur, stale, cli, active, orphans, answered,
                    closed, mode, scenario>>
    BY <1>1 DEF vars, rowVars, chainVars, procVars, outVars
  <2>2. TypeOK /\ RowsInv(row) /\ ChainsInv(row, {}) /\ RegisteredRuns
          /\ (Alive => OwnedIn(row, {}))
    BY QueueInvParts
  <2>3. TypeOK' /\ RowsInv(row)' /\ ChainsInv(row, {})' /\ RegisteredRuns'
    BY <2>1, <2>2 DEF TypeOK, RowsInv, ChainsInv, Holds, RegisteredRuns
  <2>4. Alive' => OwnedIn(row, {})'
    BY <2>1, <2>2 DEF Alive, OwnedIn
  <2>5. QED  BY <2>3, <2>4, QueueInvPartsNext
<1>2. CASE \E k \in Keys : ChainStep(k)
  BY <1>2, ChainPreserves
<1>3. CASE \E m \in Msgs : MessageStep(m)
  BY <1>3, MessagePreserves
<1>4. CASE Poll \/ Prune \/ Watchdog
  BY <1>4, ServicePreserves
<1>5. CASE Crash \/ Shutdown \/ Exit \/ Restart \/ \E a \in Agents : OrphanEnds(a)
  BY <1>5, ProcessPreserves
<1>6. QED  BY <1>1, <1>2, <1>3, <1>4, <1>5 DEF Next

\* The inductive invariant, for any number of messages, keys and retries.
THEOREM QueueInvariant == Spec => []QueueInv
<1>1. Init => QueueInv
  BY InitInv
<1>2. QueueInv /\ [Next]_vars => QueueInv'
  BY NextInv
<1>3. QED  BY <1>1, <1>2, PTL DEF Spec

\* What follows from it for the properties the runs check.
THEOREM TypeCorrect == Spec => []TypeOK
BY QueueInvariant, PTL DEF QueueInv

\* Nothing the daemon took in is forgotten while it runs.
THEOREM NothingForgotten == Spec => []InFlightOwned
BY QueueInvariant, PTL DEF QueueInv

\* No chain works on a row another chain holds, or on one that was completed.
THEOREM OneHolder == Spec => []ChainHoldsRow
BY QueueInvariant, PTL DEF QueueInv

\* A row that waits has a retry left.
THEOREM RetriesLeft == Spec => []PendingHasRetries
BY QueueInvariant, PTL DEF QueueInv

\* No message is completed without an answer of its own run.
THEOREM CompletedMeansAnswered == Spec => []CompletedAnswered
BY QueueInvariant, PTL DEF QueueInv
-----------------------------------------------------------------------------
(***************************************************************************)
(* Where a row may go in one step.  A step may settle a row and take the   *)
(* next one, or take one it has just put back, so that single statements   *)
(* are not enough: Onward compares the row before with the row after.      *)
(***************************************************************************)
Onward(r, s) == StageOf(s.status) \in Lifecycle!After(StageOf(r.status))

LEMMA StatementsOnward ==
  ASSUME NEW r \in Row
  PROVE  /\ Onward(r, r)
         /\ Onward(r, Insert(r))
         /\ Onward(r, Claim(r))
         /\ Onward(r, Complete(r))
         /\ Onward(r, Interrupt(r))
         /\ Onward(r, Cancel(r))
         /\ r.status # "completed" => Onward(r, Fail(r))
         /\ Onward(r, DeadLetter(r))
         /\ Onward(r, Recover(r))
         /\ Onward(r, RetryDead(r))
         /\ Onward(r, DeleteDead(r))
         /\ Onward(r, PruneSettled(r))
<1> USE DEF Onward, StageOf, Lifecycle!After, Row, Status, Stored, Active, Settled, To
<1>1. Onward(r, r)
  OBVIOUS
<1>2. Onward(r, Insert(r)) /\ Onward(r, Claim(r))
  BY DEF Insert, Claim, Blank
<1>3. Onward(r, Complete(r)) /\ Onward(r, Interrupt(r)) /\ Onward(r, Cancel(r))
  BY DEF Complete, Interrupt, Cancel
<1>4. r.status # "completed" => Onward(r, Fail(r))
  BY DEF Fail, FailOutcome
<1>5. Onward(r, DeadLetter(r)) /\ Onward(r, RetryDead(r))
  BY DEF DeadLetter, RetryDead
<1>6. Onward(r, Recover(r))
  BY DEF Recover
<1>7. Onward(r, DeleteDead(r)) /\ Onward(r, PruneSettled(r))
  BY DEF DeleteDead, PruneSettled, Gone, Blank
<1>8. QED  BY <1>1, <1>2, <1>3, <1>4, <1>5, <1>6, <1>7

\* A row that may be waiting may be taken, or drained, in the same step.
LEMMA OnwardTake ==
  ASSUME NEW r \in Row, NEW s \in Row, Onward(r, s), s.status = "pending"
  PROVE  /\ Onward(r, Take(s))
         /\ r.status # "new" => Onward(r, Drain(s))
<1> USE DEF Onward, StageOf, Lifecycle!After, Row, Status, Stored, Active, Settled, To
<1>1. r.status \in {"new", "pending", "queued", "processing", "dead"}
  OBVIOUS
<1>2. Onward(r, Take(s))
  <2>1. Take(s).status = "processing"
    BY DEF Take, Claim, MarkProcessing
  <2>2. QED  BY <1>1, <2>1
<1>3. r.status # "new" => Onward(r, Drain(s))
  <2>1. Drain(s).status = "dead"
    BY DEF Drain
  <2>2. QED  BY <1>1, <2>1
<1>4. QED  BY <1>2, <1>3

\* Starting a chain leaves a row alone or takes it.
LEMMA StartMoves ==
  ASSUME NEW t \in [Msgs -> Row],
         NEW free \in SUBSET Keys, StartChains(t, free),
         NEW m \in Msgs
  PROVE  \/ row'[m] = t[m]
         \/ t[m].status = "pending" /\ row'[m] = Take(t[m])
<1> DEFINE idle == {k \in free : Waiting(t, k) # {}}
<1>1. PICK next \in [idle -> Msgs] :
        /\ \A k \in idle : next[k] \in First(t, k)
        /\ row' = [n \in Msgs |-> IF n \in {next[k] : k \in idle}
                                  THEN Take(t[n]) ELSE t[n]]
  BY DEF StartChains
<1>2. \A k \in idle : t[next[k]].status = "pending"
  BY <1>1 DEF First, Waiting
<1>3. QED  BY <1>1, <1>2

\* A chain's next turn leaves a row alone, takes it, or drains it.
LEMMA TurnMoves ==
  ASSUME NEW t \in [Msgs -> Row],
         NEW k \in Keys, NextTurn(k, t),
         NEW m \in Msgs
  PROVE  \/ row'[m] = t[m]
         \/ t[m].status = "pending" /\ row'[m] \in {Take(t[m]), Drain(t[m])}
<1>1. CASE row' = t
  BY <1>1
<1>2. CASE row' = [n \in Msgs |->
                     IF n \in Waiting(t, k) THEN Drain(t[n]) ELSE t[n]]
  BY <1>2 DEF Waiting
<1>3. CASE \E n \in First(t, k) : row' = [t EXCEPT ![n] = Take(@)]
  BY <1>3 DEF First, Waiting
<1>4. QED  BY <1>1, <1>2, <1>3 DEF NextTurn

\* A table whose rows moved onward is still onward after the turn.
LEMMA OnwardTurn ==
  ASSUME QueueInv,
         NEW t \in [Msgs -> Row],
         \A m \in Msgs : Onward(row[m], t[m]),
         \/ \E free \in SUBSET Keys : StartChains(t, free)
         \/ /\ \E k \in Keys : NextTurn(k, t)
            /\ \A m \in Msgs : row[m].status = "new" => t[m].status # "pending"
  PROVE  \A m \in Msgs : /\ Onward(row[m], row'[m])
                         /\ row'[m].status = "completed" => t[m].status = "completed"
<1> SUFFICES ASSUME NEW m \in Msgs
             PROVE  /\ Onward(row[m], row'[m])
                    /\ row'[m].status = "completed" => t[m].status = "completed"
  OBVIOUS
<1>1. row[m] \in Row /\ t[m] \in Row
  BY DEF QueueInv, TypeOK
<1>2. CASE row'[m] = t[m]
  BY <1>2
<1>3. CASE t[m].status = "pending" /\ row'[m] = Take(t[m])
  <2>1. Take(t[m]).status = "processing"
    BY <1>1, <1>3, TakeWaiting
  <2>2. QED  BY <1>1, <1>3, <2>1, OnwardTake
<1>4. CASE /\ t[m].status = "pending" /\ row'[m] = Drain(t[m])
           /\ row[m].status # "new"
  <2>1. Drain(t[m]).status = "dead"
    BY <1>1, <1>4 DEF Drain, Row
  <2>2. QED  BY <1>1, <1>4, <2>1, OnwardTake
<1>5. CASE \E free \in SUBSET Keys : StartChains(t, free)
  BY <1>2, <1>3, <1>5, StartMoves
<1>6. CASE /\ \E k \in Keys : NextTurn(k, t)
           /\ \A n \in Msgs : row[n].status = "new" => t[n].status # "pending"
  BY <1>2, <1>3, <1>4, <1>6, TurnMoves
<1>7. QED  BY <1>5, <1>6

\* Where a step takes a row, and that none is completed unanswered.
LEMMA RowsMove ==
  ASSUME QueueInv, [Next]_vars, NEW m \in Msgs
  PROVE  /\ Onward(row[m], row'[m])
         /\ row'[m].status = "completed" => answered[m]
<1>1. /\ row \in [Msgs -> Row]
      /\ \A n \in Msgs : row[n] \in Row /\ Onward(row[n], row[n])
      /\ \A n \in Msgs : row[n].status = "completed" => answered[n]
  BY StatementsOnward DEF QueueInv, TypeOK, CompletedAnswered
<1>2. \A k \in Keys : pc[k] \in Busy =>
        /\ cur[k] \in Msgs
        /\ row[cur[k]].status \notin {"new", "queued", "completed"}
  BY DEF QueueInv, ChainHoldsRow
<1>3. CASE row' = row
  BY <1>1, <1>3
<1>4. ASSUME row'[m] \in {row[m], Claim(row[m]), Cancel(row[m]), Interrupt(row[m]),
                          DeadLetter(row[m]), Recover(row[m]),
                          DeleteDead(row[m]), PruneSettled(row[m])}
      PROVE  /\ Onward(row[m], row'[m])
             /\ row'[m].status = "completed" => answered[m]
  <2>1. Onward(row[m], row'[m])
    BY <1>1, <1>4, StatementsOnward
  <2>2. row'[m].status = "completed" => row[m].status = "completed"
    BY <1>1, <1>4 DEF Claim, Cancel, Interrupt, DeadLetter, Recover,
                      DeleteDead, PruneSettled, Gone, Blank, To, Row, Active
  <2>3. QED  BY <1>1, <2>1, <2>2
<1>5. ASSUME NEW free \in SUBSET Keys,
             NEW n \in Msgs,
             NEW s \in {row[n], Insert(row[n]), RetryDead(row[n])},
             StartChains([row EXCEPT ![n] = s], free)
      PROVE  /\ Onward(row[m], row'[m])
             /\ row'[m].status = "completed" => answered[m]
  <2> DEFINE t == [row EXCEPT ![n] = s]
  <2>1. s \in Row /\ Onward(row[n], s)
    BY <1>1, RowTypes, StatementsOnward
  <2>2. s.status = "completed" => row[n].status = "completed"
    BY <1>1 DEF Insert, RetryDead, Blank, To, Row
  <2>3. t \in [Msgs -> Row]
    BY <1>1, <2>1
  <2>4. \A l \in Msgs : /\ Onward(row[l], t[l])
                        /\ t[l].status = "completed" => row[l].status = "completed"
    BY <1>1, <2>1, <2>2
  <2> HIDE DEF t
  <2>5. QED  BY <1>1, <1>5, <2>3, <2>4, OnwardTurn DEF t
<1>6. ASSUME NEW k \in Keys,
             pc[k] \in {"done", "threw"},
             NEW s \in {Complete(row[cur[k]]), Fail(row[cur[k]])},
             s.status = "completed" => answered[cur[k]],
             NextTurn(k, [row EXCEPT ![cur[k]] = s])
      PROVE  /\ Onward(row[m], row'[m])
             /\ row'[m].status = "completed" => answered[m]
  <2> DEFINE t == [row EXCEPT ![cur[k]] = s]
  <2>1. /\ cur[k] \in Msgs
        /\ row[cur[k]].status \notin {"new", "queued", "completed"}
        /\ row[cur[k]].retries <= MaxRetries
    BY <1>2, <1>6 DEF Busy, QueueInv, HeldRetries
  <2>2. s \in Row /\ Onward(row[cur[k]], s)
    BY <1>1, <2>1, RowTypes, StatementsOnward
  <2>3. t \in [Msgs -> Row]
    BY <1>1, <2>2
  <2>4. \A l \in Msgs : /\ Onward(row[l], t[l])
                        /\ t[l].status = "completed" => answered[l]
                        /\ row[l].status = "new" => t[l].status # "pending"
    BY <1>1, <1>6, <2>1, <2>2
  <2> HIDE DEF t
  <2>5. QED  BY <1>1, <1>6, <2>3, <2>4, OnwardTurn DEF t
<1>7. CASE \E k \in Keys : ChainStep(k)
  <2>1. PICK k \in Keys : ChainStep(k)
    BY <1>7
  <2>2. CASE SpawnCli(k) \/ LaunchFails(k) \/ Throw(k) \/ Deliver(k)
    BY <1>3, <2>2 DEF SpawnCli, LaunchFails, Throw, Deliver, rowVars
  <2>3. CASE Settle(k)
    <3>1. row' = row \/ row' = [row EXCEPT ![cur[k]] = DeadLetter(@)]
      BY <2>3 DEF Settle
    <3>2. QED  BY <1>1, <1>4, <3>1
  <2>4. CASE Finish(k)
    <3>1. /\ pc[k] = "done"
          /\ Alive
          /\ NextTurn(k, [row EXCEPT ![cur[k]] = Complete(row[cur[k]])])
      BY <2>4 DEF Finish
    <3>2. Complete(row[cur[k]]).status = "completed" => answered[cur[k]]
      <4>1. cur[k] \in Msgs /\ row[cur[k]].status # "completed"
        BY <1>2, <3>1 DEF Busy
      <4>2. row[cur[k]].status = "processing" => answered[cur[k]]
        BY <3>1 DEF QueueInv, DoneAnswered
      <4>3. QED  BY <1>1, <4>1, <4>2 DEF Complete
    <3>3. QED  BY <1>6, <3>1, <3>2
  <2>5. CASE FailTurn(k)
    <3>1. /\ pc[k] = "threw"
          /\ NextTurn(k, [row EXCEPT ![cur[k]] = Fail(row[cur[k]])])
      BY <2>5 DEF FailTurn
    <3>2. Fail(row[cur[k]]).status # "completed"
      <4>1. cur[k] \in Msgs /\ row[cur[k]].status # "completed"
        BY <1>2, <3>1 DEF Busy
      <4>2. QED  BY <1>1, <4>1 DEF Fail, FailOutcome, Row
    <3>3. QED  BY <1>6, <3>1, <3>2
  <2>6. CASE WindDown(k)
    <3>1. FreeKeys \cup {k} \in SUBSET Keys /\ [row EXCEPT ![m] = row[m]] = row
      BY <1>1 DEF FreeKeys
    <3>2. StartChains(row, FreeKeys \cup {k})
      BY <2>6 DEF WindDown
    <3>3. QED  BY <1>5, <3>1, <3>2
  <2>7. QED  BY <2>1, <2>2, <2>3, <2>4, <2>5, <2>6 DEF ChainStep
<1>8. CASE \E n \in Msgs : MessageStep(n)
  <2>1. PICK n \in Msgs : MessageStep(n)
    BY <1>8
  <2>2. FreeKeys \in SUBSET Keys
    BY DEF FreeKeys
  <2>3. CASE EnqueueMessage(n)
    BY <1>5, <2>2, <2>3 DEF EnqueueMessage
  <2>4. CASE RetryDeadMessage(n)
    BY <1>5, <2>2, <2>4 DEF RetryDeadMessage
  <2>5. CASE CancelMessage(n)
    BY <1>1, <1>4, <2>5 DEF CancelMessage
  <2>6. CASE DeleteDeadMessage(n)
    BY <1>1, <1>4, <2>6 DEF DeleteDeadMessage
  <2>7. CASE KillMessage(n)
    <3>1. row[n].status # "completed" /\ row' = [row EXCEPT ![n] = Fail(row[n])]
      BY <2>7 DEF KillMessage, Active
    <3>2. CASE m = n
      <4>1. row'[m] = Fail(row[m])
        BY <1>1, <3>1, <3>2
      <4>2. Onward(row[m], Fail(row[m]))
        BY <1>1, <3>1, <3>2, StatementsOnward
      <4>3. Fail(row[m]).status # "completed"
        BY <1>1, <3>1, <3>2 DEF Fail, FailOutcome, Row
      <4>4. QED  BY <4>1, <4>2, <4>3
    <3>3. CASE m # n
      BY <1>1, <3>1, <3>3
    <3>4. QED  BY <3>2, <3>3
  <2>8. QED  BY <2>1, <2>3, <2>4, <2>5, <2>6, <2>7 DEF MessageStep
<1>9. CASE Poll
  <2>1. FreeKeys \in SUBSET Keys /\ [row EXCEPT ![m] = row[m]] = row
    BY <1>1 DEF FreeKeys
  <2>2. QED  BY <1>5, <1>9, <2>1 DEF Poll
<1>10. CASE Prune
  BY <1>4, <1>10 DEF Prune
<1>11. CASE Watchdog
  BY <1>4, <1>11 DEF Watchdog
<1>12. CASE Crash
  <2>1. row' = row \/ \E n \in Msgs : row' = [row EXCEPT ![n] = Claim(@)]
    BY <1>12 DEF Crash, First, Waiting
  <2>2. QED  BY <1>1, <1>4, <2>1
<1>13. CASE Restart
  BY <1>4, <1>13 DEF Restart
<1>14. CASE Shutdown \/ Exit \/ \E a \in Agents : OrphanEnds(a)
  BY <1>3, <1>14 DEF Shutdown, Exit, OrphanEnds, rowVars
<1>15. CASE UNCHANGED vars
  BY <1>3, <1>15 DEF vars, rowVars
<1>16. QED
  BY <1>7, <1>8, <1>9, <1>10, <1>11, <1>12, <1>13, <1>14, <1>15 DEF Next

\* A user-cancelled row stays cancelled until it is pruned.
THEOREM CancelTerminal == Spec => CancelIsTerminal
<1>1. QueueInv /\ [Next]_vars =>
        [\A m \in Msgs : row[m].status = "cancelled" =>
                           row'[m].status \in {"cancelled", "gone"}]_vars
  <2> SUFFICES ASSUME QueueInv, [Next]_vars,
                      NEW m \in Msgs, row[m].status = "cancelled"
               PROVE  row'[m].status \in {"cancelled", "gone"}
    OBVIOUS
  <2>1. Onward(row[m], row'[m])
    BY RowsMove
  <2>2. QED  BY <2>1 DEF Onward, StageOf, Lifecycle!After
<1>2. QED  BY <1>1, QueueInvariant, PTL DEF Spec, CancelIsTerminal
-----------------------------------------------------------------------------
(***************************************************************************)
(* What a claim decides: which rows it takes, and what it leaves.          *)
(***************************************************************************)

\* A row a step may take: waiting for one of these chains, and then running
\* and not answered.
Taken(m, t, keys) ==
  /\ t[m].status = "pending" /\ mail[m].key \in keys
  /\ row'[m].status = "processing" /\ ~ answered'[m]

\* No row of the user lane waits behind a background row.
LaneClear(m) ==
  mail[m].lane = "background" =>
    \A n \in Msgs : mail[n].key = mail[m].key /\ mail[n].lane = "user" =>
                      row'[n].status # "pending"

\* A chain that holds a row it has just taken.
JustTook(k) ==
  /\ pc'[k] = "hooks" /\ cur'[k] \in Msgs
  /\ row'[cur'[k]].status = "processing" /\ ~ answered'[cur'[k]]

\* The first waiting row is of the user lane if there is one.
LEMMA FirstClears ==
  ASSUME NEW t \in [Msgs -> Row], NEW k \in Keys, NEW m \in First(t, k),
         \A n \in Msgs : row'[n].status = "pending" =>
                           t[n].status = "pending" /\ n # m
  PROVE  LaneClear(m)
<1> SUFFICES ASSUME mail[m].lane = "background",
                    NEW n \in Msgs, mail[n].key = mail[m].key, mail[n].lane = "user",
                    row'[n].status = "pending"
             PROVE  FALSE
  BY DEF LaneClear
<1>1. n \in Waiting(t, k) \ {m}
  BY DEF First, Waiting
<1>2. Ahead(m, n)
  BY <1>1 DEF First
<1>3. QED  BY <1>2 DEF Ahead

LEMMA StartEffect ==
  ASSUME TypeOK, NEW t \in [Msgs -> Row], NEW free \in SUBSET Keys, StartChains(t, free)
  PROVE  /\ \A m \in Msgs : \/ row'[m] = t[m] /\ answered'[m] = answered[m]
                            \/ Taken(m, t, free) /\ LaneClear(m)
         /\ \A k \in Keys \ free : pc'[k] = pc[k] /\ cur'[k] = cur[k] /\ stale'[k] = stale[k]
         /\ \A k \in free : ~ stale'[k] /\ (pc'[k] = "none" \/ JustTook(k))
<1> DEFINE idle == {k \in free : Waiting(t, k) # {}}
<1>1. PICK next \in [idle -> Msgs] :
        /\ \A k \in idle : next[k] \in First(t, k)
        /\ row' = [m \in Msgs |-> IF m \in {next[k] : k \in idle}
                                  THEN Take(t[m]) ELSE t[m]]
        /\ answered' = [m \in Msgs |-> m \notin {next[k] : k \in idle}
                                       /\ answered[m]]
        /\ pc' = [k \in Keys |-> IF k \in idle THEN "hooks"
                                 ELSE IF k \in free THEN "none" ELSE pc[k]]
        /\ cur' = [k \in Keys |-> IF k \in idle THEN next[k]
                                  ELSE IF k \in free THEN None ELSE cur[k]]
        /\ stale' = [k \in Keys |-> k \notin free /\ stale[k]]
  BY DEF StartChains
<1> DEFINE taken == {next[k] : k \in idle}
<1>2. \A k \in idle : /\ k \in Keys /\ k \in free /\ next[k] \in Msgs
                      /\ t[next[k]].status = "pending" /\ mail[next[k]].key = k
  BY <1>1 DEF First, Waiting
<1>3. ASSUME NEW m \in taken
      PROVE  /\ m \in Msgs /\ t[m].status = "pending" /\ mail[m].key \in idle
             /\ mail[m].key \in free /\ mail[m].key \in Keys
             /\ next[mail[m].key] = m /\ m \in First(t, mail[m].key)
             /\ row'[m].status = "processing" /\ ~ answered'[m]
  <2>1. PICK k \in idle : m = next[k]
    BY <1>3
  <2>2. m \in Msgs /\ t[m].status = "pending" /\ mail[m].key = k /\ m \in First(t, k)
    BY <1>1, <1>2, <2>1
  <2>3. row'[m] = Take(t[m]) /\ ~ answered'[m]
    BY <1>1, <1>3, <2>2
  <2>4. row'[m].status = "processing"
    BY <2>2, <2>3, TakeWaiting
  <2>5. k \in free /\ k \in Keys /\ next[k] = m
    BY <1>2, <2>1
  <2>6. QED  BY <2>1, <2>2, <2>3, <2>4, <2>5
<1>4. ASSUME NEW m \in Msgs, m \notin taken
      PROVE  row'[m] = t[m] /\ answered'[m] = answered[m]
  BY <1>1, <1>4 DEF TypeOK
<1> HIDE DEF taken
<1>5. ASSUME NEW m \in taken PROVE LaneClear(m)
  <2>1. \A n \in Msgs : row'[n].status = "pending" => t[n].status = "pending" /\ n # m
    BY <1>3, <1>4
  <2>2. QED  BY <1>3, <2>1, FirstClears
<1>6. ASSUME NEW k \in Keys \ free
      PROVE  pc'[k] = pc[k] /\ cur'[k] = cur[k] /\ stale'[k] = stale[k]
  BY <1>1 DEF TypeOK
<1>7. ASSUME NEW k \in free PROVE ~ stale'[k] /\ (pc'[k] = "none" \/ JustTook(k))
  <2>1. CASE k \in idle
    <3>1. next[k] \in taken
      BY <2>1 DEF taken
    <3>2. pc'[k] = "hooks" /\ cur'[k] = next[k] /\ ~ stale'[k]
      BY <1>1, <2>1
    <3>3. QED  BY <1>3, <3>1, <3>2 DEF JustTook
  <2>2. CASE k \notin idle
    BY <1>1, <2>2
  <2>3. QED  BY <2>1, <2>2
<1>8. QED  BY <1>3, <1>4, <1>5, <1>6, <1>7 DEF Taken

LEMMA TurnEffect ==
  ASSUME TypeOK, NEW t \in [Msgs -> Row], NEW k \in Keys, NextTurn(k, t)
  PROVE  /\ \A m \in Msgs :
              \/ row'[m] = t[m] /\ answered'[m] = answered[m]
              \/ Taken(m, t, {k}) /\ LaneClear(m)
              \/ /\ stale[k] /\ t[m].status = "pending"
                 /\ row'[m].status = "dead" /\ answered'[m] = answered[m]
         /\ \A j \in Keys \ {k} : pc'[j] = pc[j] /\ cur'[j] = cur[j]
         /\ pc'[k] = "winding" \/ JustTook(k)
<1>1. CASE /\ row' = t /\ pc' = [pc EXCEPT ![k] = "winding"]
           /\ cur' = [cur EXCEPT ![k] = None] /\ UNCHANGED answered
  BY <1>1 DEF TypeOK
<1>2. CASE /\ stale[k]
           /\ row' = [m \in Msgs |-> IF m \in Waiting(t, k) THEN Drain(t[m]) ELSE t[m]]
           /\ pc' = [pc EXCEPT ![k] = "winding"]
           /\ cur' = [cur EXCEPT ![k] = None] /\ UNCHANGED answered
  <2>1. ASSUME NEW m \in Msgs
        PROVE  row'[m] = t[m] \/ (t[m].status = "pending" /\ row'[m].status = "dead")
    <3>1. t[m] \in Row
      OBVIOUS
    <3>2. QED  BY <1>2, <3>1 DEF Waiting, Drain, Row
  <2>2. QED  BY <1>2, <2>1 DEF TypeOK
<1>3. CASE \E m \in First(t, k) :
             /\ row' = [t EXCEPT ![m] = Take(@)]
             /\ cur' = [cur EXCEPT ![k] = m]
             /\ answered' = [answered EXCEPT ![m] = FALSE]
             /\ pc' = [pc EXCEPT ![k] = "hooks"]
  <2>1. PICK n \in First(t, k) :
               /\ row' = [t EXCEPT ![n] = Take(@)]
               /\ cur' = [cur EXCEPT ![k] = n]
               /\ answered' = [answered EXCEPT ![n] = FALSE]
               /\ pc' = [pc EXCEPT ![k] = "hooks"]
    BY <1>3
  <2>2. n \in Msgs /\ t[n].status = "pending" /\ mail[n].key = k
    BY DEF First, Waiting
  <2>3. row'[n].status = "processing" /\ ~ answered'[n]
    BY <2>1, <2>2, TakeWaiting DEF TypeOK
  <2>4. \A m \in Msgs : m # n => row'[m] = t[m] /\ answered'[m] = answered[m]
    BY <2>1 DEF TypeOK
  <2>5. LaneClear(n)
    BY <2>2, <2>3, <2>4, FirstClears
  <2>6. JustTook(k) /\ \A j \in Keys \ {k} : pc'[j] = pc[j] /\ cur'[j] = cur[j]
    BY <2>1, <2>2, <2>3 DEF JustTook, TypeOK
  <2>7. QED  BY <2>2, <2>3, <2>4, <2>5, <2>6 DEF Taken
<1>4. QED  BY <1>1, <1>2, <1>3 DEF NextTurn

LEMMA LaneStep ==
  ASSUME QueueInv, [Next]_vars, NEW m \in Msgs,
         row[m].status # "processing", row'[m].status = "processing"
  PROVE  LaneClear(m)
<1>1. TypeOK /\ row \in [Msgs -> Row] /\ row[m] \in Row
  BY DEF QueueInv, TypeOK
<1>2. row'[m] \notin {row[m], Claim(row[m]), Cancel(row[m]), Interrupt(row[m]),
                      DeadLetter(row[m]), Fail(row[m]), Recover(row[m]),
                      DeleteDead(row[m]), PruneSettled(row[m])}
  BY <1>1 DEF Claim, Cancel, Interrupt, DeadLetter, Fail, FailOutcome, Recover,
              DeleteDead, PruneSettled, Gone, Blank, To, Row
<1>3. ASSUME NEW free \in SUBSET Keys, NEW n \in Msgs,
             NEW s \in {row[n], Insert(row[n]), RetryDead(row[n])},
             StartChains([row EXCEPT ![n] = s], free)
      PROVE  LaneClear(m)
  <2> DEFINE t == [row EXCEPT ![n] = s]
  <2>1. s \in Row /\ (s.status = "processing" => row[n].status = "processing")
    <3>1. row[n] \in Row
      BY <1>1
    <3>2. s \in Row
      BY <3>1, RowTypes
    <3>3. QED  BY <3>1, <3>2 DEF Insert, RetryDead, Blank, To, Row
  <2>2. t \in [Msgs -> Row] /\ t[m].status # "processing"
    BY <1>1, <2>1
  <2> HIDE DEF t
  <2>3. row'[m] # t[m]
    BY <2>2
  <2>4. StartChains(t, free)
    BY <1>3 DEF t
  <2>5. QED  BY <1>1, <2>2, <2>3, <2>4, StartEffect
<1>4. ASSUME NEW k \in Keys, pc[k] \in {"done", "threw"},
             NEW s \in {Complete(row[cur[k]]), Fail(row[cur[k]])},
             NextTurn(k, [row EXCEPT ![cur[k]] = s])
      PROVE  LaneClear(m)
  <2> DEFINE t == [row EXCEPT ![cur[k]] = s]
  <2>1. cur[k] \in Msgs /\ row[cur[k]] \in Row /\ row[cur[k]].retries <= MaxRetries
    BY <1>1, <1>4 DEF QueueInv, ChainHoldsRow, HeldRetries, Busy
  <2>2. s \in Row
    BY <2>1, RowTypes
  <2>3. s.status # "processing"
    BY <2>1 DEF Complete, Fail, FailOutcome, To, Row, Status, Stored, Active, Settled
  <2>4. t \in [Msgs -> Row] /\ t[m].status # "processing"
    BY <1>1, <2>1, <2>2, <2>3
  <2> HIDE DEF t
  <2>5. row'[m] # t[m] /\ row'[m].status # "dead"
    BY <2>4
  <2>6. NextTurn(k, t)
    BY <1>4 DEF t
  <2>7. QED  BY <1>1, <2>4, <2>5, <2>6, TurnEffect
<1>5. CASE \E k \in Keys : ChainStep(k)
  <2>1. PICK k \in Keys : ChainStep(k)
    BY <1>5
  <2>2. ~ (SpawnCli(k) \/ LaunchFails(k) \/ Throw(k) \/ Deliver(k))
    BY <1>2 DEF SpawnCli, LaunchFails, Throw, Deliver, rowVars
  <2>3. ~ Settle(k)
    <3>1. Settle(k) => row' = row \/ row' = [row EXCEPT ![cur[k]] = DeadLetter(@)]
      BY DEF Settle
    <3>2. QED  BY <1>1, <1>2, <3>1
  <2>4. CASE Finish(k) \/ FailTurn(k)
    BY <1>4, <2>4 DEF Finish, FailTurn
  <2>5. CASE WindDown(k)
    <3>1. FreeKeys \cup {k} \in SUBSET Keys /\ [row EXCEPT ![m] = row[m]] = row
      BY <1>1 DEF FreeKeys
    <3>2. StartChains(row, FreeKeys \cup {k})
      BY <2>5 DEF WindDown
    <3>3. QED  BY <1>3, <3>1, <3>2
  <2>6. QED  BY <2>1, <2>2, <2>3, <2>4, <2>5 DEF ChainStep
<1>6. CASE \E n \in Msgs : MessageStep(n)
  <2>1. PICK n \in Msgs : MessageStep(n)
    BY <1>6
  <2>2. FreeKeys \in SUBSET Keys
    BY DEF FreeKeys
  <2>3. CASE EnqueueMessage(n) \/ RetryDeadMessage(n)
    BY <1>3, <2>2, <2>3 DEF EnqueueMessage, RetryDeadMessage
  <2>4. ~ (CancelMessage(n) \/ KillMessage(n) \/ DeleteDeadMessage(n))
    BY <1>1, <1>2 DEF CancelMessage, KillMessage, DeleteDeadMessage
  <2>5. QED  BY <2>1, <2>3, <2>4 DEF MessageStep
<1>7. CASE Poll
  <2>1. FreeKeys \in SUBSET Keys /\ [row EXCEPT ![m] = row[m]] = row
    BY <1>1 DEF FreeKeys
  <2>2. QED  BY <1>3, <1>7, <2>1 DEF Poll
<1>8. ~ (Prune \/ Watchdog \/ Restart)
  BY <1>2 DEF Prune, Watchdog, Restart
<1>9. ~ Crash
  <2>1. Crash => row' = row \/ \E n \in Msgs : row' = [row EXCEPT ![n] = Claim(@)]
    BY DEF Crash, First, Waiting
  <2>2. QED  BY <1>1, <1>2, <2>1
<1>10. row' # row
  BY <1>2
<1>11. QED
  BY <1>5, <1>6, <1>7, <1>8, <1>9, <1>10
  DEF Next, Shutdown, Exit, OrphanEnds, rowVars, vars

\* "A person typing never waits behind a queue of background wakes", for any
\* number of messages, chains and claims.
THEOREM PersonFirst == Spec => UserLaneFirst
<1>1. QueueInv /\ [Next]_vars =>
        [\A m \in Msgs :
           /\ row[m].status # "processing"
           /\ row'[m].status = "processing"
           /\ mail[m].lane = "background"
           => \A n \in Msgs : /\ mail[n].key = mail[m].key
                              /\ mail[n].lane = "user"
                              => row'[n].status # "pending"]_vars
  BY LaneStep DEF LaneClear
<1>2. QED  BY <1>1, QueueInvariant, PTL DEF Spec, UserLaneFirst

-----------------------------------------------------------------------------
(***************************************************************************)
(* One answer for one message, where nothing but the run itself ends it.   *)
(***************************************************************************)
Undisturbed ==
  scenario \cap {"kill", "watchdog", "crash", "shutdown", "retry"} = {}

\* Only a run that has delivered has answered, and its row does not wait.
\* "free": the chains about to take their next row.
Unanswered(t, free) ==
  /\ \A m \in Msgs : t[m].status \in {"new", "pending"} => ~ answered[m]
  /\ \A k \in Keys \ free : pc[k] \in Busy =>
       /\ t[cur[k]].status # "pending"
       /\ pc[k] # "done" => ~ answered[cur[k]]

AnswerInv == Undisturbed => mode = "up" /\ Unanswered(row, {})

\* The chains that a claim leaves alone keep their own rows.
HeldApart(free) ==
  \A k \in Keys \ free : pc[k] \in Busy => cur[k] \in Msgs /\ mail[cur[k]].key = k

LEMMA StartUnanswered ==
  ASSUME TypeOK, NEW t \in [Msgs -> Row], NEW free \in SUBSET Keys, HeldApart(free),
         StartChains(t, free), Unanswered(t, free)
  PROVE  Unanswered(row, {})'
<1>1. ASSUME NEW m \in Msgs, row'[m].status \in {"new", "pending"}
      PROVE  ~ answered'[m]
  <2>1. ~ Taken(m, t, free)
    BY <1>1 DEF Taken
  <2>2. row'[m] = t[m] /\ answered'[m] = answered[m]
    BY <2>1, StartEffect
  <2>3. QED  BY <1>1, <2>2 DEF Unanswered
<1>2. ASSUME NEW k \in Keys, pc'[k] \in Busy
      PROVE  /\ row'[cur'[k]].status # "pending"
             /\ pc'[k] # "done" => ~ answered'[cur'[k]]
  <2>1. CASE k \in free
    BY <1>2, <2>1, StartEffect DEF JustTook, Busy
  <2>2. CASE k \notin free
    <3>1. pc'[k] = pc[k] /\ cur'[k] = cur[k] /\ cur[k] \in Msgs /\ mail[cur[k]].key = k
      BY <1>2, <2>2, StartEffect DEF HeldApart
    <3>2. row'[cur[k]] = t[cur[k]] /\ answered'[cur[k]] = answered[cur[k]]
      BY <2>2, <3>1, StartEffect DEF Taken
    <3>3. QED  BY <1>2, <2>2, <3>1, <3>2 DEF Unanswered
  <2>3. QED  BY <2>1, <2>2
<1>3. QED  BY <1>1, <1>2 DEF Unanswered

LEMMA TurnUnanswered ==
  ASSUME TypeOK, NEW t \in [Msgs -> Row], NEW k \in Keys, HeldApart({k}),
         NextTurn(k, t), Unanswered(t, {k})
  PROVE  Unanswered(row, {})'
<1>1. ASSUME NEW m \in Msgs, row'[m].status \in {"new", "pending"}
      PROVE  ~ answered'[m]
  BY <1>1, TurnEffect DEF Taken, Unanswered
<1>2. ASSUME NEW j \in Keys, pc'[j] \in Busy
      PROVE  /\ row'[cur'[j]].status # "pending"
             /\ pc'[j] # "done" => ~ answered'[cur'[j]]
  <2>1. CASE j = k
    BY <1>2, <2>1, TurnEffect DEF JustTook, Busy
  <2>2. CASE j # k
    <3>1. pc'[j] = pc[j] /\ cur'[j] = cur[j] /\ cur[j] \in Msgs /\ mail[cur[j]].key = j
      BY <1>2, <2>2, TurnEffect DEF HeldApart
    <3>2. t[cur[j]].status # "pending"
      BY <1>2, <2>2, <3>1 DEF Unanswered
    <3>3. row'[cur[j]] = t[cur[j]] /\ answered'[cur[j]] = answered[cur[j]]
      <4>1. ~ Taken(cur[j], t, {k})
        BY <2>2, <3>1 DEF Taken
      <4>2. QED  BY <3>1, <3>2, <4>1, TurnEffect
    <3>4. QED  BY <1>2, <2>2, <3>1, <3>2, <3>3 DEF Unanswered
  <2>3. QED  BY <2>1, <2>2
<1>3. QED  BY <1>1, <1>2 DEF Unanswered

\* What every step from the inductive invariant may use.
LEMMA HeldParts ==
  ASSUME QueueInv
  PROVE  /\ row \in [Msgs -> Row]
         /\ \A k \in Keys : pc[k] \in Busy =>
              /\ cur[k] \in Msgs /\ mail[cur[k]].key = k
              /\ row[cur[k]] \in Row
              /\ row[cur[k]].status \notin {"new", "queued", "completed"}
              /\ row[cur[k]].retries <= MaxRetries
         /\ \A free \in SUBSET Keys : HeldApart(free)
         /\ \A free : Unanswered(row, {}) => Unanswered(row, free)
<1>1. row \in [Msgs -> Row]
  BY DEF QueueInv, TypeOK
<1>2. \A k \in Keys : pc[k] \in Busy =>
        /\ cur[k] \in Msgs /\ mail[cur[k]].key = k
        /\ row[cur[k]].status \notin {"new", "queued", "completed"}
        /\ row[cur[k]].retries <= MaxRetries
  BY DEF QueueInv, ChainHoldsRow, HeldRetries
<1>3. QED  BY <1>1, <1>2 DEF HeldApart, Unanswered

LEMMA ChainAnswer ==
  ASSUME QueueInv, Unanswered(row, {}), NEW k \in Keys, ChainStep(k)
  PROVE  Unanswered(row, {})'
<1>1. TypeOK /\ row \in [Msgs -> Row]
  BY DEF QueueInv, TypeOK
<1>2. CASE SpawnCli(k) \/ LaunchFails(k) \/ Throw(k)
  <2>1. /\ row' = row /\ answered' = answered /\ cur' = cur
        /\ pc[k] \in {"hooks", "deliver"}
        /\ \E p \in {"run", "threw"} : pc' = [pc EXCEPT ![k] = p]
    BY <1>2 DEF SpawnCli, LaunchFails, Throw, rowVars, outVars
  <2>2. QED  BY <1>1, <2>1 DEF Unanswered, TypeOK, Busy
<1>3. CASE Settle(k)
  <2>1. /\ pc[k] = "run" /\ cur' = cur /\ cur[k] \in Msgs /\ row[cur[k]] \in Row
        /\ row[cur[k]].status # "pending"
    BY <1>3, HeldParts DEF Settle, Busy, Unanswered
  <2>2. /\ \A m \in Msgs : row'[m] = row[m] \/ (m = cur[k] /\ row'[m] = DeadLetter(row[m]))
        /\ \/ answered' = answered
           \/ /\ answered' = [answered EXCEPT ![cur[k]] = TRUE]
              /\ row' = row /\ pc' = [pc EXCEPT ![k] = "done"]
        /\ \E p \in {"done", "deliver"} : pc' = [pc EXCEPT ![k] = p]
    BY <1>1, <1>3 DEF Settle, outVars
  <2>3. \A m \in Msgs : row'[m].status \in {"new", "pending"} => row'[m] = row[m]
    <3>1. \A r \in Row : DeadLetter(r) = r \/ DeadLetter(r).status = "dead"
      BY DEF DeadLetter, Row
    <3>2. QED  BY <1>1, <2>2, <3>1
  <2>4. \A m \in Msgs : row'[m].status \in {"new", "pending"} => ~ answered'[m]
    <3>1. row[cur[k]].status \notin {"new", "pending"}
      BY <1>3, HeldParts, <2>1 DEF Settle, Busy
    <3>2. QED  BY <1>1, <2>1, <2>2, <2>3, <3>1 DEF Unanswered, TypeOK
  <2>5. ASSUME NEW j \in Keys, pc'[j] \in Busy
        PROVE  /\ row'[cur'[j]].status # "pending"
               /\ pc'[j] # "done" => ~ answered'[cur'[j]]
    <3>1. pc[j] \in Busy /\ cur[j] \in Msgs /\ mail[cur[j]].key = j
      <4>1. j # k => pc'[j] = pc[j]
        BY <1>1, <2>2 DEF TypeOK
      <4>2. pc[j] \in Busy
        BY <2>1, <2>5, <4>1 DEF Busy
      <4>3. QED  BY <4>2, HeldParts
    <3>2. row[cur[j]].status # "pending"
      BY <3>1 DEF Unanswered
    <3>3. row'[cur[j]].status # "pending"
      BY <2>3, <3>1, <3>2
    <3>4. ASSUME pc'[j] # "done"
          PROVE  ~ answered'[cur[j]]
      <4>1. pc[j] # "done" /\ ~ answered[cur[j]]
        BY <1>1, <2>1, <2>2, <3>1, <3>4 DEF Unanswered, TypeOK
      <4>2. j # k => cur[j] # cur[k]
        BY <1>3, <3>1, HeldParts, <2>1 DEF Busy
      <4>3. QED  BY <1>1, <2>1, <2>2, <3>1, <3>4, <4>1, <4>2 DEF TypeOK
    <3>5. QED  BY <2>1, <3>3, <3>4
  <2>6. QED  BY <2>4, <2>5 DEF Unanswered
<1>4. CASE Deliver(k)
  <2>1. /\ pc[k] = "deliver" /\ cur[k] \in Msgs /\ mail[cur[k]].key = k
        /\ row[cur[k]].status \notin {"new", "pending"}
        /\ row' = row /\ cur' = cur /\ pc' = [pc EXCEPT ![k] = "done"]
        /\ answered' = [answered EXCEPT ![cur[k]] = TRUE]
    BY <1>4, HeldParts DEF Deliver, rowVars, Busy, Unanswered
  <2>2. \A j \in Keys : pc[j] \in Busy /\ j # k => cur[j] # cur[k] /\ cur[j] \in Msgs
    BY <2>1, HeldParts
  <2>3. QED  BY <1>1, <2>1, <2>2 DEF Unanswered, TypeOK, Busy
<1>5. CASE Finish(k) \/ FailTurn(k)
  <2>1. PICK s \in {Complete(row[cur[k]]), Fail(row[cur[k]])} :
          /\ NextTurn(k, [row EXCEPT ![cur[k]] = s])
          /\ \/ s = Complete(row[cur[k]]) /\ pc[k] = "done"
             \/ pc[k] = "threw"
    BY <1>5 DEF Finish, FailTurn
  <2> DEFINE t == [row EXCEPT ![cur[k]] = s]
  <2>2. /\ cur[k] \in Msgs /\ mail[cur[k]].key = k /\ row[cur[k]] \in Row
        /\ row[cur[k]].status \notin {"new", "queued", "completed", "pending"}
        /\ row[cur[k]].retries <= MaxRetries /\ pc[k] \in Busy
    BY <2>1, HeldParts DEF Busy, Unanswered
  <2>3. t \in [Msgs -> Row]
    BY <1>1, <2>1, <2>2, RowTypes
  <2>4. s.status \in {"new", "pending"} => ~ answered[cur[k]]
    <3>1. Complete(row[cur[k]]).status \notin {"new", "pending"}
      BY <2>2 DEF Complete, To, Row
    <3>2. pc[k] = "threw" => ~ answered[cur[k]]
      BY <2>2 DEF Unanswered
    <3>3. QED  BY <2>1, <3>1, <3>2
  <2>5. \A j \in Keys \ {k} : pc[j] \in Busy => cur[j] \in Msgs /\ cur[j] # cur[k]
    BY <2>2, HeldParts
  <2>6. Unanswered(t, {k})
    BY <1>1, <2>2, <2>4, <2>5 DEF Unanswered
  <2>7. HeldApart({k}) /\ NextTurn(k, t)
    BY <2>1, HeldParts
  <2> HIDE DEF t
  <2>8. QED  BY <1>1, <2>3, <2>6, <2>7, TurnUnanswered
<1>6. CASE WindDown(k)
  <2>1. FreeKeys \cup {k} \in SUBSET Keys /\ StartChains(row, FreeKeys \cup {k})
    BY <1>6 DEF WindDown, FreeKeys
  <2>2. QED  BY <1>1, <2>1, HeldParts, StartUnanswered
<1>7. QED  BY <1>2, <1>3, <1>4, <1>5, <1>6 DEF ChainStep

LEMMA OutsideAnswer ==
  ASSUME QueueInv, Unanswered(row, {}), Undisturbed,
         (\E m \in Msgs : MessageStep(m)) \/ Poll \/ Prune \/ Watchdog
  PROVE  Unanswered(row, {})'
<1>1. TypeOK /\ row \in [Msgs -> Row] /\ FreeKeys \in SUBSET Keys
  BY DEF QueueInv, TypeOK, FreeKeys
<1>2. CASE \E m \in Msgs : EnqueueMessage(m)
  <2>1. PICK m \in Msgs : EnqueueMessage(m)
    BY <1>2
  <2> DEFINE t == [row EXCEPT ![m] = Insert(@)]
  <2>2. t \in [Msgs -> Row] /\ row[m].status = "new"
    BY <1>1, <2>1, RowTypes DEF EnqueueMessage
  <2>3. \A k \in Keys : pc[k] \in Busy => cur[k] \in Msgs /\ cur[k] # m
    BY <2>2, HeldParts
  <2>4. Unanswered(t, FreeKeys) /\ StartChains(t, FreeKeys)
    BY <1>1, <2>1, <2>2, <2>3 DEF Unanswered, EnqueueMessage
  <2> HIDE DEF t
  <2>5. QED  BY <1>1, <2>2, <2>4, HeldParts, StartUnanswered
<1>3. CASE Poll
  <2>1. StartChains(row, FreeKeys)
    BY <1>3 DEF Poll
  <2>2. QED  BY <1>1, <2>1, HeldParts, StartUnanswered
<1>4. CASE Prune \/ \E m \in Msgs : CancelMessage(m) \/ DeleteDeadMessage(m)
  <2>1. /\ \A n \in Msgs : row'[n] = row[n] \/ row'[n].status \in {"cancelled", "gone"}
        /\ UNCHANGED <<pc, cur, answered>>
    <3>1. CASE Prune
      BY <1>1, <3>1 DEF Prune, PruneSettled, Gone, Blank, chainVars, outVars
    <3>2. CASE \E m \in Msgs : CancelMessage(m)
      <4>1. PICK m \in Msgs : CancelMessage(m)
        BY <3>2
      <4>2. Cancel(row[m]) = To(row[m], "cancelled") /\ row[m] \in Row
        BY <1>1, <4>1 DEF CancelMessage, Cancel
      <4>3. Cancel(row[m]).status = "cancelled"
        BY <4>2 DEF To, Row
      <4>4. QED  BY <1>1, <4>1, <4>3 DEF CancelMessage, chainVars
    <3>3. CASE \E m \in Msgs : DeleteDeadMessage(m)
      BY <1>1, <3>3 DEF DeleteDeadMessage, DeleteDead, Gone, Blank, chainVars, outVars
    <3>4. QED  BY <1>4, <3>1, <3>2, <3>3
  <2>2. \A k \in Keys : pc[k] \in Busy => cur[k] \in Msgs
    BY HeldParts
  <2>3. QED  BY <2>1, <2>2 DEF Unanswered
<1>5. ~ Watchdog /\ ~ \E m \in Msgs : KillMessage(m) \/ RetryDeadMessage(m)
  BY DEF Undisturbed, Watchdog, KillMessage, RetryDeadMessage
<1>6. QED  BY <1>2, <1>3, <1>4, <1>5 DEF MessageStep

\* Only the death of the process, and its restart, change the mode.
LEMMA ScenarioStays == [Next]_vars => scenario' = scenario
BY DEF Next, vars, ChainStep, SpawnCli, LaunchFails, Throw, Settle, Deliver, Finish,
       FailTurn, WindDown, MessageStep, EnqueueMessage, CancelMessage, KillMessage,
       RetryDeadMessage, DeleteDeadMessage, Poll, Prune, Watchdog, Crash, ProcessGone,
       Shutdown, Exit, Restart, OrphanEnds

LEMMA WorkKeepsMode ==
  ASSUME \/ \E k \in Keys : ChainStep(k)
         \/ \E m \in Msgs : MessageStep(m)
         \/ Poll \/ Prune \/ Watchdog
  PROVE  mode' = mode
BY DEF ChainStep, SpawnCli, LaunchFails, Throw, Settle, Deliver, Finish, FailTurn,
       WindDown, MessageStep, EnqueueMessage, CancelMessage, KillMessage,
       RetryDeadMessage, DeleteDeadMessage, Poll, Prune, Watchdog

LEMMA StepAnswer == QueueInv /\ AnswerInv /\ [Next]_vars => AnswerInv'
<1> SUFFICES ASSUME QueueInv, AnswerInv, [Next]_vars, Undisturbed'
             PROVE  mode' = "up" /\ Unanswered(row, {})'
  BY DEF AnswerInv
<1>1. scenario' = scenario
  BY ScenarioStays
<1>2. Undisturbed /\ mode = "up" /\ Unanswered(row, {})
  BY <1>1 DEF Undisturbed, AnswerInv
<1>3. CASE \E k \in Keys : ChainStep(k)
  BY <1>2, <1>3, WorkKeepsMode, ChainAnswer
<1>4. CASE (\E m \in Msgs : MessageStep(m)) \/ Poll \/ Prune \/ Watchdog
  BY <1>2, <1>4, WorkKeepsMode, OutsideAnswer
<1>5. ~ (Crash \/ Shutdown \/ Exit \/ Restart)
  BY <1>2 DEF Undisturbed, Crash, Shutdown, Exit, Restart
<1>6. CASE \E a \in Agents : OrphanEnds(a)
  BY <1>2, <1>6 DEF OrphanEnds, rowVars, chainVars, outVars, Unanswered
<1>7. CASE UNCHANGED vars
  BY <1>2, <1>7 DEF vars, rowVars, chainVars, outVars, Unanswered
<1>8. QED  BY <1>3, <1>4, <1>5, <1>6, <1>7 DEF Next

\* Without a kill, a pause, a retry or a restart no message waits again after it
\* was answered, however often its runs fail, for any number of them.
THEOREM OneAnswer == Spec => []AnsweredOnce
<1>1. Init => AnswerInv
  BY DEF Init, AnswerInv, Unanswered, Busy
<1>2. AnswerInv => AnsweredOnce
  BY DEF AnswerInv, AnsweredOnce, Undisturbed, Unanswered
<1>3. QED  BY <1>1, <1>2, StepAnswer, QueueInvariant, PTL DEF Spec
-----------------------------------------------------------------------------
(***************************************************************************)
(* Whoever waits for a message's end is told, where no process dies.       *)
(***************************************************************************)
Watched == scenario \cap {"kill", "crash", "shutdown"} = {}

\* A run that has been looked at either had its end announced or lost its row;
\* so what the chain then completes was announced.
Told(t, heard, free) ==
  /\ \A m \in Msgs : t[m].status \in Settled => heard[m]
  /\ \A k \in Keys \ free :
       pc[k] \in {"deliver", "done"} /\ t[cur[k]].status = "processing"
         => heard[cur[k]]

\* Without a kill no chain drains its queue unheard.
ToldInv ==
  Watched => mode = "up" /\ (\A k \in Keys : ~ stale[k]) /\ Told(row, closed, {})

LEMMA StartTold ==
  ASSUME TypeOK, NEW t \in [Msgs -> Row], NEW free \in SUBSET Keys, HeldApart(free),
         StartChains(t, free), Told(t, closed, free), closed' = closed,
         \A k \in Keys : ~ stale[k]
  PROVE  Told(row, closed, {})' /\ \A k \in Keys : ~ stale'[k]
<1>1. ASSUME NEW m \in Msgs, row'[m].status \in Settled
      PROVE  closed'[m]
  <2>1. ~ Taken(m, t, free)
    BY <1>1 DEF Taken, Settled
  <2>2. row'[m] = t[m]
    BY <2>1, StartEffect
  <2>3. QED  BY <1>1, <2>2 DEF Told
<1>2. ASSUME NEW k \in Keys, pc'[k] \in {"deliver", "done"},
             row'[cur'[k]].status = "processing"
      PROVE  closed'[cur'[k]]
  <2>1. k \notin free
    BY <1>2, StartEffect DEF JustTook
  <2>2. pc'[k] = pc[k] /\ cur'[k] = cur[k]
    BY <2>1, StartEffect
  <2>3. cur[k] \in Msgs /\ ~ Taken(cur[k], t, free)
    BY <1>2, <2>1, <2>2 DEF HeldApart, Busy, Taken
  <2>4. row'[cur[k]] = t[cur[k]]
    BY <2>3, StartEffect
  <2>5. QED  BY <1>2, <2>1, <2>2, <2>4 DEF Told
<1>3. \A k \in Keys : ~ stale'[k]
  BY StartEffect
<1>4. QED  BY <1>1, <1>2, <1>3 DEF Told

LEMMA TurnTold ==
  ASSUME TypeOK, NEW t \in [Msgs -> Row], NEW k \in Keys, HeldApart({k}),
         NextTurn(k, t), Told(t, closed', {k}), ~ stale[k]
  PROVE  Told(row, closed, {})'
<1>1. \A m \in Msgs : row'[m] = t[m] \/ Taken(m, t, {k})
  BY TurnEffect
<1>2. ASSUME NEW m \in Msgs, row'[m].status \in Settled
      PROVE  closed'[m]
  <2>1. row'[m] = t[m]
    BY <1>1, <1>2 DEF Taken, Settled
  <2>2. QED  BY <1>2, <2>1 DEF Told
<1>3. ASSUME NEW j \in Keys, pc'[j] \in {"deliver", "done"},
             row'[cur'[j]].status = "processing"
      PROVE  closed'[cur'[j]]
  <2>1. j # k
    BY <1>3, TurnEffect DEF JustTook
  <2>2. pc'[j] = pc[j] /\ cur'[j] = cur[j]
    BY <2>1, TurnEffect
  <2>3. cur[j] \in Msgs /\ row'[cur[j]] = t[cur[j]]
    BY <1>1, <1>3, <2>1, <2>2 DEF HeldApart, Busy, Taken
  <2>4. QED  BY <1>3, <2>1, <2>2, <2>3 DEF Told
<1>4. QED  BY <1>2, <1>3 DEF Told

LEMMA ChainTold ==
  ASSUME QueueInv, Told(row, closed, {}), \A k \in Keys : ~ stale[k],
         NEW k \in Keys, ChainStep(k)
  PROVE  Told(row, closed, {})' /\ \A j \in Keys : ~ stale'[j]
<1>1. TypeOK /\ row \in [Msgs -> Row] /\ closed \in [Msgs -> BOOLEAN]
  BY DEF QueueInv, TypeOK
<1>2. CASE SpawnCli(k) \/ LaunchFails(k) \/ Throw(k)
  <2>1. /\ row' = row /\ closed' = closed /\ cur' = cur /\ stale' = stale
        /\ \E p \in {"run", "threw"} : pc' = [pc EXCEPT ![k] = p]
    BY <1>2 DEF SpawnCli, LaunchFails, Throw, rowVars, outVars
  <2>2. QED  BY <1>1, <2>1 DEF Told, TypeOK
<1>3. CASE Settle(k)
  <2>1. /\ pc[k] = "run" /\ cur' = cur /\ cur[k] \in Msgs /\ row[cur[k]] \in Row
        /\ mail[cur[k]].key = k /\ stale' = stale
    BY <1>3, HeldParts DEF Settle, Busy
  <2>2. /\ \A m \in Msgs : m # cur[k] => row'[m] = row[m]
        /\ \A m \in Msgs : closed[m] => closed'[m]
        /\ \A j \in Keys : j # k => pc'[j] = pc[j]
    BY <1>1, <1>3, <2>1 DEF Settle, Announce, TypeOK, outVars
  <2>3. \/ row' = row /\ row[cur[k]].status \in {"cancelled", "pending"}
        \/ closed'[cur[k]]
    BY <1>1, <1>3, <2>1 DEF Settle, Announce
  <2>4. \A m \in Msgs : row'[m].status \in Settled => closed'[m]
    BY <2>2, <2>3 DEF Told
  <2>5. ASSUME NEW j \in Keys, pc'[j] \in {"deliver", "done"},
               row'[cur'[j]].status = "processing"
        PROVE  closed'[cur'[j]]
    <3>1. CASE j = k
      BY <2>1, <2>3, <2>5, <3>1
    <3>2. CASE j # k
      <4>1. pc'[j] = pc[j] /\ cur[j] \in Msgs /\ cur[j] # cur[k]
        BY <2>1, <2>2, <2>5, <3>2, HeldParts DEF Busy
      <4>2. QED  BY <2>1, <2>2, <2>5, <4>1 DEF Told
    <3>3. QED  BY <3>1, <3>2
  <2>6. QED  BY <2>1, <2>4, <2>5 DEF Told
<1>4. CASE Deliver(k)
  <2>1. /\ pc[k] = "deliver" /\ row' = row /\ cur' = cur /\ closed' = closed
        /\ stale' = stale /\ pc' = [pc EXCEPT ![k] = "done"]
    BY <1>4 DEF Deliver, rowVars
  <2>2. QED  BY <1>1, <2>1 DEF Told, TypeOK
<1>5. CASE Finish(k) \/ FailTurn(k)
  <2>1. PICK s \in {Complete(row[cur[k]]), Fail(row[cur[k]])} :
          /\ NextTurn(k, [row EXCEPT ![cur[k]] = s])
          /\ \/ s = Complete(row[cur[k]]) /\ pc[k] = "done" /\ closed' = closed
             \/ /\ s = Fail(row[cur[k]]) /\ pc[k] = "threw"
                /\ IF LastFailure(row[cur[k]])
                   THEN Announce(cur[k]) ELSE UNCHANGED closed
    BY <1>5 DEF Finish, FailTurn
  <2> DEFINE t == [row EXCEPT ![cur[k]] = s]
  <2>2. /\ cur[k] \in Msgs /\ mail[cur[k]].key = k /\ row[cur[k]] \in Row
        /\ row[cur[k]].status \notin {"new", "queued", "completed"}
        /\ row[cur[k]].retries <= MaxRetries /\ pc[k] \in Busy
    BY <2>1, HeldParts DEF Busy
  <2>3. t \in [Msgs -> Row]
    BY <1>1, <2>1, <2>2, RowTypes
  <2>4. \A m \in Msgs : closed[m] => closed'[m]
    BY <1>1, <2>1, <2>2 DEF Announce
  <2>5. s.status \in Settled => closed'[cur[k]]
    <3>1. CASE s = Complete(row[cur[k]]) /\ pc[k] = "done"
      <4>1. \/ row[cur[k]].status = "processing"
            \/ s = row[cur[k]]
        BY <3>1 DEF Complete
      <4>2. s.status \in Settled => closed[cur[k]]
        BY <2>2, <3>1, <4>1 DEF Told
      <4>3. QED  BY <2>2, <2>4, <4>2
    <3>2. CASE s = Fail(row[cur[k]])
      <4>1. CASE LastFailure(row[cur[k]])
        <5>1. Announce(cur[k]) \/ (s = Complete(row[cur[k]]) /\ pc[k] = "done")
          BY <2>1, <4>1
        <5>2. QED  BY <1>1, <2>2, <3>1, <5>1 DEF Announce
      <4>2. CASE ~ LastFailure(row[cur[k]])
        <5>1. \/ s = row[cur[k]]
              \/ s.status = "pending"
          BY <2>2, <3>2, <4>2 DEF Fail, FailOutcome, LastFailure, Row, Stored
        <5>2. QED  BY <2>2, <2>4, <5>1 DEF Told, Settled
      <4>3. QED  BY <4>1, <4>2
    <3>3. QED  BY <2>1, <3>1, <3>2
  <2>6. \A j \in Keys \ {k} : pc[j] \in {"deliver", "done"} =>
          cur[j] \in Msgs /\ cur[j] # cur[k]
    BY <2>2, HeldParts DEF Busy
  <2>7. Told(t, closed', {k})
    BY <1>1, <2>2, <2>4, <2>5, <2>6 DEF Told
  <2>8. HeldApart({k}) /\ NextTurn(k, t)
    BY <2>1, HeldParts
  <2>9. stale' = stale
    BY <1>5 DEF Finish, FailTurn
  <2> HIDE DEF t
  <2>10. QED  BY <1>1, <2>3, <2>7, <2>8, <2>9, TurnTold
<1>6. CASE WindDown(k)
  <2>1. /\ FreeKeys \cup {k} \in SUBSET Keys /\ StartChains(row, FreeKeys \cup {k})
        /\ closed' = closed
    BY <1>6 DEF WindDown, FreeKeys
  <2>2. Told(row, closed, FreeKeys \cup {k})
    BY DEF Told
  <2>3. QED  BY <1>1, <2>1, <2>2, HeldParts, StartTold
<1>7. QED  BY <1>2, <1>3, <1>4, <1>5, <1>6 DEF ChainStep

LEMMA OutsideTold ==
  ASSUME QueueInv, Told(row, closed, {}), \A k \in Keys : ~ stale[k], Watched,
         (\E m \in Msgs : MessageStep(m)) \/ Poll \/ Prune \/ Watchdog
  PROVE  Told(row, closed, {})' /\ \A k \in Keys : ~ stale'[k]
<1>1. /\ TypeOK /\ row \in [Msgs -> Row] /\ closed \in [Msgs -> BOOLEAN]
      /\ FreeKeys \in SUBSET Keys
  BY DEF QueueInv, TypeOK, FreeKeys
<1>2. ASSUME NEW m \in Msgs, NEW s \in {row[m], Insert(row[m]), RetryDead(row[m])},
             StartChains([row EXCEPT ![m] = s], FreeKeys), closed' = closed
      PROVE  Told(row, closed, {})' /\ \A k \in Keys : ~ stale'[k]
  <2> DEFINE t == [row EXCEPT ![m] = s]
  <2>1. t \in [Msgs -> Row]
    BY <1>1, RowTypes
  <2>2. s = row[m] \/ s.status = "pending"
    <3>1. row[m] \in Row
      BY <1>1
    <3>2. QED  BY <3>1 DEF Insert, RetryDead, Blank, To, Row
  <2>3. \A n \in Msgs : t[n] = row[n] \/ t[n].status = "pending"
    BY <1>1, <2>2
  <2>4. \A k \in Keys : pc[k] \in {"deliver", "done"} => cur[k] \in Msgs
    BY HeldParts DEF Busy
  <2> HIDE DEF t
  <2>5. Told(t, closed, FreeKeys)
    BY <2>3, <2>4 DEF Told, Settled
  <2>6. StartChains(t, FreeKeys)
    BY <1>2 DEF t
  <2>7. QED  BY <1>1, <1>2, <2>1, <2>5, <2>6, HeldParts, StartTold
<1>3. CASE Poll
  <2>1. StartChains(row, FreeKeys) /\ closed' = closed
    BY <1>3 DEF Poll
  <2>2. Told(row, closed, FreeKeys)
    BY DEF Told
  <2>3. QED  BY <1>1, <2>1, <2>2, HeldParts, StartTold
<1>4. CASE \E m \in Msgs : EnqueueMessage(m) \/ RetryDeadMessage(m)
  <2>1. PICK m \in Msgs : EnqueueMessage(m) \/ RetryDeadMessage(m)
    BY <1>4
  <2>2. PICK s \in {row[m], Insert(row[m]), RetryDead(row[m])} :
          StartChains([row EXCEPT ![m] = s], FreeKeys) /\ closed' = closed
    BY <2>1 DEF EnqueueMessage, RetryDeadMessage
  <2>3. QED  BY <1>2, <2>2
<1>5. CASE Prune \/ Watchdog \/ \E m \in Msgs : CancelMessage(m) \/ DeleteDeadMessage(m)
  <2>1. /\ \A n \in Msgs : \/ row'[n] = row[n]
                           \/ row'[n].status \in {"pending", "gone"}
                           \/ row'[n].status = "cancelled" /\ closed'[n]
        /\ \A n \in Msgs : closed[n] => closed'[n]
        /\ UNCHANGED <<pc, cur, stale>>
    <3>1. CASE Prune
      BY <1>1, <3>1 DEF Prune, PruneSettled, Gone, Blank, chainVars, outVars
    <3>2. CASE \E m \in Msgs : CancelMessage(m)
      <4>1. PICK m \in Msgs : CancelMessage(m)
        BY <3>2
      <4>2. Cancel(row[m]) = To(row[m], "cancelled") /\ row[m] \in Row
        BY <1>1, <4>1 DEF CancelMessage, Cancel
      <4>3. Cancel(row[m]).status = "cancelled"
        BY <4>2 DEF To, Row
      <4>4. row' = [row EXCEPT ![m] = Cancel(@)] /\ closed' = [closed EXCEPT ![m] = TRUE]
        BY <4>1 DEF CancelMessage, Announce
      <4>5. QED  BY <1>1, <4>1, <4>3, <4>4 DEF CancelMessage, chainVars
    <3>3. CASE \E m \in Msgs : DeleteDeadMessage(m)
      BY <1>1, <3>3 DEF DeleteDeadMessage, DeleteDead, Gone, Blank, chainVars, outVars
    <3>4. CASE Watchdog
      <4>1. \A n \in Msgs : row'[n] = row[n] \/ row'[n] = Interrupt(row[n])
        BY <1>1, <3>4 DEF Watchdog
      <4>2. \A r \in Row : Interrupt(r) = r \/ Interrupt(r).status = "pending"
        BY DEF Interrupt, To, Row
      <4>3. QED  BY <1>1, <3>4, <4>1, <4>2 DEF Watchdog, chainVars, outVars
    <3>5. QED  BY <1>5, <3>1, <3>2, <3>3, <3>4
  <2>2. \A k \in Keys : pc[k] \in {"deliver", "done"} => cur[k] \in Msgs
    BY HeldParts DEF Busy
  <2>3. QED  BY <2>1, <2>2 DEF Told, Settled
<1>6. ~ \E m \in Msgs : KillMessage(m)
  BY DEF Watched, KillMessage
<1>7. QED  BY <1>3, <1>4, <1>5, <1>6 DEF MessageStep

LEMMA StepTold == QueueInv /\ ToldInv /\ [Next]_vars => ToldInv'
<1> SUFFICES ASSUME QueueInv, ToldInv, [Next]_vars, Watched'
             PROVE  /\ mode' = "up" /\ \A k \in Keys : ~ stale'[k]
                    /\ Told(row, closed, {})'
  BY DEF ToldInv
<1>1. scenario' = scenario
  BY ScenarioStays
<1>2. Watched /\ mode = "up" /\ (\A k \in Keys : ~ stale[k]) /\ Told(row, closed, {})
  BY <1>1 DEF Watched, ToldInv
<1>3. CASE \E k \in Keys : ChainStep(k)
  BY <1>2, <1>3, WorkKeepsMode, ChainTold
<1>4. CASE (\E m \in Msgs : MessageStep(m)) \/ Poll \/ Prune \/ Watchdog
  BY <1>2, <1>4, WorkKeepsMode, OutsideTold
<1>5. ~ (Crash \/ Shutdown \/ Exit \/ Restart)
  BY <1>2 DEF Watched, Crash, Shutdown, Exit, Restart
<1>6. CASE \E a \in Agents : OrphanEnds(a)
  BY <1>2, <1>6 DEF OrphanEnds, rowVars, chainVars, outVars, Told
<1>7. CASE UNCHANGED vars
  BY <1>2, <1>7 DEF vars, rowVars, chainVars, outVars, Told
<1>8. QED  BY <1>3, <1>4, <1>5, <1>6, <1>7 DEF Next

\* Every message that ends is announced, unless a kill, a crash or a shutdown
\* can happen, for any number of messages and chains.
THEOREM EndsAreTold == Spec => []SettledIsAnnounced
<1>1. Init => ToldInv
  BY DEF Init, ToldInv, Told, Blank, Settled
<1>2. ToldInv => SettledIsAnnounced
  BY DEF ToldInv, SettledIsAnnounced, Watched, Told
<1>3. QED  BY <1>1, <1>2, StepTold, QueueInvariant, PTL DEF Spec

\* What was announced stays so, and only of a row that was taken in.
LEMMA ClosedMoves ==
  ASSUME QueueInv, [Next]_vars, NEW m \in Msgs
  PROVE  /\ closed[m] => closed'[m]
         /\ closed'[m] => closed[m] \/ row[m].status # "new"
<1>1. /\ closed \in [Msgs -> BOOLEAN]
      /\ \A k \in Keys : pc[k] \in Busy =>
           cur[k] \in Msgs /\ row[cur[k]].status # "new"
  BY DEF QueueInv, TypeOK, ChainHoldsRow
<1>2. ASSUME NEW n \in Msgs, closed' = closed \/ Announce(n), row[n].status # "new"
      PROVE  /\ closed[m] => closed'[m]
             /\ closed'[m] => closed[m] \/ row[m].status # "new"
  BY <1>1, <1>2 DEF Announce
<1>3. CASE closed' = closed
  BY <1>3
<1>4. CASE \E k \in Keys : Settle(k) \/ FailTurn(k)
  <2>1. PICK k \in Keys : Settle(k) \/ FailTurn(k)
    BY <1>4
  <2>2. pc[k] \in Busy /\ (closed' = closed \/ Announce(cur[k]))
    BY <2>1 DEF Settle, FailTurn, Busy, outVars
  <2>3. QED  BY <1>1, <1>2, <2>2
<1>5. CASE \E n \in Msgs : CancelMessage(n)
  <2>1. PICK n \in Msgs : CancelMessage(n)
    BY <1>5
  <2>2. Announce(n) /\ row[n].status # "new"
    BY <2>1 DEF CancelMessage, Active
  <2>3. QED  BY <1>2, <2>2
<1>6. CASE \E k \in Keys : ChainStep(k)
  BY <1>3, <1>4, <1>6 DEF ChainStep, SpawnCli, LaunchFails, Throw, Deliver, Finish,
                          WindDown, outVars
<1>7. CASE \E n \in Msgs : MessageStep(n)
  BY <1>3, <1>5, <1>7 DEF MessageStep, EnqueueMessage, KillMessage, RetryDeadMessage,
                          DeleteDeadMessage, outVars
<1>8. CASE \/ Poll \/ Prune \/ Watchdog \/ Crash \/ Shutdown \/ Exit \/ Restart
           \/ \E a \in Agents : OrphanEnds(a)
  BY <1>3, <1>8 DEF Poll, Prune, Watchdog, Crash, ProcessGone, Shutdown, Exit, Restart,
                    OrphanEnds, outVars
<1>9. QED  BY <1>3, <1>6, <1>7, <1>8 DEF Next, vars, outVars

\* Nothing is announced of a row before it is taken in.
ClosedTaken == \A m \in Msgs : closed[m] => row[m].status # "new"

LEMMA ClosedIsTaken == Spec => []ClosedTaken
<1>1. Init => ClosedTaken
  BY DEF Init, ClosedTaken
<1>2. QueueInv /\ ClosedTaken /\ [Next]_vars => ClosedTaken'
  <2> SUFFICES ASSUME QueueInv, ClosedTaken, [Next]_vars, NEW m \in Msgs, closed'[m]
               PROVE  row'[m].status # "new"
    BY DEF ClosedTaken
  <2>1. row[m].status # "new"
    BY ClosedMoves DEF ClosedTaken
  <2>2. Onward(row[m], row'[m])
    BY RowsMove
  <2>3. row[m] \in Row
    BY DEF QueueInv, TypeOK
  <2>4. QED
    BY <2>1, <2>2, <2>3 DEF Onward, StageOf, Lifecycle!After, Row, Status, Stored,
                            Active, Settled
<1>3. QED  BY <1>1, <1>2, QueueInvariant, PTL DEF Spec

\* The daemon implements the life of a message: what the automation engine,
\* modelled over that life, relies on is what the daemon does.
THEOREM ImplementsLifecycle == Spec => LifecycleSpec
<1> DEFINE stage == [m \in Msgs |-> StageOf(row[m].status)]
           rough == scenario \cap {"kill", "crash", "shutdown"} # {}
<1>1. Init => Lifecycle!Init
  BY DEF Init, Lifecycle!Init, StageOf, Blank
<1>2. /\ QueueInv /\ QueueInv' /\ SettledIsAnnounced' /\ ClosedTaken' /\ [Next]_vars
      => [Lifecycle!Next]_<<stage, closed, rough>>
  <2> SUFFICES ASSUME QueueInv, QueueInv', SettledIsAnnounced', ClosedTaken',
                      [Next]_vars
               PROVE  Lifecycle!Next
    OBVIOUS
  <2>1. closed' \in [Msgs -> BOOLEAN]
    BY DEF QueueInv, TypeOK
  <2>2. stage' \in [Msgs -> Lifecycle!Stages]
    BY DEF QueueInv, TypeOK, Row, Status, Stored, Active, Settled, StageOf,
           Lifecycle!Stages
  <2>3. scenario' = scenario
    BY ScenarioStays
  <2>4. ASSUME NEW m \in Msgs
        PROVE  /\ stage'[m] \in Lifecycle!After(stage[m])
               /\ closed[m] => closed'[m]
               /\ closed'[m] => stage'[m] # "new"
               /\ stage'[m] \in Lifecycle!Ended => closed'[m] \/ rough
    <3>1. Onward(row[m], row'[m])
      BY RowsMove
    <3>2. StageOf(row'[m].status) \in Settled => row'[m].status \in Settled
      BY DEF StageOf, Settled
    <3>3. closed[m] => closed'[m]
      BY ClosedMoves
    <3>4. closed'[m] => StageOf(row'[m].status) # "new"
      BY DEF ClosedTaken, StageOf
    <3>5. row'[m].status \in Settled => closed'[m] \/ rough
      BY <2>3 DEF SettledIsAnnounced
    <3>6. QED
      BY <3>1, <3>2, <3>3, <3>4, <3>5 DEF Onward, Settled, Lifecycle!Ended
  <2>5. QED  BY <2>1, <2>2, <2>3, <2>4 DEF Lifecycle!Next, Lifecycle!Move
<1>3. QED
  BY <1>1, <1>2, EndsAreTold, ClosedIsTaken, QueueInvariant, PTL
  DEF Spec, LifecycleSpec, Lifecycle!Spec, Lifecycle!lifeVars
-----------------------------------------------------------------------------
(***************************************************************************)
(* The loop that QueueDaemon takes as the single step Drain.               *)
(***************************************************************************)

\* One turn of the loop on a pending row: a failure is counted, and what is
\* still to come for the row does not change.  The count rises to MaxRetries,
\* so the loop turns at most that often for each row.
LEMMA TurnCounts ==
  ASSUME NEW r \in Resting, r.status = "pending"
  PROVE  /\ Fail(Claim(r)) \in Resting
         /\ Fail(Claim(r)).retries = r.retries + 1
         /\ Drain(Fail(Claim(r))) = Drain(r)
<1> DEFINE q == To(r, "queued")
           n == r.retries + 1
<1>1. /\ r \in [status : Status, retries : 0 .. MaxRetries + 1, recovery : 0 .. MaxRecoveries - 1]
      /\ r.retries < MaxRetries
  BY DEF Resting, Row
<1>2. Claim(r) = q /\ q.status = "queued" /\ q.retries = r.retries /\ q.recovery = r.recovery
  BY <1>1 DEF Claim, To
<1>3. Fail(Claim(r)) = [status |-> FailOutcome(q), retries |-> n, recovery |-> r.recovery]
  BY <1>1, <1>2 DEF Fail, Stored, Active, Settled, To
<1>4. Drain(r) = [status |-> "dead", retries |-> MaxRetries, recovery |-> r.recovery]
  BY <1>1 DEF Drain
<1>5. CASE n >= MaxRetries
  <2>1. n = MaxRetries /\ FailOutcome(q) = "dead"
    BY <1>1, <1>2, <1>5 DEF FailOutcome
  <2>2. QED
    BY <1>1, <1>3, <1>4, <2>1 DEF Resting, Row, Status, Stored, Active, Settled, Drain
<1>6. CASE n < MaxRetries
  <2> DEFINE z == [status |-> "pending", retries |-> n, recovery |-> r.recovery]
  <2>1. Fail(Claim(r)) = z
    BY <1>1, <1>2, <1>3, <1>6 DEF FailOutcome
  <2>2. z \in Resting
    BY <1>1, <1>6 DEF Resting, Row, Status, Stored, Active
  <2>3. Drain(z) = [status |-> "dead", retries |-> MaxRetries, recovery |-> r.recovery]
    BY DEF Drain
  <2>4. QED  BY <1>4, <2>1, <2>2, <2>3
<1>7. n \in Nat
  BY <1>1
<1>8. QED  BY <1>5, <1>6, <1>7

\* The table between two turns: what is to come for each row is what was to
\* come when the loop started.
Owed ==
  /\ found \in [Pile -> Resting]
  /\ left \in [Pile -> Resting]
  /\ \A m \in Pile : Drain(left[m]) = Drain(found[m])

\* The loop of a killed chain leaves the table QueueDaemon takes it to.
THEOREM LoopDrains == Loop => []DrainIsClosedForm
<1>1. LoopInit => Owed
  BY DEF LoopInit, Owed
<1>2. Owed /\ [Turn]_loopVars => Owed'
  <2> SUFFICES ASSUME Owed, [Turn]_loopVars PROVE Owed'
    OBVIOUS
  <2>1. CASE UNCHANGED loopVars
    BY <2>1 DEF Owed, loopVars
  <2>2. CASE Turn
    <3>1. PICK m \in Pile : left[m].status = "pending" /\ left' = [left EXCEPT ![m] = Fail(Claim(@))]
      BY <2>2 DEF Turn
    <3>2. left[m] \in Resting
      BY DEF Owed
    <3>3. Fail(Claim(left[m])) \in Resting /\ Drain(Fail(Claim(left[m]))) = Drain(left[m])
      BY <3>1, <3>2, TurnCounts
    <3>4. left' \in [Pile -> Resting]
      BY <3>1, <3>3 DEF Owed
    <3>5. \A k \in Pile : Drain(left'[k]) = Drain(found[k])
      BY <3>1, <3>3 DEF Owed
    <3>6. QED  BY <2>2, <3>4, <3>5 DEF Turn, Owed
  <2>3. QED  BY <2>1, <2>2
<1>3. Owed => DrainIsClosedForm
  <2> SUFFICES ASSUME Owed, \A m \in Pile : left[m].status # "pending"
               PROVE  left = [m \in Pile |-> Drain(found[m])]
    BY DEF DrainIsClosedForm
  <2>1. \A m \in Pile : left[m] = Drain(found[m])
    BY DEF Owed, Drain
  <2>2. QED  BY <2>1 DEF Owed
<1>4. QED  BY <1>1, <1>2, <1>3, PTL DEF Loop
=============================================================================
