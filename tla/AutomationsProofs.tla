--------------------------- MODULE AutomationsProofs ---------------------------
(***************************************************************************)
(* Proofs about Automations, for any number of rules, runs and events and  *)
(* any limits: the backlog of a rule and the wakes made from it stay in    *)
(* the order of the events, a backlog is never left without a timer, a run *)
(* recorded as running has a message that will close it.                   *)
(***************************************************************************)
EXTENDS Automations, SequenceTheorems, TLAPS

USE EngineAssumption

-----------------------------------------------------------------------------
(***************************************************************************)
(* Backlogs: rising sequences of events, appended to at one end and cut at *)
(* the other.                                                              *)
(***************************************************************************)

\* A backlog, or the events of a wake: in the order they happened, none of them
\* after event "last".
Rising(s, last) ==
  /\ s \in Seq(Events)
  /\ \A i, j \in 1 .. Len(s) : i < j => s[i] < s[j]
  /\ \A i \in 1 .. Len(s) : s[i] <= last

\* All of s happened before any of t.
Before(s, t) == \A i \in 1 .. Len(s), j \in 1 .. Len(t) : s[i] < t[j]

\* A stretch of a backlog is one itself.
LEMMA StretchRises ==
  ASSUME NEW last \in Nat, NEW w, Rising(w, last),
         NEW a \in 1 .. Len(w) + 1, NEW b \in a - 1 .. Len(w)
  PROVE  /\ Rising(SubSeq(w, a, b), last)
         /\ Len(SubSeq(w, a, b)) = b - a + 1
         /\ \A i \in 1 .. Len(SubSeq(w, a, b)) :
              /\ a + i - 1 \in 1 .. Len(w)
              /\ SubSeq(w, a, b)[i] = w[a + i - 1]
<1> DEFINE s == SubSeq(w, a, b)
<1>1. w \in Seq(Events) /\ Len(w) \in Nat /\ a \in Int /\ b \in Int
  BY DEF Rising
<1>2. \A i \in a .. b : w[i] \in Events
  BY <1>1
<1>3. /\ s \in Seq(Events) /\ Len(s) = (IF a <= b THEN b - a + 1 ELSE 0)
      /\ \A i \in 1 .. b - a + 1 : s[i] = w[a + i - 1]
  BY <1>1, <1>2, SubSeqProperties
<1>4. Len(s) = b - a + 1
  BY <1>1, <1>3
<1> HIDE DEF s
<1>5. \A i \in 1 .. Len(s) : a + i - 1 \in 1 .. Len(w) /\ s[i] = w[a + i - 1]
  BY <1>1, <1>3, <1>4
<1>6. \A i, j \in 1 .. Len(s) : i < j => s[i] < s[j]
  <2> SUFFICES ASSUME NEW i \in 1 .. Len(s), NEW j \in 1 .. Len(s), i < j
               PROVE  s[i] < s[j]
    OBVIOUS
  <2>1. a + i - 1 < a + j - 1
    BY <1>1
  <2>2. QED  BY <1>5, <2>1 DEF Rising
<1>7. QED  BY <1>3, <1>4, <1>5, <1>6 DEF Rising, s

LEMMA PushRises ==
  ASSUME NEW last \in Nat, last + 1 \in Events, NEW w, Rising(w, last)
  PROVE  /\ Rising(Push(w, last + 1), last + 1)
         /\ Len(Push(w, last + 1)) <= MaxQueued
         /\ \A i \in 1 .. Len(Push(w, last + 1)) :
              \/ Push(w, last + 1)[i] = last + 1
              \/ \E j \in 1 .. Len(w) : Push(w, last + 1)[i] = w[j]
<1> DEFINE all == Append(w, last + 1)
           from == 1 + Len(all) - MaxQueued
<1>1. w \in Seq(Events) /\ Len(w) \in Nat
  BY DEF Rising
<1>2. /\ all \in Seq(Events) /\ Len(all) = Len(w) + 1
      /\ \A i \in 1 .. Len(w) : all[i] = w[i]
      /\ all[Len(w) + 1] = last + 1
  BY <1>1, AppendProperties
<1> HIDE DEF all
<1>3. \A i \in 1 .. Len(all) : \/ i = Len(w) + 1 /\ all[i] = last + 1
                               \/ i \in 1 .. Len(w) /\ all[i] = w[i]
  BY <1>1, <1>2
<1>4. Rising(all, last + 1)
  <2>1. \A i \in 1 .. Len(w) : w[i] \in Nat /\ w[i] <= last
    BY <1>1 DEF Rising, Events
  <2>2. \A i \in 1 .. Len(all) : all[i] <= last + 1
    BY <1>3, <2>1
  <2>3. ASSUME NEW i \in 1 .. Len(all), NEW j \in 1 .. Len(all), i < j
        PROVE  all[i] < all[j]
    <3>1. i \in 1 .. Len(w) /\ all[i] = w[i]
      BY <1>1, <1>2, <1>3, <2>3
    <3>2. CASE j = Len(w) + 1
      BY <1>2, <2>1, <3>1, <3>2
    <3>3. CASE j \in 1 .. Len(w)
      BY <1>2, <2>3, <3>1, <3>3 DEF Rising
    <3>4. QED  BY <1>3, <3>2, <3>3
  <2>4. QED  BY <1>2, <2>2, <2>3 DEF Rising
<1>5. CASE Len(all) <= MaxQueued
  <2>1. Push(w, last + 1) = all
    BY <1>1, <1>2, <1>5 DEF Push, all
  <2>2. QED  BY <1>3, <1>4, <1>5, <2>1
<1>6. CASE Len(all) > MaxQueued
  <2>1. Push(w, last + 1) = SubSeq(all, from, Len(all))
    BY <1>6 DEF Push, all
  <2>2. from \in 1 .. Len(all) + 1 /\ Len(all) \in from - 1 .. Len(all)
    BY <1>1, <1>2, <1>6
  <2>3. /\ Rising(SubSeq(all, from, Len(all)), last + 1)
        /\ Len(SubSeq(all, from, Len(all))) = Len(all) - from + 1
        /\ \A i \in 1 .. Len(SubSeq(all, from, Len(all))) :
             /\ from + i - 1 \in 1 .. Len(all)
             /\ SubSeq(all, from, Len(all))[i] = all[from + i - 1]
    BY <1>4, <2>2, StretchRises
  <2>4. Len(all) - from + 1 = MaxQueued
    BY <1>1, <1>2
  <2> DEFINE s == SubSeq(all, from, Len(all))
  <2> HIDE DEF from
  <2>5. \A i \in 1 .. Len(s) :
          s[i] = last + 1 \/ \E j \in 1 .. Len(w) : s[i] = w[j]
    BY <1>3, <2>3
  <2>6. Len(s) <= MaxQueued /\ Rising(s, last + 1)
    BY <2>3, <2>4
  <2> HIDE DEF s
  <2>7. Push(w, last + 1) = s
    BY <2>1 DEF s
  <2>8. QED  BY <2>5, <2>6, <2>7
<1>7. QED  BY <1>1, <1>2, <1>5, <1>6

\* A flush cuts a backlog in two.
LEMMA CutRises ==
  ASSUME NEW last \in Nat, NEW w, Rising(w, last)
  PROVE  /\ Rising(Batch(w), last) /\ Rising(Rest(w), last)
         /\ Len(Rest(w)) <= Len(w)
         /\ Before(Batch(w), Rest(w))
         /\ \A s : Before(s, w) => Before(s, Batch(w)) /\ Before(s, Rest(w))
<1> DEFINE n == Smaller(MaxBatch, Len(w))
<1>1. w \in Seq(Events) /\ Len(w) \in Nat
  BY DEF Rising
<1>2. n \in 0 .. Len(w)
  BY <1>1 DEF Smaller
<1>3. /\ 1 \in 1 .. Len(w) + 1 /\ n \in 1 - 1 .. Len(w)
      /\ 1 + n \in 1 .. Len(w) + 1 /\ Len(w) \in 1 + n - 1 .. Len(w)
  BY <1>1, <1>2
<1>4. Batch(w) = SubSeq(w, 1, n) /\ Rest(w) = SubSeq(w, 1 + n, Len(w))
  BY DEF Batch, Rest
<1> HIDE DEF n
<1>5. /\ Rising(Batch(w), last) /\ Len(Batch(w)) = n
      /\ \A i \in 1 .. Len(Batch(w)) : i \in 1 .. Len(w) /\ Batch(w)[i] = w[i]
  <2>1. /\ Rising(Batch(w), last) /\ Len(Batch(w)) = n - 1 + 1
        /\ \A i \in 1 .. Len(Batch(w)) : 1 + i - 1 \in 1 .. Len(w) /\ Batch(w)[i] = w[1 + i - 1]
    BY <1>3, <1>4, StretchRises
  <2>2. QED  BY <1>2, <2>1
<1>6. /\ Rising(Rest(w), last) /\ Len(Rest(w)) = Len(w) - n
      /\ \A i \in 1 .. Len(Rest(w)) : n + i \in 1 .. Len(w) /\ Rest(w)[i] = w[n + i]
  <2>1. /\ Rising(Rest(w), last) /\ Len(Rest(w)) = Len(w) - (1 + n) + 1
        /\ \A i \in 1 .. Len(Rest(w)) : /\ 1 + n + i - 1 \in 1 .. Len(w)
                                        /\ Rest(w)[i] = w[1 + n + i - 1]
    BY <1>3, <1>4, StretchRises
  <2>2. QED  BY <1>1, <1>2, <2>1
<1>7. Before(Batch(w), Rest(w))
  <2> SUFFICES ASSUME NEW i \in 1 .. Len(Batch(w)), NEW j \in 1 .. Len(Rest(w))
               PROVE  Batch(w)[i] < Rest(w)[j]
    BY DEF Before
  <2>1. i < n + j /\ i \in 1 .. Len(w) /\ n + j \in 1 .. Len(w)
    BY <1>2, <1>5, <1>6
  <2>2. QED  BY <1>5, <1>6, <2>1 DEF Rising
<1>8. Len(Rest(w)) <= Len(w)
  BY <1>1, <1>2, <1>6
<1>9. ASSUME NEW s, Before(s, w)
      PROVE  Before(s, Batch(w)) /\ Before(s, Rest(w))
  <2>1. Before(s, Batch(w))
    BY <1>5, <1>9 DEF Before
  <2>2. Before(s, Rest(w))
    BY <1>6, <1>9 DEF Before
  <2>3. QED  BY <2>1, <2>2
<1>10. QED  BY <1>5, <1>6, <1>7, <1>8, <1>9

LEMMA EmptyRises ==
  ASSUME NEW last \in Nat
  PROVE  Rising(<<>>, last) /\ \A s : Before(s, <<>>) /\ Before(<<>>, s)
BY DEF Rising, Before
-----------------------------------------------------------------------------
(***************************************************************************)
(* The inductive invariant.                                                *)
(***************************************************************************)

\* Where the events of the bus are: waiting, or in one wake of the rule, each
\* wake after the ones before it.
BatchInv ==
  /\ \A r \in Rules : Rising(waiting[r], emitted)
  /\ \A q \in Runs : Rising(carries[q], emitted)
  /\ \A q \in Runs : of[q] \in Rules => Before(carries[q], waiting[of[q]])
  /\ \A p, q \in Runs : of[p] \in Rules /\ of[p] = of[q] /\ p < q =>
                          Before(carries[p], carries[q])
  /\ TimerArmed

\* A run that was not begun is nobody's, and no message is there for it.
Unborn ==
  \A q \in Runs : q > born =>
    of[q] = None /\ stage[q] = "new" /\ ~ closed[q]

\* A run is closed when an end of its message is announced.
MessageInv == \A q \in Runs : closed[q] => record[q] # "running"

FlightInv ==
  ~ Rough =>
    /\ up
    /\ \A q \in Runs : record[q] = "running" => stage[q] \in Lifecycle!InFlight

EngineInv == TypeOK /\ BatchInv /\ Unborn /\ MessageInv /\ FlightInv

MsgStages == Lifecycle!Stages

\* What beginAutomationRun writes: one new row, and rows of the rule may go.
LEMMA BeginEffect ==
  ASSUME TypeOK, Unborn, NEW r \in Rules, NEW status \in Records,
         NEW events \in Seq(Events), Begin(r, status, events)
  PROVE  /\ born + 1 \in Runs /\ born' = born + 1 /\ born' \in 0 .. MaxRuns
         /\ of[born + 1] = None /\ ~ closed[born + 1]
         /\ of' \in [Runs -> Rules \cup {None}] /\ of'[born + 1] = r
         /\ record' \in [Runs -> Records] /\ record'[born + 1] = status
         /\ carries' \in [Runs -> Seq(Events)] /\ carries'[born + 1] = events
         /\ \A q \in Runs \ {born + 1} :
              /\ of'[q] = of[q] /\ carries'[q] = carries[q]
              /\ record'[q] \in {record[q], "evicted"}
<1>1. born + 1 \in Runs /\ born' = born + 1 /\ born' \in 0 .. MaxRuns
  BY DEF Begin, TypeOK, Runs
<1>2. of[born + 1] = None /\ ~ closed[born + 1]
  <2>1. born \in Nat /\ born + 1 > born
    BY DEF TypeOK
  <2>2. QED  BY <1>1, <2>1 DEF Unborn
<1>3. of' = [of EXCEPT ![born + 1] = r] /\ carries' = [carries EXCEPT ![born + 1] = events]
  BY DEF Begin
<1>4. /\ record' = [q \in Runs |-> record'[q]] /\ record'[born + 1] = status
      /\ \A q \in Runs \ {born + 1} : record'[q] \in {record[q], "evicted"}
  BY <1>1 DEF Begin
<1>5. \A q \in Runs : record'[q] \in Records
  BY <1>4 DEF TypeOK, Records
<1>6. record' \in [Runs -> Records]
  BY <1>4, <1>5
<1>7. /\ of' \in [Runs -> Rules \cup {None}] /\ of'[born + 1] = r
      /\ \A q \in Runs \ {born + 1} : of'[q] = of[q]
  BY <1>1, <1>3 DEF TypeOK
<1>8. /\ carries' \in [Runs -> Seq(Events)] /\ carries'[born + 1] = events
      /\ \A q \in Runs \ {born + 1} : carries'[q] = carries[q]
  BY <1>1, <1>3 DEF TypeOK
<1>9. QED  BY <1>1, <1>2, <1>4, <1>6, <1>7, <1>8

\* What a fire writes about the run's message.
LEMMA FireEffect ==
  ASSUME NEW r \in Rules, NEW how, NEW events \in Seq(Events), Fire(r, how, events)
  PROVE  \E status \in {"running", "skipped"}, es \in {events, <<>>} :
           /\ Begin(r, status, es)
           /\ how = "event" => status = "running"
           /\ status = "running" =>
                /\ es = events
                /\ \E s \in Lifecycle!InFlight : stage' = [stage EXCEPT ![born + 1] = s]
           /\ status = "skipped" => es = <<>> /\ stage' = stage
           /\ UNCHANGED closed
BY DEF Fire, msgVars

\* A wake begun with the oldest events of a backlog, or with none.
LEMMA BeginBatch ==
  ASSUME TypeOK, Unborn, BatchInv, NEW r \in Rules, NEW status \in Records,
         NEW events \in Seq(Events), Begin(r, status, events),
         emitted' = emitted, Rising(events, emitted),
         \A s \in Rules : Rising(waiting'[s], emitted),
         \A s \in Rules : \A e : Before(e, waiting[s]) => Before(e, waiting'[s]),
         \A e : Before(e, waiting[r]) => Before(e, events),
         Before(events, waiting'[r]), TimerArmed'
  PROVE  BatchInv'
<1> DEFINE new == born + 1
<1>1. /\ new \in Runs /\ of[new] = None /\ of'[new] = r /\ carries'[new] = events
      /\ \A q \in Runs \ {new} : of'[q] = of[q] /\ carries'[q] = carries[q]
  BY BeginEffect
<1>2. \A q \in Runs : of[q] # None => q < new
  BY DEF Unborn, TypeOK, Runs
<1>3. \A s \in Rules : s # None
  OBVIOUS
<1> HIDE DEF new
<1>5. \A q \in Runs : Rising(carries'[q], emitted)
  BY <1>1 DEF BatchInv
<1>6. ASSUME NEW q \in Runs, of'[q] \in Rules
      PROVE  Before(carries'[q], waiting'[of'[q]])
  <2>1. CASE q = new
    BY <1>1, <2>1
  <2>2. CASE q # new
    <3>1. of'[q] = of[q] /\ carries'[q] = carries[q] /\ Before(carries[q], waiting[of[q]])
      BY <1>1, <1>6, <2>2 DEF BatchInv
    <3>2. QED  BY <1>6, <3>1
  <2>3. QED  BY <2>1, <2>2
<1>7. ASSUME NEW p \in Runs, NEW q \in Runs, of'[p] \in Rules, of'[p] = of'[q], p < q
      PROVE  Before(carries'[p], carries'[q])
  <2>1. p # new
    <3>1. p = new => q # new /\ of[q] # None
      BY <1>1, <1>3, <1>7 DEF Runs
    <3>2. QED  BY <1>2, <1>7, <3>1 DEF Runs
  <2>2. of'[p] = of[p] /\ carries'[p] = carries[p] /\ Before(carries[p], waiting[of[p]])
    BY <1>1, <1>7, <2>1 DEF BatchInv
  <2>3. CASE q = new
    BY <1>1, <1>7, <2>2, <2>3
  <2>4. CASE q # new
    BY <1>1, <1>7, <2>2, <2>4 DEF BatchInv
  <2>5. QED  BY <2>3, <2>4
<1>8. QED  BY <1>5, <1>6, <1>7 DEF BatchInv

\* The other parts, when a run begins.
LEMMA BeginMessages ==
  ASSUME TypeOK, Unborn, MessageInv, FlightInv, NEW r \in Rules,
         NEW status \in {"running", "skipped"},
         NEW events \in Seq(Events), Begin(r, status, events),
         stage' \in [Runs -> MsgStages],
         \A q \in Runs \ {born + 1} : stage'[q] = stage[q],
         stage'[born + 1] \in Lifecycle!InFlight \cup {"new"},
         closed' = closed,
         ~ Rough' => /\ ~ Rough /\ up'
                     /\ status = "running" => stage'[born + 1] \in Lifecycle!InFlight
  PROVE  Unborn' /\ MessageInv' /\ FlightInv'
<1> DEFINE new == born + 1
<1>1. /\ new \in Runs /\ born' = new /\ ~ closed[new]
      /\ record'[new] = status
      /\ \A q \in Runs \ {new} :
           of'[q] = of[q] /\ record'[q] \in {record[q], "evicted"}
  BY BeginEffect DEF Records
<1>2. \A q \in Runs : q > new => q # new /\ q > born
  BY DEF TypeOK, Runs
<1> HIDE DEF new
<1>3. \A q \in Runs \ {new} : stage'[q] = stage[q]
  BY DEF new
<1>4. Unborn'
  <2> SUFFICES ASSUME NEW q \in Runs, q > new
               PROVE  of'[q] = None /\ stage'[q] = "new" /\ ~ closed'[q]
    BY <1>1 DEF Unborn
  <2>1. q # new /\ q > born
    BY <1>2
  <2>2. QED  BY <1>1, <1>3, <2>1 DEF Unborn
<1>5. MessageInv'
  <2> SUFFICES ASSUME NEW q \in Runs, closed[q]
               PROVE  record'[q] # "running"
    BY DEF MessageInv
  <2>1. q # new
    BY <1>1
  <2>2. QED  BY <1>1, <2>1 DEF MessageInv
<1>6. FlightInv'
  <2> SUFFICES ASSUME ~ Rough'
               PROVE  /\ up'
                      /\ \A q \in Runs : record'[q] = "running" =>
                           stage'[q] \in Lifecycle!InFlight
    BY DEF FlightInv
  <2>1. ~ Rough /\ up' /\ (status = "running" => stage'[new] \in Lifecycle!InFlight)
    BY DEF new
  <2>2. \A q \in Runs : record[q] = "running" => stage[q] \in Lifecycle!InFlight
    BY <2>1 DEF FlightInv
  <2>3. QED  BY <1>1, <1>3, <2>1, <2>2
<1>7. QED  BY <1>4, <1>5, <1>6

\* A fire of rule r with these events leaves the inductive invariant, whatever
\* it does to the backlog it takes them from.
LEMMA FireInv ==
  ASSUME EngineInv, NEW r \in Rules, NEW how, NEW events \in Seq(Events),
         Fire(r, how, events), Rising(events, emitted),
         UNCHANGED <<scenario, rule, emitted, up>>,
         waiting' \in [Rules -> Seq(Events)], timer' \in [Rules -> BOOLEAN],
         \A s \in Rules : Len(waiting'[s]) <= MaxQueued,
         Rising(waiting'[r], emitted),
         \A s \in Rules \ {r} : waiting'[s] = waiting[s],
         \A s : Before(s, waiting[r]) => Before(s, events) /\ Before(s, waiting'[r]),
         Before(events, waiting'[r]), TimerArmed'
  PROVE  EngineInv'
<1>1. PICK status \in {"running", "skipped"}, es \in {events, <<>>} :
        /\ Begin(r, status, es)
        /\ status = "running" =>
             /\ es = events
             /\ \E s \in Lifecycle!InFlight : stage' = [stage EXCEPT ![born + 1] = s]
        /\ status = "skipped" => es = <<>> /\ stage' = stage
        /\ UNCHANGED closed
  BY FireEffect
<1>2. TypeOK /\ Unborn /\ BatchInv /\ MessageInv /\ FlightInv /\ emitted \in Nat
  BY DEF EngineInv, TypeOK
<1>3. es \in Seq(Events) /\ status \in Records
  <2>1. es = events \/ es = <<>>
    OBVIOUS
  <2>2. <<>> \in Seq(Events)
    OBVIOUS
  <2>3. status \in Records
    BY DEF Records
  <2>4. QED  BY <2>1, <2>2, <2>3
<1>4. /\ Rising(es, emitted) /\ Before(es, waiting'[r])
      /\ \A e : Before(e, waiting[r]) => Before(e, es)
  BY <1>2, EmptyRises
<1>5. BatchInv'
  <2>1. Begin(r, status, es) /\ emitted' = emitted
    BY <1>1
  <2>2. TypeOK /\ Unborn /\ BatchInv
    BY <1>2
  <2>3. /\ \A s \in Rules : Rising(waiting'[s], emitted)
        /\ \A s \in Rules : \A e : Before(e, waiting[s]) => Before(e, waiting'[s])
    <3> SUFFICES ASSUME NEW s \in Rules
                 PROVE  /\ Rising(waiting'[s], emitted)
                        /\ \A e : Before(e, waiting[s]) => Before(e, waiting'[s])
      OBVIOUS
    <3>1. CASE s = r
      BY <3>1
    <3>2. CASE s # r
      BY <1>2, <3>2 DEF BatchInv
    <3>3. QED  BY <3>1, <3>2
  <2>4. QED  BY <1>3, <1>4, <2>1, <2>2, <2>3, BeginBatch, ZenonT(30)
<1>6. /\ born + 1 \in Runs /\ born' \in 0 .. MaxRuns
      /\ of' \in [Runs -> Rules \cup {None}] /\ record' \in [Runs -> Records]
      /\ carries' \in [Runs -> Seq(Events)] /\ stage[born + 1] = "new"
  <2>1. born \in Nat /\ born + 1 > born
    BY <1>2 DEF TypeOK
  <2>2. /\ born + 1 \in Runs /\ born' \in 0 .. MaxRuns
        /\ of' \in [Runs -> Rules \cup {None}] /\ record' \in [Runs -> Records]
        /\ carries' \in [Runs -> Seq(Events)]
    BY <1>1, <1>2, <1>3, BeginEffect
  <2>3. stage[born + 1] = "new"
    BY <1>2, <2>1, <2>2 DEF Unborn
  <2>4. QED  BY <2>2, <2>3
<1>7. /\ stage' \in [Runs -> MsgStages]
      /\ stage'[born + 1] \in Lifecycle!InFlight \cup {"new"}
      /\ \A q \in Runs \ {born + 1} : stage'[q] = stage[q]
      /\ status = "running" => stage'[born + 1] \in Lifecycle!InFlight
  <2>1. stage \in [Runs -> MsgStages]
    BY <1>2 DEF TypeOK, MsgStages
  <2>2. CASE status = "skipped"
    BY <1>1, <1>6, <2>1, <2>2
  <2>3. CASE status = "running"
    <3>1. PICK s \in Lifecycle!InFlight : stage' = [stage EXCEPT ![born + 1] = s]
      BY <1>1, <2>3
    <3>2. s \in MsgStages
      BY DEF MsgStages, Lifecycle!Stages, Lifecycle!InFlight
    <3>3. QED  BY <1>6, <2>1, <3>1, <3>2
  <2>4. QED  BY <2>2, <2>3
<1>8. ~ Rough' => ~ Rough /\ up'
  BY <1>2 DEF Rough, FlightInv
<1>9. Unborn' /\ MessageInv' /\ FlightInv'
  BY <1>1, <1>2, <1>3, <1>7, <1>8, BeginMessages
<1>10. TypeOK'
  BY <1>1, <1>2, <1>6, <1>7 DEF TypeOK, MsgStages
<1>11. QED  BY <1>5, <1>9, <1>10 DEF EngineInv

\* A step of the queue closes what it announces, and says nothing of rules,
\* backlogs or the list of runs.
LEMMA QueuePreserves ==
  ASSUME EngineInv, QueueStep
  PROVE  EngineInv'
<1>1. /\ TypeOK /\ BatchInv /\ Unborn /\ MessageInv /\ FlightInv
      /\ UNCHANGED <<scenario, rule, waiting, timer, emitted, born, of, carries, up>>
  BY DEF EngineInv, QueueStep, batchVars
<1>2. /\ stage' \in [Runs -> Lifecycle!Stages] /\ closed' \in [Runs -> BOOLEAN]
      /\ record' \in [Runs -> Records]
  BY DEF QueueStep, Lifecycle!Next
<1>3. ASSUME NEW q \in Runs
      PROVE  /\ stage'[q] \in Lifecycle!After(stage[q])
             /\ closed'[q] => stage'[q] # "new"
             /\ stage'[q] \in Lifecycle!Ended => closed'[q] \/ Rough
             /\ stage[q] = "new" => stage'[q] = "new"
  BY DEF QueueStep, Lifecycle!Next, Lifecycle!Move
<1>4. ASSUME NEW q \in Runs
      PROVE  /\ record'[q] = "running" => record[q] = "running"
             /\ closed'[q] => record'[q] # "running"
  <2>1. \/ closed'[q] /\ \E said \in Outcomes : record'[q] = Close(q, said)
        \/ (closed'[q] => closed[q]) /\ record'[q] = record[q]
    BY DEF QueueStep
  <2>2. \A said \in Outcomes : Close(q, said) # "running"
    BY DEF Close, Outcomes
  <2>3. QED  BY <1>1, <2>1, <2>2 DEF MessageInv
<1>5. TypeOK'
  BY <1>1, <1>2 DEF TypeOK
<1>6. BatchInv'
  BY <1>1 DEF BatchInv, TimerArmed
<1>7. Unborn'
  BY <1>1, <1>2, <1>3 DEF Unborn
<1>8. MessageInv'
  BY <1>4 DEF MessageInv
<1>9. FlightInv'
  <2> SUFFICES ASSUME ~ Rough, NEW q \in Runs, record'[q] = "running"
               PROVE  up /\ stage'[q] \in Lifecycle!InFlight
    BY <1>1 DEF FlightInv, Rough
  <2>1. up /\ stage[q] \in Lifecycle!InFlight
    BY <1>1, <1>4 DEF FlightInv
  <2>2. stage'[q] \notin Lifecycle!Ended
    BY <1>3, <1>4
  <2>3. QED
    BY <1>3, <2>1, <2>2 DEF Lifecycle!After, Lifecycle!InFlight, Lifecycle!Ended
<1>10. QED  BY <1>5, <1>6, <1>7, <1>8, <1>9 DEF EngineInv

\* A bus event is the latest there is.
LEMMA EmitPreserves ==
  ASSUME EngineInv, EmitEvent
  PROVE  EngineInv'
<1> DEFINE e == emitted + 1
<1>1. /\ TypeOK /\ BatchInv /\ Unborn /\ MessageInv /\ FlightInv
      /\ emitted \in Nat /\ e \in Events /\ e \in 0 .. MaxEvents
      /\ emitted' = e /\ emitted <= e /\ e \in Nat
      /\ UNCHANGED <<scenario, rule, born, of, record, carries, stage, closed, up>>
  BY DEF EngineInv, EmitEvent, TypeOK, Events, runVars, msgVars
<1>2. waiting' = [r \in Rules |-> IF r \in Listening THEN Push(waiting[r], e) ELSE waiting[r]]
  BY DEF EmitEvent
<1> HIDE DEF e
<1>3. ASSUME NEW s, Rising(s, emitted)
      PROVE  Rising(s, e)
  <2>1. \A i \in 1 .. Len(s) : s[i] \in Nat /\ s[i] <= emitted
    BY <1>3 DEF Rising, Events
  <2>2. QED  BY <1>1, <1>3, <2>1 DEF Rising
<1>4. ASSUME NEW r \in Rules
      PROVE  /\ Rising(waiting'[r], e) /\ Len(waiting'[r]) <= MaxQueued
             /\ \A q \in Runs : Before(carries[q], waiting[r]) => Before(carries[q], waiting'[r])
  <2>1. CASE r \notin Listening
    BY <1>1, <1>2, <1>3, <2>1 DEF BatchInv, TypeOK
  <2>2. CASE r \in Listening
    <3>1. waiting'[r] = Push(waiting[r], e) /\ Rising(waiting[r], emitted)
      BY <1>1, <1>2, <2>2 DEF BatchInv
    <3>2. /\ Rising(waiting'[r], e) /\ Len(waiting'[r]) <= MaxQueued
          /\ \A i \in 1 .. Len(waiting'[r]) :
               \/ waiting'[r][i] = e
               \/ \E j \in 1 .. Len(waiting[r]) : waiting'[r][i] = waiting[r][j]
      BY <1>1, <3>1, PushRises DEF e
    <3>3. ASSUME NEW q \in Runs, Before(carries[q], waiting[r]),
                 NEW i \in 1 .. Len(carries[q]), NEW j \in 1 .. Len(waiting'[r])
          PROVE  carries[q][i] < waiting'[r][j]
      <4>1. carries[q][i] \in Nat /\ carries[q][i] <= emitted /\ emitted < e
        <5>1. Rising(carries[q], emitted) /\ emitted < e
          BY <1>1 DEF BatchInv, e
        <5>2. carries[q][i] \in Events /\ carries[q][i] <= emitted
          BY <3>3, <5>1 DEF Rising
        <5>3. QED  BY <5>1, <5>2 DEF Events
      <4>2. CASE waiting'[r][j] = e
        BY <1>1, <4>1, <4>2
      <4>3. CASE \E k \in 1 .. Len(waiting[r]) : waiting'[r][j] = waiting[r][k]
        BY <3>3, <4>3 DEF Before
      <4>4. QED  BY <3>2, <4>2, <4>3
    <3>4. QED  BY <3>2, <3>3 DEF Before
  <2>3. QED  BY <2>1, <2>2
<1>5. TimerArmed'
  <2> SUFFICES ASSUME NEW r \in Rules, waiting'[r] # <<>>
               PROVE  timer'[r]
    BY DEF TimerArmed
  <2>1. timer'[r] <=> timer[r] \/ r \in Listening
    BY DEF EmitEvent
  <2>2. r \notin Listening => waiting'[r] = waiting[r]
    BY <1>2
  <2>3. QED  BY <1>1, <2>1, <2>2 DEF BatchInv, TimerArmed
<1>6. BatchInv'
  <2>1. \A q \in Runs : Rising(carries[q], e)
    BY <1>1, <1>3 DEF BatchInv
  <2>2. QED  BY <1>1, <1>4, <1>5, <2>1 DEF BatchInv
<1>7. TypeOK'
  <2>1. waiting' \in [Rules -> Seq(Events)] /\ \A r \in Rules : Len(waiting'[r]) <= MaxQueued
    BY <1>2, <1>4 DEF Rising
  <2>2. timer' \in [Rules -> BOOLEAN]
    BY DEF EmitEvent
  <2>3. QED  BY <1>1, <2>1, <2>2 DEF TypeOK
<1>8. Unborn' /\ MessageInv' /\ FlightInv'
  BY <1>1 DEF Unborn, MessageInv, FlightInv, Rough
<1>9. QED  BY <1>6, <1>7, <1>8 DEF EngineInv

LEMMA FlushPreserves ==
  ASSUME EngineInv, NEW r \in Rules, FlushBatch(r)
  PROVE  EngineInv'
<1> DEFINE w == waiting[r]
<1>1. /\ TypeOK /\ BatchInv /\ Unborn /\ MessageInv /\ FlightInv
      /\ emitted \in Nat /\ Rising(w, emitted) /\ Len(w) \in Nat /\ Len(w) <= MaxQueued
  BY DEF EngineInv, TypeOK, BatchInv
<1>2. /\ Rising(Batch(w), emitted) /\ Rising(Rest(w), emitted)
      /\ Len(Rest(w)) <= Len(w) /\ Before(Batch(w), Rest(w))
      /\ \A e : Before(e, w) => Before(e, Batch(w)) /\ Before(e, Rest(w))
  BY <1>1, CutRises
<1>3. /\ waiting' = [waiting EXCEPT ![r] = Rest(w)]
      /\ timer' = [timer EXCEPT ![r] = Rearm(Rest(w))]
      /\ UNCHANGED <<scenario, rule, emitted, up>>
  BY DEF FlushBatch
<1> HIDE DEF w
<1>4. /\ waiting'[r] = Rest(w) /\ \A s \in Rules \ {r} : waiting'[s] = waiting[s]
      /\ waiting' \in [Rules -> Seq(Events)]
  BY <1>1, <1>2, <1>3 DEF TypeOK, Rising
<1>5. \A s \in Rules : Len(waiting'[s]) <= MaxQueued
  <2>1. Len(Rest(w)) <= MaxQueued
    BY <1>1, <1>2 DEF Rising
  <2>2. QED  BY <1>1, <1>4, <2>1 DEF TypeOK
<1>6. timer' \in [Rules -> BOOLEAN] /\ TimerArmed'
  <2>1. timer' \in [Rules -> BOOLEAN]
    BY <1>1, <1>3 DEF TypeOK, Rearm
  <2>2. timer'[r] = Rearm(Rest(w)) /\ \A s \in Rules \ {r} : timer'[s] = timer[s]
    BY <1>1, <1>3 DEF TypeOK
  <2>3. waiting'[r] # <<>> => timer'[r]
    BY <1>4, <2>2 DEF Rearm
  <2>4. \A s \in Rules \ {r} : waiting'[s] # <<>> => timer'[s]
    BY <1>1, <1>4, <2>2 DEF BatchInv, TimerArmed
  <2>5. QED  BY <2>1, <2>3, <2>4 DEF TimerArmed
<1>7. CASE Fire(r, "event", Batch(w))
  <2>1. Batch(w) \in Seq(Events)
    BY <1>2 DEF Rising
  <2>2. \A e : Before(e, waiting[r]) => Before(e, Batch(w)) /\ Before(e, waiting'[r])
    BY <1>2, <1>4 DEF w
  <2>3. Rising(waiting'[r], emitted) /\ Before(Batch(w), waiting'[r])
    BY <1>2, <1>4
  <2>4. QED
    BY <1>2, <1>3, <1>4, <1>5, <1>6, <1>7, <2>1, <2>2, <2>3, FireInv
<1>8. CASE UNCHANGED <<runVars, msgVars>>
  <2>1. UNCHANGED <<born, of, record, carries, stage, closed>>
    BY <1>8 DEF runVars, msgVars
  <2>2. \A q \in Runs : of[q] \in Rules => Before(carries[q], waiting'[of[q]])
    <3> SUFFICES ASSUME NEW q \in Runs, of[q] \in Rules
                 PROVE  Before(carries[q], waiting'[of[q]])
      OBVIOUS
    <3>1. Before(carries[q], waiting[of[q]])
      BY <1>1 DEF BatchInv
    <3>2. CASE of[q] = r
      BY <1>2, <1>4, <3>1, <3>2 DEF w
    <3>3. CASE of[q] # r
      BY <1>4, <3>1, <3>3
    <3>4. QED  BY <3>2, <3>3
  <2>3. \A s \in Rules : Rising(waiting'[s], emitted)
    BY <1>1, <1>2, <1>4 DEF BatchInv
  <2>4. BatchInv'
    BY <1>1, <1>3, <1>6, <2>1, <2>2, <2>3 DEF BatchInv
  <2>5. TypeOK'
    BY <1>1, <1>3, <1>4, <1>5, <1>6, <2>1 DEF TypeOK
  <2>6. Unborn' /\ MessageInv' /\ FlightInv'
    BY <1>1, <1>3, <2>1 DEF Unborn, MessageInv, FlightInv, Rough
  <2>7. QED  BY <2>4, <2>5, <2>6 DEF EngineInv
<1>9. QED  BY <1>7, <1>8 DEF FlushBatch, w

\* Fires that take no events leave the backlog alone; so do edits.
LEMMA RulePreserves ==
  ASSUME EngineInv, NEW r \in Rules, RuleStep(r)
  PROVE  EngineInv'
<1>1. /\ TypeOK /\ BatchInv /\ Unborn /\ MessageInv /\ FlightInv
      /\ emitted \in Nat /\ <<>> \in Seq(Events)
  BY DEF EngineInv, TypeOK
<1>2. CASE ScheduleTick(r) \/ RunNow(r)
  <2>1. PICK how : Fire(r, how, <<>>)
    BY <1>2 DEF ScheduleTick, RunNow
  <2>2. UNCHANGED <<scenario, rule, waiting, timer, emitted, up>>
    BY <1>2 DEF ScheduleTick, RunNow, batchVars
  <2>3. /\ waiting' \in [Rules -> Seq(Events)] /\ timer' \in [Rules -> BOOLEAN]
        /\ \A s \in Rules : Len(waiting'[s]) <= MaxQueued
        /\ Rising(waiting'[r], emitted) /\ Rising(<<>>, emitted) /\ TimerArmed'
        /\ \A s \in Rules \ {r} : waiting'[s] = waiting[s]
    BY <1>1, <2>2, EmptyRises DEF TypeOK, BatchInv, TimerArmed
  <2>4. /\ \A e : Before(e, waiting[r]) => Before(e, <<>>) /\ Before(e, waiting'[r])
        /\ Before(<<>>, waiting'[r])
    BY <1>1, <2>2, EmptyRises
  <2>5. UNCHANGED <<scenario, rule, emitted, up>>
    BY <2>2
  <2>6. QED  BY <1>1, <2>1, <2>3, <2>4, <2>5, FireInv
<1>3. CASE ToggleRule(r) \/ DeleteRule(r)
  <2>1. /\ UNCHANGED <<scenario, waiting, timer, emitted, born, of, record, carries,
                       stage, closed, up>>
        /\ rule' \in [Rules -> {"on", "off", "gone"}]
    BY <1>1, <1>3 DEF ToggleRule, DeleteRule, batchVars, runVars, msgVars, TypeOK
  <2>2. TypeOK'
    BY <1>1, <2>1 DEF TypeOK
  <2>3. BatchInv'
    BY <1>1, <2>1 DEF BatchInv, TimerArmed
  <2>4. Unborn' /\ MessageInv' /\ FlightInv'
    BY <1>1, <2>1 DEF Unborn, MessageInv, FlightInv, Rough
  <2>5. QED  BY <2>2, <2>3, <2>4 DEF EngineInv
<1>4. QED  BY <1>2, <1>3, FlushPreserves DEF RuleStep

\* The backlogs are lost with the process, and a run may be left without a
\* message.
LEMMA CrashPreserves ==
  ASSUME EngineInv, Crash
  PROVE  EngineInv'
<1>1. /\ TypeOK /\ BatchInv /\ Unborn /\ MessageInv /\ FlightInv
      /\ emitted \in Nat /\ <<>> \in Seq(Events)
      /\ waiting' = [r \in Rules |-> <<>>] /\ timer' = [r \in Rules |-> FALSE]
      /\ up' = FALSE
      /\ UNCHANGED <<scenario, rule, emitted, stage, closed>>
  BY DEF EngineInv, TypeOK, Crash, msgVars
<1>2. Rough /\ Rough'
  BY <1>1 DEF Crash, Rough
<1>3. /\ \A s \in Rules : waiting'[s] = <<>>
      /\ \A s \in Rules : Rising(waiting'[s], emitted) /\ Len(waiting'[s]) = 0
      /\ \A s \in Rules : \A e : Before(e, waiting'[s])
      /\ Rising(<<>>, emitted) /\ \A e : Before(<<>>, e) /\ Before(e, <<>>)
      /\ TimerArmed'
  BY <1>1, EmptyRises DEF TimerArmed
<1>4. /\ waiting' \in [Rules -> Seq(Events)] /\ timer' \in [Rules -> BOOLEAN]
      /\ \A s \in Rules : Len(waiting'[s]) <= MaxQueued
      /\ up' \in BOOLEAN
  <2>1. waiting' \in [Rules -> Seq(Events)]
    BY <1>1
  <2>2. \A s \in Rules : Len(waiting'[s]) <= MaxQueued
    BY <1>3
  <2>3. QED  BY <1>1, <2>1, <2>2
<1>5. CASE UNCHANGED runVars
  <2>1. UNCHANGED <<born, of, record, carries>>
    BY <1>5 DEF runVars
  <2>2. TypeOK'
    BY <1>1, <1>4, <2>1 DEF TypeOK
  <2>3. BatchInv'
    BY <1>1, <1>3, <2>1 DEF BatchInv
  <2>4. Unborn' /\ MessageInv' /\ FlightInv'
    BY <1>1, <1>2, <2>1 DEF Unborn, MessageInv, FlightInv
  <2>5. QED  BY <2>2, <2>3, <2>4 DEF EngineInv
<1>6. CASE \E r \in Rules : Begin(r, "running", <<>>)
  <2>1. PICK r \in Rules : Begin(r, "running", <<>>)
    BY <1>6
  <2>2. /\ born + 1 \in Runs /\ born' \in 0 .. MaxRuns
        /\ of' \in [Runs -> Rules \cup {None}] /\ record' \in [Runs -> Records]
        /\ carries' \in [Runs -> Seq(Events)]
    BY <1>1, <2>1, BeginEffect DEF Records
  <2>3. TypeOK'
    BY <1>1, <1>4, <2>2 DEF TypeOK
  <2>4. BatchInv'
    <3>1. "running" \in Records /\ emitted' = emitted
      BY <1>1 DEF Records
    <3>2. TypeOK /\ Unborn /\ BatchInv /\ <<>> \in Seq(Events)
      BY <1>1
    <3>3. /\ \A s \in Rules : \A e : Before(e, waiting[s]) => Before(e, waiting'[s])
          /\ \A e : Before(e, waiting[r]) => Before(e, <<>>)
          /\ \A s \in Rules : Rising(waiting'[s], emitted)
          /\ Before(<<>>, waiting'[r])
      BY <1>3
    <3>4. QED  BY <1>3, <2>1, <3>1, <3>2, <3>3, BeginBatch, ZenonT(30)
  <2>5. /\ stage' \in [Runs -> MsgStages]
        /\ stage'[born + 1] \in Lifecycle!InFlight \cup {"new"}
        /\ \A q \in Runs \ {born + 1} : stage'[q] = stage[q]
    <3>1. born + 1 > born
      BY <1>1 DEF TypeOK
    <3>2. stage[born + 1] = "new"
      BY <1>1, <2>2, <3>1 DEF Unborn
    <3>3. QED  BY <1>1, <3>2 DEF TypeOK, MsgStages
  <2>6. Unborn' /\ MessageInv' /\ FlightInv'
    BY <1>1, <1>2, <2>1, <2>5, BeginMessages
  <2>7. QED  BY <2>3, <2>4, <2>6 DEF EngineInv
<1>7. QED  BY <1>5, <1>6 DEF Crash

LEMMA RestartPreserves ==
  ASSUME EngineInv, Restart
  PROVE  EngineInv'
<1>1. /\ TypeOK /\ BatchInv /\ Unborn /\ MessageInv /\ FlightInv
      /\ UNCHANGED <<scenario, rule, waiting, timer, emitted, born, of, record, carries,
                     closed>>
      /\ up' = TRUE /\ ~ up
  BY DEF EngineInv, Restart, batchVars, runVars
<1>2. /\ stage' \in [Runs -> MsgStages]
      /\ \A q \in Runs : \/ stage'[q] = stage[q]
                         \/ stage[q] = "running" /\ stage'[q] \in {"dead", "waiting"}
  <2>1. stage \in [Runs -> MsgStages]
    BY <1>1 DEF TypeOK, MsgStages
  <2>2. PICK lost : stage' = [q \in Runs |-> IF stage[q] # "running" THEN stage[q]
                                             ELSE IF q \in lost THEN "dead" ELSE "waiting"]
    BY DEF Restart
  <2>3. \A q \in Runs : \/ stage'[q] = stage[q]
                        \/ stage[q] = "running" /\ stage'[q] \in {"dead", "waiting"}
    BY <2>2
  <2>4. \A q \in Runs : stage'[q] \in MsgStages
    BY <2>1, <2>3 DEF MsgStages, Lifecycle!Stages
  <2>5. QED  BY <2>2, <2>3, <2>4
<1>3. TypeOK'
  BY <1>1, <1>2 DEF TypeOK, MsgStages
<1>4. BatchInv'
  BY <1>1 DEF BatchInv, TimerArmed
<1>5. Rough /\ Rough'
  BY <1>1 DEF FlightInv, Rough
<1>6. Unborn' /\ MessageInv' /\ FlightInv'
  BY <1>1, <1>2, <1>5 DEF Unborn, MessageInv, FlightInv
<1>7. QED  BY <1>3, <1>4, <1>6 DEF EngineInv

LEMMA InitEngine == Init => EngineInv
<1> SUFFICES ASSUME Init PROVE EngineInv
  OBVIOUS
<1>1. /\ \A r \in Rules : waiting[r] = <<>> /\ Len(waiting[r]) = 0
      /\ \A q \in Runs : /\ carries[q] = <<>> /\ of[q] = None /\ stage[q] = "new"
                         /\ ~ closed[q] /\ record[q] = "none"
      /\ emitted = 0 /\ <<>> \in Seq(Events) /\ up
  BY DEF Init, Lifecycle!Init
<1>2. TypeOK
  <2>1. waiting \in [Rules -> Seq(Events)] /\ carries \in [Runs -> Seq(Events)]
    BY <1>1 DEF Init
  <2>2. 0 \in 0 .. MaxEvents /\ 0 \in 0 .. MaxRuns
    OBVIOUS
  <2>3. QED  BY <1>1, <2>1, <2>2 DEF Init, TypeOK, Records, Lifecycle!Init, Lifecycle!Stages
<1>3. BatchInv
  <2>1. Rising(<<>>, emitted) /\ \A s : Before(s, <<>>) /\ Before(<<>>, s)
    BY <1>1, EmptyRises
  <2>2. QED  BY <1>1, <2>1 DEF BatchInv, TimerArmed
<1>4. Unborn /\ MessageInv /\ FlightInv
  BY <1>1 DEF Unborn, MessageInv, FlightInv
<1>5. QED  BY <1>2, <1>3, <1>4 DEF EngineInv

LEMMA NextEngine == EngineInv /\ [Next]_vars => EngineInv'
<1> SUFFICES ASSUME EngineInv, [Next]_vars PROVE EngineInv'
  OBVIOUS
<1>1. CASE UNCHANGED vars
  BY <1>1 DEF EngineInv, vars, batchVars, runVars, msgVars, TypeOK, BatchInv, TimerArmed,
              Unborn, MessageInv, FlightInv, Rough
<1>2. CASE Next
  BY <1>2, EmitPreserves, RulePreserves, QueuePreserves, CrashPreserves,
     RestartPreserves DEF Next
<1>3. QED  BY <1>1, <1>2

\* The inductive invariant of the engine, for any rules and any limits.
THEOREM EngineInvariant == Spec => []EngineInv
BY InitEngine, NextEngine, PTL DEF Spec

\* No backlog is left without a flush.
THEOREM AlwaysFlushed == Spec => []TimerArmed
<1>1. EngineInv => TimerArmed
  BY DEF EngineInv, BatchInv
<1>2. QED  BY <1>1, EngineInvariant, PTL

\* Every event wakes a rule once at most, and the wakes tell them in their order.
THEOREM TellsInOrder == Spec => []WakesInOrder
<1>1. EngineInv => WakesInOrder
  <2> SUFFICES ASSUME EngineInv, NEW r \in Rules
               PROVE  /\ \A q \in {q \in Runs : of[q] = r} : \A i, j \in 1 .. Len(carries[q]) :
                           i < j => carries[q][i] < carries[q][j]
                      /\ \A p, q \in {q \in Runs : of[q] = r} : p < q =>
                           \A d \in EventsOf(p), e \in EventsOf(q) : d < e
                      /\ \A q \in {q \in Runs : of[q] = r} :
                           \A d \in EventsOf(q), i \in 1 .. Len(waiting[r]) : d < waiting[r][i]
    BY DEF WakesInOrder
  <2>1. BatchInv
    BY DEF EngineInv
  <2>2. \A q \in {q \in Runs : of[q] = r} : \A i, j \in 1 .. Len(carries[q]) :
          i < j => carries[q][i] < carries[q][j]
    BY <2>1 DEF BatchInv, Rising
  <2>3. ASSUME NEW p \in Runs, NEW q \in Runs, of[p] = r, of[q] = r, p < q,
               NEW d \in EventsOf(p), NEW e \in EventsOf(q)
        PROVE  d < e
    <3>1. Before(carries[p], carries[q])
      BY <2>1, <2>3 DEF BatchInv
    <3>2. QED  BY <3>1 DEF Before, EventsOf
  <2>4. ASSUME NEW q \in Runs, of[q] = r, NEW d \in EventsOf(q),
               NEW i \in 1 .. Len(waiting[r])
        PROVE  d < waiting[r][i]
    <3>1. Before(carries[q], waiting[r])
      BY <2>1, <2>4 DEF BatchInv
    <3>2. QED  BY <3>1 DEF Before, EventsOf
  <2>5. QED  BY <2>2, <2>3, <2>4
<1>2. QED  BY <1>1, EngineInvariant, PTL

\* A run recorded as running has a message that is still to end, and to close it.
THEOREM RunsHaveMessages == Spec => []RunningMeansInFlight
<1>1. EngineInv => RunningMeansInFlight
  BY DEF EngineInv, FlightInv, RunningMeansInFlight
<1>2. QED  BY <1>1, EngineInvariant, PTL
=============================================================================
