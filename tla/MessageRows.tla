----------------------------- MODULE MessageRows -----------------------------
(***************************************************************************)
(* One row of the daemon's "messages" table, and what each guarded UPDATE  *)
(* of the queue library does to it.  A row is never read or written by two *)
(* actors at once (SQLite serialises the statements), so every statement   *)
(* is a function from the row it finds to the row it leaves; a statement   *)
(* whose WHERE clause does not match leaves the row as it was.             *)
(***************************************************************************)
EXTENDS Naturals

CONSTANTS
  MaxRetries,     \* MAX_RETRIES: failures after which a row is dead (5)
  MaxRecoveries   \* MAX_RECOVERIES: restarts a row may be caught by (3)

ASSUME RowAssumption ==
  /\ MaxRetries \in Nat \ {0}
  /\ MaxRecoveries \in Nat \ {0}

\* A row that has not been inserted yet is "new"; a deleted row is "gone".
Active  == {"pending", "queued", "processing"}
Settled == {"completed", "dead", "cancelled"}
Stored  == Active \cup Settled
Status  == Stored \cup {"new", "gone"}

\* A dead row may be failed once more by the run that is still unwinding, so
\* its count can pass the limit by one.
Row == [status    : Status,
        retries   : 0 .. MaxRetries + 1,
        recovery  : 0 .. MaxRecoveries - 1]

Blank == [status |-> "new", retries |-> 0, recovery |-> 0]
Gone  == [Blank EXCEPT !.status = "gone"]

To(r, s) == [r EXCEPT !.status = s]

Insert(r)         == IF r.status = "new" THEN To(Blank, "pending") ELSE r
Claim(r)          == IF r.status = "pending" THEN To(r, "queued") ELSE r
MarkProcessing(r) == IF r.status = "queued" THEN To(r, "processing") ELSE r

\* Mutant: the completion does not look at the status it overwrites.
CompleteAnyway(r) == IF r.status \in Active THEN To(r, "completed") ELSE r
\* Mutant: the pause puts the row one step further than it was claimed from.
InterruptToQueued(r) == IF r.status = "processing" THEN To(r, "queued") ELSE r

Complete(r)       == IF r.status = "processing" THEN To(r, "completed") ELSE r
Interrupt(r)      == IF r.status = "processing" THEN To(r, "pending") ELSE r
Cancel(r)         == IF r.status \in Active THEN To(r, "cancelled") ELSE r

\* Mutant: a row is given one try more than it has.
FailOutcomeLate(r) ==
  IF r.retries + 1 > MaxRetries THEN "dead" ELSE "pending"

\* The status failMessage computes from the count it read, applied or not.
FailOutcome(r) ==
  IF r.retries + 1 >= MaxRetries THEN "dead" ELSE "pending"

\* Mutant: the guard against reviving a cancelled row is missing.
FailUnguarded(r) ==
  IF r.status \in Stored
  THEN [r EXCEPT !.status = FailOutcome(r), !.retries = @ + 1]
  ELSE r

Fail(r) ==
  IF r.status \in Stored \ {"cancelled"}
  THEN [r EXCEPT !.status = FailOutcome(r), !.retries = @ + 1]
  ELSE r

DeadLetter(r) ==
  IF r.status \in {"queued", "processing"}
  THEN [r EXCEPT !.status = "dead", !.retries = @ + 1]
  ELSE r

\* Mutant: a row caught between claim and mark is not recovered.
RecoverProcessingOnly(r) ==
  IF r.status = "processing"
  THEN IF r.recovery >= MaxRecoveries - 1
       THEN To(r, "dead")
       ELSE [r EXCEPT !.status = "pending", !.recovery = @ + 1]
  ELSE r

\* Both UPDATEs of recoverStaleMessages(0): at startup every row left in
\* flight is stale.
Recover(r) ==
  IF r.status \in {"queued", "processing"}
  THEN IF r.recovery >= MaxRecoveries - 1
       THEN To(r, "dead")
       ELSE [r EXCEPT !.status = "pending", !.recovery = @ + 1]
  ELSE r

RetryDead(r) ==
  IF r.status = "dead"
  THEN [r EXCEPT !.status = "pending", !.retries = 0]
  ELSE r

DeleteDead(r) == IF r.status = "dead" THEN Gone ELSE r

PruneSettled(r) ==
  IF r.status \in {"completed", "cancelled"} THEN Gone ELSE r

\* What a chain whose kill epoch has passed does to a pending row: it claims
\* and fails the row, over and over, without a pause, until the claim no
\* longer finds it.  The closed form of that loop (proved
\* in QueueDaemonProofs).
Drain(r) ==
  IF r.status = "pending"
  THEN [r EXCEPT !.status = "dead", !.retries = MaxRetries]
  ELSE r

=============================================================================
