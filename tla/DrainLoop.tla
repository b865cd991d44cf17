------------------------------ MODULE DrainLoop ------------------------------
(***************************************************************************)
(* The loop of a chain whose kill epoch has passed, one claim at a time:   *)
(* claim the next pending row, see that the epoch has moved, fail the row, *)
(* go round again.  It runs without an await, so nobody sees the steps;    *)
(* QueueDaemon takes it as the single step MessageRows!Drain, which is     *)
(* proved in QueueDaemonProofs to be what the loop leaves, for any rows    *)
(* and any number of retries.                                              *)
(***************************************************************************)
EXTENDS MessageRows

CONSTANT Pile    \* the rows of one chain key

VARIABLES
  found,   \* the table when the loop starts
  left     \* the table now

loopVars == <<found, left>>

\* Rows the table can hold when a chain takes its next turn.
Resting == {r \in Row : /\ r.status \in Status \ {"queued", "processing"}
                        /\ r.status = "pending" => r.retries < MaxRetries}

LoopInit ==
  /\ found \in [Pile -> Resting]
  /\ left = found

Turn ==
  /\ \E m \in Pile :
       /\ left[m].status = "pending"
       /\ left' = [left EXCEPT ![m] = Fail(Claim(@))]
  /\ UNCHANGED found

Loop == LoopInit /\ [][Turn]_loopVars

\* When the claim finds no row, the table is the one Drain gives, whatever
\* order the claims were made in.
DrainIsClosedForm ==
  (\A m \in Pile : left[m].status # "pending") =>
    left = [m \in Pile |-> Drain(found[m])]
=============================================================================
