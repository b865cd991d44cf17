--------------------------- MODULE MessageLifecycle ---------------------------
(***************************************************************************)
(* What the queue promises about each message, whoever runs it and however *)
(* often: where a message can go from each stage of its life, and that its *)
(* end is announced unless something rough may happen.  Several messages   *)
(* may move in one step: a restart, or the end of a killed chain, moves    *)
(* many.  QueueDaemon implements this module; Automations has it for its   *)
(* queue.                                                                  *)
(***************************************************************************)
CONSTANT Msgs

VARIABLES
  stage,   \* where the message is in its life
  closed,  \* an end of it has been announced
  rough    \* a kill, a crash or a shutdown may end messages unannounced

lifeVars == <<stage, closed, rough>>

Stages == {"new", "waiting", "running", "completed", "dead", "cancelled", "gone"}

InFlight == {"waiting", "running"}
Ended    == {"completed", "dead", "cancelled"}

\* The stages a message may be in one step after stage s.
After(s) ==
  CASE s = "new"       -> {"new", "waiting", "running"}
    [] s = "waiting"   -> {"waiting", "running", "dead", "cancelled"}
    [] s = "running"   -> {"running", "waiting", "completed", "dead", "cancelled"}
    [] s = "dead"      -> {"dead", "waiting", "running", "gone"}
    [] s = "completed" -> {"completed", "gone"}
    [] s = "cancelled" -> {"cancelled", "gone"}
    [] s = "gone"      -> {"gone"}

Init ==
  /\ stage = [m \in Msgs |-> "new"]
  /\ closed = [m \in Msgs |-> FALSE]
  /\ rough \in BOOLEAN

\* A message ends announced, unless something rough may happen; only what was
\* taken in can be announced to have ended, and it stays so.
Move(m) ==
  /\ stage'[m] \in After(stage[m])
  /\ closed[m] => closed'[m]
  /\ closed'[m] => stage'[m] # "new"
  /\ stage'[m] \in Ended => closed'[m] \/ rough

Next ==
  /\ stage' \in [Msgs -> Stages]
  /\ closed' \in [Msgs -> BOOLEAN]
  /\ rough' = rough
  /\ \A m \in Msgs : Move(m)

Spec == Init /\ [][Next]_lifeVars
=============================================================================
