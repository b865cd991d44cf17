\* Two rules with any triggers of two members over two instants; one edit, or
\* crashes.
SPECIFICATION Spec
CONSTANTS
  Rules = {r1, r2}
  Slots = {c1, c2}
  MaxMembers = 2
  MaxTime = 2
  MaxEdits = 1
  Scenarios = {{"edit"}, {"crash"}}
INVARIANTS
  JobsAreScheduled
  NoWakeTwice
  CronArmed
  OnceKeptSinceReload
CHECK_DEADLOCK FALSE
