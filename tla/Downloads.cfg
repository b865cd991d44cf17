\* Three torrents, two of them seeding; two things that users do, and a fetch or two.
SPECIFICATION RowLiveSpec
CONSTANTS
  Torrents = {1, 2, 3}
  Finished = {1, 3}
  Seeding = {1, 3}
  NoCard = NoCard
  MaxEdits = 2
  MaxFetches = 1
  RowLoads = {{"drag", "new"}, {"drag", "nudge", "pill"}, {"drag", "outside", "pill"},
           {"remove"}, {"remove", "faults", "pill"}}
INVARIANTS
  NoFlash
PROPERTIES
  DropLands
  RowSettles
CHECK_DEADLOCK FALSE
