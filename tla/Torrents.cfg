\* One torrent under many requests and changes, two requests at a time, or two
\* syncs at a time.
SPECIFICATION LiveSpec
CONSTANTS
  Ids = {i1, i2}
  Hashes = {h1, h2}
  Clients = {c1, c2}
  Syncs = {s1, s2}
  Loads <- MCLoads
  c1 = c1
  c2 = c2
  s1 = s1
  s2 = s2
  h1 = h1
  h2 = h2
INVARIANTS OneRowPerHash OwnTorrent AnnouncedOnce
PROPERTIES RemovedStaysRemoved EventuallyMirrored
CHECK_DEADLOCK FALSE
