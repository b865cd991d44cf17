\* A magnet and an indexer's link to one torrent; a search stores one of them.
SPECIFICATION LiveSpec
CONSTANTS
  Entries = {e1, e2}
  Listed = {e1}
  Finds = {m, l}
  Hashed = {m}
  film = film
  Torrents = {film}
  Leads <- OneTorrent
  Limit = 1
  Workers = {w1, w2}
  MaxUser = 2
  MaxSearches = 1
INVARIANT NoDoubleGrab
PROPERTIES NeverComesBack KeepsLooking
CHECK_DEADLOCK FALSE
