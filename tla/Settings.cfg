\* One card alone, the torrent card through restarts, and the editor
\* beside a card and beside the routes.
SPECIFICATION LiveSpec
CONSTANTS
  Sections = {torrent, subtitles, agents}
  Cards = {torrent, subtitles}
  Torrent = torrent
  Fields = {f, key}
  Secrets = {key}
  MaxValue = 1
  MaxEdits = 3
  None = None
  Redacted = Redacted
  Loads = {{subtitles, "restart"}, {torrent, "restart"},
           {subtitles, "raw"}, {"raw", "routes"}}
INVARIANT ConfigSaved
PROPERTIES SiblingsKept UnrelatedKept SavesEnd
CHECK_DEADLOCK FALSE
