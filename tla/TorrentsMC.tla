----------------------------- MODULE TorrentsMC -----------------------------
(* Torrents for model checking. *)
EXTENDS Torrents

CONSTANTS c1, c2, s1, s2, h1, h2

Busy(w, h, r, m) ==
  [who |-> w, hashes |-> h, requests |-> r, moves |-> m]

\* One torrent and many requests and changes; two requests at a time; two
\* syncs at a time, of one torrent or of two.
MCLoads ==
  {Busy({c1, s1}, {h1}, 3, 2), Busy({c1, c2, s1}, {h1, h2}, 2, 1),
   Busy({c1, s1, s2}, {h1}, 2, 1), Busy({c1, s1, s2}, {h1, h2}, 1, 2)}
=============================================================================
