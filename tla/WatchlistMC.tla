---------------------------- MODULE WatchlistMC ----------------------------
(* Watchlist for model checking. *)
EXTENDS Watchlist

CONSTANTS film

\* Every find leads to the one torrent.
OneTorrent == [f \in Finds |-> film]
=============================================================================
