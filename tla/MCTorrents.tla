----------------------------- MODULE MCTorrents -----------------------------
(* Torrent tasks under a reload of the P2P profile, on a small instance.   *)
EXTENDS Torrents
=============================================================================
