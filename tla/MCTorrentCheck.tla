--------------------------- MODULE MCTorrentCheck ---------------------------
(***************************************************************************)
(* TorrentCheck on two torrents.  The intervals differ, as they do in      *)
(* main.c (1 and 10 seconds), so that a timer can fire between two checks  *)
(* of one torrent and a torrent can become due between two timers.         *)
(***************************************************************************)
EXTENDS TorrentCheck
CONSTANTS t1, t2
MCTorrents == {t1, t2}
=============================================================================
