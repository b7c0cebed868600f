----------------------------- MODULE MCStorage -----------------------------
(***************************************************************************)
(* Storage with one descriptor fewer than there are files.                 *)
(***************************************************************************)
EXTENDS Storage
CONSTANTS t1, t2
MCTorrents == {t1, t2}
MCPieceIDs == {0, 1}
MCFds      == {3, 4, 5}
=============================================================================
