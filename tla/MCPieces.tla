------------------------------ MODULE MCPieces ------------------------------
(***************************************************************************)
(* Pieces with bytes of two bits and counters of five values: one torrent  *)
(* has two bytes with a spare bit, the other one full byte, and commands   *)
(* go on until the counter has gone round.                                 *)
(***************************************************************************)
EXTENDS Pieces
CONSTANTS t1, t2
MCTorrents    == {t1, t2}
MCTotalPieces == [t \in MCTorrents |-> IF t = t1 THEN 3 ELSE 2]
=============================================================================
