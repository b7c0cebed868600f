------------------------------ MODULE MCWRange ------------------------------
(***************************************************************************)
(* WRange over six bytes: room for three intervals that do not touch, and  *)
(* for one that overlaps two, or all three, at once.                       *)
(***************************************************************************)
EXTENDS WRange
=============================================================================
