--------------------------- MODULE MCDispatchJournal --------------------------
(* An instance of DispatchJournal with two root tasks. *)
EXTENDS DispatchJournal, TLC

CONSTANTS a, b
===============================================================================
