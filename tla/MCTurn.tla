-------------------------------- MODULE MCTurn --------------------------------
(* Turn on small instances. *)
EXTENDS Turn
================================================================================
