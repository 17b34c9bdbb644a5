------------------------------- MODULE MCReplay -------------------------------
(* The collector and the replayer of its log over the small exchange. *)
EXTENDS Replay, MCVenue
===============================================================================
