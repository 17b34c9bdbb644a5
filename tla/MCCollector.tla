----------------------------- MODULE MCCollector ------------------------------
(* The collector over the small exchange. *)
EXTENDS Collector, MCVenue
===============================================================================
