------------------------------ MODULE MCRawWriter ------------------------------
(* The writer, its restarts and its reader. *)
EXTENDS RawWriter
===============================================================================
