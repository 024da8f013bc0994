------------------------------ MODULE MCAgent ------------------------------
(* Small instances of Agent. *)
EXTENDS Agent
=============================================================================
