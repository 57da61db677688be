------------------------------ MODULE MCActors ------------------------------
(* A small instance of Actors for TLC: no user messages, so that the only  *)
(* traffic is the envelopes of tasks and servers.                          *)
EXTENDS Actors
=============================================================================
