----------------------------- MODULE MCWebSocket -----------------------------
(* A small instance of WebSocket for TLC: the configuration names the      *)
(* processes.                                                              *)
EXTENDS WebSocket
=============================================================================
