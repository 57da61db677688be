---------------------------- MODULE MCHttpServer ----------------------------
(* A small instance of HttpServer for TLC: the configuration names the     *)
(* connections and the clients.                                            *)
EXTENDS HttpServer
=============================================================================
