----------------------------- MODULE MCRunCache -----------------------------
(* A small instance of RunCache for TLC.  Two processes of one user are    *)
(* alike.                                                                  *)
EXTENDS RunCache, TLC

Alike == Permutations(Processes)
=============================================================================
