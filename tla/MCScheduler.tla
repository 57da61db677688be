----------------------------- MODULE MCScheduler -----------------------------
(* A small instance of Scheduler for TLC.                                  *)
EXTENDS Scheduler

CONSTANT m

MCMessage == {m}
MCWants == {{m}, {}}
=============================================================================
