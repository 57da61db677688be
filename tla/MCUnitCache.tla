----------------------------- MODULE MCUnitCache -----------------------------
(* A small instance of UnitCache for TLC.  Two compilers are alike.        *)
EXTENDS UnitCache, TLC

Alike == Permutations(Compilers)
=============================================================================
