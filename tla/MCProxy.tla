------------------------------- MODULE MCProxy -------------------------------
(***************************************************************************)
(* Proxy for TLC.  The calls differ only in the requests Init gives them,  *)
(* and the sweepers in nothing, so permuting them is a symmetry; the run   *)
(* with liveness does not use it.                                          *)
(***************************************************************************)
EXTENDS Proxy, TLC

Symmetry == Permutations(Calls) \cup Permutations(Sweepers)
=============================================================================
