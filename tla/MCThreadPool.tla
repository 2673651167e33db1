----------------------------- MODULE MCThreadPool -----------------------------
(***************************************************************************)
(* A small instance of ThreadPool for TLC: two workers, two pushers and    *)
(* three jobs, with the fairness the liveness properties need, and so      *)
(* without symmetry.                                                       *)
(***************************************************************************)
EXTENDS ThreadPool
==============================================================================
