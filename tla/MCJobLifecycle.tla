--------------------------- MODULE MCJobLifecycle ---------------------------
(* JobLifecycle for TLC: requests are interchangeable. *)
EXTENDS JobLifecycle, TLC

RequestSymmetry == Permutations(Requests)
=============================================================================
