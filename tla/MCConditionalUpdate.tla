------------------------ MODULE MCConditionalUpdate ------------------------
(* ConditionalUpdate for TLC: clients are interchangeable. *)
EXTENDS ConditionalUpdate, TLC

ClientSymmetry == Permutations(Clients)
=============================================================================
