---------------------------- MODULE MCScheduling ----------------------------
(* Scheduling for TLC: a topic of two types, two components of the first   *)
(* type and two of the second, one of which belongs to a team, and one of  *)
(* a type that the topic does not list.                                    *)
EXTENDS Scheduling, TLC

CONSTANTS a1, a2, b1, b2, x1

MCTypeOf == a1 :> "a" @@ a2 :> "a" @@ b1 :> "b" @@ b2 :> "b" @@ x1 :> "x"
MCTypes == <<"a", "b">>
MCExisting == <<a1, b1, b2, x1>>
MCGiven == {<<>>, <<a1, b1>>, <<a1, b2>>, <<a1, a2>>, <<a1, x1>>, <<a1, a1>>, <<a2>>}
=============================================================================
