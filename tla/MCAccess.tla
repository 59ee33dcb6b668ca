------------------------------ MODULE MCAccess ------------------------------
(* Access for TLC: a read-only person and another, a product open to two     *)
(* teams, with a topic for all of them and one for pre-release access. The   *)
(* tokens of the first person have a sub, those of the other are openid.     *)
EXTENDS Access, TLC

CONSTANTS n1, n2, e1, e2, e3, s1, t1, t2, p1, tp1, tp2, c1, c2, j1

MCFirstEmail == n1 :> e1 @@ n2 :> e2
MCSubsOf == n1 :> {s1} @@ n2 :> {None}
MCFirstLinks == {<<p1, t1>>}
MCShares == {<<t1, t2>>}
MCTopics == tp1 :> [product |-> p1, export_control |-> TRUE]
            @@ tp2 :> [product |-> p1, export_control |-> FALSE]
MCComponents == c1 :> [topic |-> tp1, team |-> None] @@ c2 :> [topic |-> tp2, team |-> t2]
MCOwned == j1 :> t1
=============================================================================
