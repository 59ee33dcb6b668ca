---------------------------- MODULE EtagContract ----------------------------
(***************************************************************************)
(* What docs/API.md promises of If-Match: "the user has read the most up   *)
(* to date value of the resource before to update/delete it".  A resource  *)
(* has one version at a time, and an update or a deletion takes effect     *)
(* only when the client that asked for it names that version.              *)
(***************************************************************************)
EXTENDS Integers, Sequences

CONSTANT Clients

VARIABLES
    version,    \* the etag of the row; etags are fresh, so a counter names them
    log         \* who changed the resource, naming which version, giving which

contractVars == <<version, log>>

Init == version = 0 /\ log = <<>>

(* An update or a deletion: the deletion is a change of the state column.  *)
Change(c) ==
    /\ version' = version + 1
    /\ log' = Append(log, [by |-> c, base |-> version, etag |-> version + 1])

Next == \E c \in Clients : Change(c)

Spec == Init /\ [][Next]_contractVars
=============================================================================
