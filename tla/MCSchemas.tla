----------------------------- MODULE MCSchemas -----------------------------
EXTENDS Schemas

A == Text("a", {"a"}, "1", FALSE)
B == Text("b", {"b"}, "1", FALSE)
AB == Text("ab", {"ab", "a", "b"}, "1", FALSE)
Agent == Text("agent", {"agent", "dci-openshift-app-agent"}, "2", FALSE)

(* Two names of one canonical name, and an agent without one.               *)
MCOrigins == {<<A, AB>>, <<B, AB>>, <<Agent, Null>>}
MCReleases == {"a918b053c43a", "66680dcf2c88", Newest}
=============================================================================
