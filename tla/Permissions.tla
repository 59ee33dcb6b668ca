---------------------------- MODULE Permissions ----------------------------
(* What an identity sees. A request is served in the name of an identity,   *)
(* made of the teams a user is in (auth_mechanism.py), and each handler      *)
(* looks at its roles and teams: the handlers that list a table filter, the  *)
(* handlers that read one row refuse (identity.py, permissions.py and the    *)
(* modules of api/v1). The operators keep the names of the functions.        *)
EXTENDS FiniteSets

CONSTANTS
  None,
  Teams, Admin, RedHat, Epm,  \* the teams, and the three that give a role
  PreRelease,  \* the teams with pre-release access
  Shares,      \* <<t, a>>: team t sees the components of team a
  Products,
  Topics,      \* topic -> [product, export_control]
  Components,  \* component -> [topic, team], team None for one of the product
  Owned        \* a job, remoteci, pipeline or feeder -> its team

ASSUME RolesAssumption == {Admin, RedHat, Epm} \subseteq Teams /\ None \notin Teams
ASSUME TopicsAssumption ==
  /\ \A t \in DOMAIN Topics : Topics[t].product \in Products
                              /\ Topics[t].export_control \in BOOLEAN
  /\ \A c \in DOMAIN Components : /\ Components[c].topic \in DOMAIN Topics
                                  /\ Components[c].team \in Teams \cup {None}
  /\ \A o \in DOMAIN Owned : Owned[o] \in Teams

VARIABLES
  product_teams,  \* <<p, t>>: the product is open to the team
  deleted         \* the products that are archived

(* Variants named Bug... are mistakes a change of the code could make; no   *)
(* action uses them, the mutation runs put them in place of the original.   *)

-----------------------------------------------------------------------------
(* A user in the teams; X-Dci-Team-Id narrows the request to one of them,    *)
(* a role counts only when its team is not left out.                         *)
BugIdentityFromUser(teams, scope) ==
  LET kept == IF scope = None THEN teams ELSE teams \cap {scope} IN
  [teams |-> kept, super_admin |-> Admin \in kept \cup {scope},
   read_only |-> RedHat \in kept, epm |-> Epm \in kept]

IdentityFromUser(teams, scope) ==
  LET kept == IF scope = None THEN teams ELSE teams \cap {scope} IN
  [teams |-> kept, super_admin |-> Admin \in kept, read_only |-> RedHat \in kept,
   epm |-> Epm \in kept]

IsScopeRefused(teams, scope) ==
  /\ scope \notin teams \cup {None}
  /\ ~IdentityFromUser(teams, scope).super_admin

is_epm(user) == user.epm \/ user.super_admin
is_in_team(user, team) == is_epm(user) \/ team \in user.teams
has_pre_release_access(user) == user.teams \cap PreRelease # {}

(* The condition that most handlers of a list begin with.                    *)
SeesAllTeams(user) == user.super_admin \/ user.read_only \/ user.epm

-----------------------------------------------------------------------------
is_teams_associated_to_product(teams, product) ==
  \E t \in teams : <<product, t>> \in product_teams

BugHasAccessToTopic(user, topic) ==
  /\ Topics[topic].product \notin deleted
  /\ is_teams_associated_to_product(user.teams, Topics[topic].product)
  /\ has_pre_release_access(user)

has_access_to_topic(user, topic) ==
  /\ Topics[topic].product \notin deleted
  /\ is_teams_associated_to_product(user.teams, Topics[topic].product)
  /\ Topics[topic].export_control \/ has_pre_release_access(user)

verify_access_to_topic(user, topic) ==
  SeesAllTeams(user) \/ has_access_to_topic(user, topic)

get_user_product_ids(user) ==
  {p \in Products \ deleted : is_teams_associated_to_product(user.teams, p)}

get_user_topic_ids(user) ==
  {t \in DOMAIN Topics : /\ Topics[t].product \in get_user_product_ids(user)
                         /\ has_pre_release_access(user) \/ Topics[t].export_control}

get_components_access_teams_ids(teams) == {s[2] : s \in {r \in Shares : r[1] \in teams}}

verify_access_to_component(user, component) ==
  LET team == Components[component].team IN
  IF team # None
  THEN is_in_team(user, team) \/ team \in get_components_access_teams_ids(user.teams)
  ELSE verify_access_to_topic(user, Components[component].topic)

-----------------------------------------------------------------------------
(* Lists.                                                                    *)
get_all_topics(user) ==
  {t \in DOMAIN Topics :
     SeesAllTeams(user) \/ t \in get_user_topic_ids(user)}

get_all_components(user, topics) ==
  {c \in DOMAIN Components :
     /\ Components[c].topic \in topics
     /\ \/ is_epm(user)
        \/ Components[c].team = None
        \/ Components[c].team \in user.teams \cup get_components_access_teams_ids(user.teams)}

get_components(user) == get_all_components(user, get_user_topic_ids(user))

get_topics_components(user) ==
  UNION {get_all_components(user, {t}) :
           t \in {s \in DOMAIN Topics : verify_access_to_topic(user, s)}}

get_all_products(user) ==
  IF SeesAllTeams(user) THEN Products \ deleted ELSE get_user_product_ids(user)

(* GET /jobs, /remotecis and /pipelines; feeders are not for read-only users. *)
get_all_jobs(user) == {o \in DOMAIN Owned : SeesAllTeams(user) \/ Owned[o] \in user.teams}
get_all_feeders(user) == {o \in DOMAIN Owned : is_epm(user) \/ Owned[o] \in user.teams}

-----------------------------------------------------------------------------
(* Reading one row.                                                          *)
get_topic_by_id(user, topic) == SeesAllTeams(user) \/ verify_access_to_topic(user, topic)

get_component_by_id(user, component) ==
  SeesAllTeams(user) \/ verify_access_to_component(user, component)

get_product_by_id(user, product) ==
  /\ product \notin deleted
  /\ SeesAllTeams(user) \/ is_teams_associated_to_product(user.teams, product)

BugGetJobById(user, job) == user.super_admin \/ Owned[job] \in user.teams
get_job_by_id(user, job) == SeesAllTeams(user) \/ Owned[job] \in user.teams
get_feeder_by_id(user, feeder) == is_in_team(user, Owned[feeder])

-----------------------------------------------------------------------------
(* The lists of an identity, tagged.                                         *)
Sees(user) ==
  {<<"topic", t>> : t \in get_all_topics(user)}
  \cup {<<"component", c>> : c \in get_components(user) \cup get_topics_components(user)}
  \cup {<<"product", p>> : p \in get_all_products(user)}
  \cup {<<"job", o>> : o \in get_all_jobs(user)}
  \cup {<<"feeder", o>> : o \in get_all_feeders(user)}

CanRead(user, thing) ==
  CASE thing[1] = "topic"     -> get_topic_by_id(user, thing[2])
    [] thing[1] = "component" -> get_component_by_id(user, thing[2])
    [] thing[1] = "product"   -> get_product_by_id(user, thing[2])
    [] thing[1] = "job"       -> get_job_by_id(user, thing[2])
    [] thing[1] = "feeder"    -> get_feeder_by_id(user, thing[2])
=============================================================================
