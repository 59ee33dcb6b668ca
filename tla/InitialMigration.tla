-------------------------- MODULE InitialMigration --------------------------
(* The tables revision a918b053c43a creates, in the terms of Models2 and    *)
(* translated from the migration alone, and its downgrade.                  *)
EXTENDS Models2, Sequences, Naturals

counter ==
  Table({"name", "created_at", "updated_at", "etag"}, {"sequence"}, {"name"}, {}, {}, {})

jobs_events ==
  Table({"id", "created_at", "job_id", "topic_id"}, {"status"}, {"id"}, {}, {},
        {{"job_id"}})

logs ==
  Table({"id", "created_at", "user_id", "action"}, {}, {"id"}, {}, {}, {{"user_id"}})

products ==
  Table(Stamps \cup {"name", "label"}, {"description", "state"}, {"id"},
        {Always({"label"})}, {}, {})

teams ==
  Table(Stamps \cup {"name"}, {"country", "state", "external"}, {"id"},
        {Always({"name"})}, {}, {})

users ==
  Table(Stamps \cup {"name", "fullname", "email", "timezone"},
        {"sso_username", "password", "state"}, {"id"},
        {Always({"email"}), Always({"name"}), Always({"sso_username"})}, {}, {})

feeders ==
  Table(Stamps \cup {"name", "team_id"}, {"data", "api_secret", "state"}, {"id"},
        {Always({"name", "team_id"})}, {Cascade("team_id", "teams")}, {{"team_id"}})

products_teams == Link("product_id", "products", "team_id", "teams")

remotecis ==
  Table(Stamps \cup {"team_id"},
        {"name", "data", "api_secret", "public", "cert_fp", "state"}, {"id"},
        {Always({"name", "team_id"})}, {Cascade("team_id", "teams")}, {{"team_id"}})

topics ==
  Table(Stamps \cup {"name", "export_control"},
        {"component_types", "component_types_optional", "product_id", "next_topic_id",
         "state", "data"},
        {"id"}, {Always({"name"})},
        {NoAction("next_topic_id", "topics"), NoAction("product_id", "products")},
        {{"next_topic_id"}, {"product_id"}})

users_teams ==
  Table({"user_id"}, {"team_id"}, {}, {Always({"user_id", "team_id"})},
        {Cascade("team_id", "teams"), Cascade("user_id", "users")}, {})

components ==
  Table(Stamps \cup {"released_at", "name", "type"},
        {"canonical_project_name", "data", "title", "message", "url", "topic_id",
         "team_id", "state", "tags"},
        {"id"},
        {Always({"name", "topic_id", "type", "team_id"}),
         ActiveOfAll({"name", "topic_id", "type"})},
        {Cascade("team_id", "teams"), Cascade("topic_id", "topics")}, {{"topic_id"}})

JobStrings == {"comment", "status_reason", "configuration", "url", "name",
               "user_agent", "client_version"}

jobs ==
  Table(Stamps \cup {"remoteci_id", "team_id"},
        JobStrings \cup {"duration", "status", "topic_id", "product_id",
                         "previous_job_id", "update_previous_job_id", "state",
                         "tags", "data"},
        {"id"}, {},
        {NoAction("previous_job_id", "jobs"), Cascade("product_id", "products"),
         Cascade("remoteci_id", "remotecis"), Cascade("team_id", "teams"),
         Cascade("topic_id", "topics"), NoAction("update_previous_job_id", "jobs")},
        {{"previous_job_id"}, {"product_id"}, {"remoteci_id"}, {"team_id"},
         {"topic_id"}, {"update_previous_job_id"}})

topics_teams == Link("topic_id", "topics", "team_id", "teams")

user_remotecis == Link("user_id", "users", "remoteci_id", "remotecis")

users_topics == Link("user_id", "users", "topic_id", "topics")

component_files ==
  Table(Stamps \cup {"name"}, {"mime", "md5", "size", "component_id", "state"}, {"id"},
        {}, {Cascade("component_id", "components")}, {{"component_id"}})

jobs_components == Link("job_id", "jobs", "component_id", "components")

jobstates ==
  Table({"id", "created_at", "status", "job_id"}, {"comment"}, {"id"}, {},
        {Cascade("job_id", "jobs")}, {{"job_id"}})

files ==
  Table(Stamps \cup {"name", "team_id"},
        {"mime", "md5", "size", "state", "jobstate_id", "job_id"}, {"id"}, {},
        {Cascade("job_id", "jobs"), Cascade("jobstate_id", "jobstates"),
         Cascade("team_id", "teams")},
        {{"job_id"}, {"jobstate_id"}, {"team_id"}})

tests_results ==
  Table({"id", "created_at", "updated_at", "name", "job_id", "file_id"},
        {"total", "success", "skips", "failures", "regressions", "successfixes",
         "errors", "time"},
        {"id"}, {}, {Cascade("file_id", "files"), Cascade("job_id", "jobs")},
        {{"file_id"}, {"job_id"}})

-----------------------------------------------------------------------------
Created ==
  [counter |-> counter, jobs_events |-> jobs_events, logs |-> logs,
   products |-> products, teams |-> teams, users |-> users, feeders |-> feeders,
   products_teams |-> products_teams, remotecis |-> remotecis, topics |-> topics,
   users_teams |-> users_teams, components |-> components, jobs |-> jobs,
   topics_teams |-> topics_teams, user_remotecis |-> user_remotecis,
   users_topics |-> users_topics, component_files |-> component_files,
   jobs_components |-> jobs_components, jobstates |-> jobstates, files |-> files,
   tests_results |-> tests_results]

(* The order in which the downgrade drops them. *)
Dropped ==
  <<"tests_results", "files", "jobstates", "jobs_components", "component_files",
    "users_topics", "user_remotecis", "topics_teams", "jobs", "components",
    "users_teams", "topics", "remotecis", "products_teams", "feeders", "users",
    "teams", "products", "logs", "jobs_events", "counter">>

(* PostgreSQL drops no table that a foreign key of another one names, and   *)
(* no index that is not there.                                              *)
DropsInOrder(tables) ==
  \A i \in DOMAIN Dropped :
    LET left == DOMAIN tables \ {Dropped[j] : j \in 1..i}
    IN  /\ Dropped[i] \in DOMAIN tables
        /\ Created[Dropped[i]].index \subseteq tables[Dropped[i]].index
        /\ \A t \in left : \A r \in tables[t].refs : r[2] # Dropped[i]
=============================================================================
