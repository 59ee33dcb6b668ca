------------------------------ MODULE Models2 ------------------------------
(* The tables the server declares (dci/db/models2.py). A table is seen as  *)
(* what an INSERT, an UPDATE or a DELETE of a row can be refused for:      *)
(*   required, nullable   its columns, with and without NOT NULL           *)
(*   key                  the columns of its primary key                   *)
(*   unique               its unique constraints, each with the rows it    *)
(*                        ranges over                                      *)
(*   refs                 its foreign keys and their ON DELETE rule        *)
(*   index                the columns of its other indexes                 *)
(* Types, lengths and constraint names are left out; Defaults holds what   *)
(* the ORM gives a column that an INSERT leaves out or gives as None.      *)
EXTENDS TLC

Stamps == {"id", "created_at", "updated_at", "etag"}

Table(required, nullable, key, unique, refs, index) ==
  [required |-> required, nullable |-> nullable, key |-> key,
   unique |-> unique, refs |-> refs, index |-> index]

(* What f has, and what only g has.                                          *)
Over(f, g) ==
  [x \in DOMAIN f \cup DOMAIN g |-> IF x \in DOMAIN f THEN f[x] ELSE g[x]]

Columns(table) == table.required \cup table.nullable

Ref(column, table, rule) == <<column, table, rule>>
Cascade(column, table) == Ref(column, table, "CASCADE")
NoAction(column, table) == Ref(column, table, "NO_ACTION")

Always(columns) == <<columns, "all_rows">>
ActiveInTeam(columns) == <<columns, "active_in_team">>
ActiveOfAll(columns) == <<columns, "active_of_all">>

-----------------------------------------------------------------------------
(* Link tables: their columns are their key. *)
Link(a, atable, b, btable) ==
  Table({a, b}, {}, {a, b}, {}, {Cascade(a, atable), Cascade(b, btable)}, {})

UserRemotecis == Link("user_id", "users", "remoteci_id", "remotecis")

JoinProductsTeams == Link("product_id", "products", "team_id", "teams")

JoinTeamsComponentsAccess == Link("team_id", "teams", "access_team_id", "teams")

UserTopic == Link("user_id", "users", "topic_id", "topics")

JoinJobsComponents == Link("job_id", "jobs", "component_id", "components")

UsersTeams ==
  Table({"user_id"}, {"team_id"}, {}, {Always({"user_id", "team_id"})},
        {Cascade("user_id", "users"), Cascade("team_id", "teams")}, {})

-----------------------------------------------------------------------------
User ==
  Table(Stamps \cup {"name", "fullname", "timezone"},
        {"sso_username", "sso_sub", "email", "password", "state"},
        {"id"},
        {Always({c}) : c \in {"name", "sso_username", "sso_sub", "email"}},
        {}, {})

Team ==
  Table(Stamps \cup {"name", "has_pre_release_access"},
        {"country", "state", "external"}, {"id"}, {Always({"name"})}, {}, {})

Topic ==
  Table(Stamps \cup {"name", "export_control"},
        {"component_types", "component_types_optional", "product_id",
         "next_topic_id", "state", "data"},
        {"id"}, {Always({"name"})},
        {NoAction("product_id", "products"), NoAction("next_topic_id", "topics")},
        {{"product_id"}, {"next_topic_id"}})

Remoteci ==
  Table(Stamps \cup {"team_id"}, {"name", "data", "api_secret", "public", "state"},
        {"id"}, {Always({"name", "team_id"})}, {Cascade("team_id", "teams")},
        {{"team_id"}})

Product ==
  Table(Stamps \cup {"name", "label"}, {"description", "state"}, {"id"},
        {Always({"label"})}, {}, {})

Feeder ==
  Table(Stamps \cup {"name", "team_id"}, {"data", "api_secret", "state"}, {"id"},
        {Always({"name", "team_id"})}, {Cascade("team_id", "teams")}, {{"team_id"}})

Pipeline ==
  Table(Stamps \cup {"name", "team_id"}, {"state"}, {"id"}, {},
        {Cascade("team_id", "teams")}, {})

Component ==
  Table(Stamps \cup {"released_at", "name", "type", "display_name", "version", "uid"},
        {"canonical_project_name", "data", "title", "message", "url", "topic_id",
         "team_id", "state", "tags"},
        {"id"},
        {ActiveOfAll({"display_name", "topic_id", "type", "version"}),
         ActiveInTeam({"display_name", "topic_id", "type", "version", "team_id"})},
        {Cascade("topic_id", "topics"), Cascade("team_id", "teams")},
        {{"topic_id"}})

Componentfile ==
  Table(Stamps \cup {"name"}, {"mime", "md5", "size", "component_id", "state"}, {"id"},
        {}, {Cascade("component_id", "components")}, {{"component_id"}})

-----------------------------------------------------------------------------
Job ==
  Table(Stamps \cup {"comment", "status_reason", "configuration", "url", "name",
                     "remoteci_id", "team_id", "user_agent", "client_version"},
        {"duration", "status", "topic_id", "product_id", "pipeline_id",
         "previous_job_id", "update_previous_job_id", "state", "tags", "data"},
        {"id"}, {},
        {Cascade("topic_id", "topics"), Cascade("remoteci_id", "remotecis"),
         Cascade("team_id", "teams"), Cascade("product_id", "products"),
         Cascade("pipeline_id", "pipelines"), NoAction("previous_job_id", "jobs"),
         NoAction("update_previous_job_id", "jobs")},
        {{"topic_id"}, {"remoteci_id"}, {"team_id"}, {"product_id"},
         {"previous_job_id"}, {"update_previous_job_id"}, {"created_at"}})

JobKeyValue ==
  Table({"job_id", "key", "value"}, {}, {"job_id", "key"}, {},
        {Cascade("job_id", "jobs")}, {{"key"}, {"job_id"}})

Jobstate ==
  Table({"id", "created_at", "status", "job_id"}, {"comment"}, {"id"}, {},
        {Cascade("job_id", "jobs")}, {{"job_id"}})

TestsResult ==
  Table({"id", "created_at", "updated_at", "name", "job_id", "file_id"},
        {"total", "success", "skips", "failures", "regressions", "successfixes",
         "errors", "time"},
        {"id"}, {}, {Cascade("job_id", "jobs"), Cascade("file_id", "files")},
        {{"job_id"}, {"file_id"}})

File ==
  Table(Stamps \cup {"name", "team_id"},
        {"mime", "md5", "size", "state", "jobstate_id", "job_id"}, {"id"}, {},
        {Cascade("jobstate_id", "jobstates"), Cascade("team_id", "teams"),
         Cascade("job_id", "jobs")},
        {{"jobstate_id"}, {"team_id"}, {"job_id"}})

(* No foreign key: the feed and the audit log outlive what they name. *)
JobEvent ==
  Table({"id", "created_at", "job_id", "topic_id"}, {"status"}, {"id"}, {}, {},
        {{"job_id"}})

Log ==
  Table({"id", "created_at", "user_id", "action"}, {}, {"id"}, {}, {}, {{"user_id"}})

Counter ==
  Table({"name", "created_at", "updated_at", "etag"}, {"sequence"}, {"name"}, {}, {}, {})

-----------------------------------------------------------------------------
Declared ==
  [users_teams |-> UsersTeams, user_remotecis |-> UserRemotecis, users |-> User,
   products_teams |-> JoinProductsTeams,
   teams_components_access |-> JoinTeamsComponentsAccess, teams |-> Team,
   users_topics |-> UserTopic, topics |-> Topic, remotecis |-> Remoteci,
   products |-> Product, feeders |-> Feeder, logs |-> Log,
   jobs_components |-> JoinJobsComponents, component_files |-> Componentfile,
   components |-> Component, jobs |-> Job, jobs_keys_values |-> JobKeyValue,
   jobstates |-> Jobstate, tests_results |-> TestsResult, files |-> File,
   jobs_events |-> JobEvent, counter |-> Counter, pipelines |-> Pipeline]

(* The columns of each table for which the ORM has a default. *)
StampedState == Stamps \cup {"state"}
Defaults ==
  [users |-> StampedState \cup {"timezone"},
   teams |-> StampedState \cup {"external", "has_pre_release_access"},
   topics |-> StampedState \cup {"component_types", "component_types_optional",
                                 "export_control", "data"},
   remotecis |-> StampedState \cup {"data", "api_secret", "public"},
   products |-> StampedState,
   feeders |-> StampedState \cup {"data", "api_secret"},
   pipelines |-> StampedState,
   components |-> StampedState \cup {"released_at", "tags"},
   jobs |-> StampedState \cup {"duration", "comment", "status_reason", "configuration",
                               "url", "name", "status", "user_agent",
                               "client_version", "tags", "data"},
   jobs_keys_values |-> {},
   jobstates |-> {"id", "created_at"},
   counter |-> (Stamps \ {"id"}) \cup {"sequence"}]

(* The columns the database itself fills when an INSERT leaves them out.    *)
ServerDefaults ==
  [teams |-> {"has_pre_release_access"}, topics |-> {"export_control"},
   components |-> {"display_name", "version", "uid"}]

(* The columns that take only the values of an enum type.                   *)
Enumerated ==
  Over([jobs |-> {"state", "status"}, jobstates |-> {"status"}, jobs_events |-> {"status"}],
       [t \in DOMAIN Declared |-> {"state"}])
=============================================================================
