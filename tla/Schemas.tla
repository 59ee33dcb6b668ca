------------------------------ MODULE Schemas ------------------------------
(* What the server does with the body of a POST or a PUT: the JSON schema   *)
(* of the resource (dci/common/schemas.py) accepts it and fills its         *)
(* defaults, the handler adds and derives columns, the ORM fills its own    *)
(* defaults, and the database takes the row or refuses it. Requests are     *)
(* served by a server whose database the migrations brought to the newest   *)
(* revision. A value is seen as where it comes from:                        *)
(*   asked      the body          null     the body or a default, as None   *)
(*   schema     a schema default  server   the handler                      *)
(*   orm        an ORM default    db       a server default                 *)
(*   unlisted   the body, and not a value of the enum type of its column    *)
EXTENDS Migrations, FiniteSetsExt

CONSTANT MaxOptional  \* bound: optional fields a body gives, or leaves out

VARIABLES
  row,     \* the row the requests are about: its table and its values
  shown,   \* what the last answer shows of it
  last     \* the last request: its endpoint, the fields of its body, its answer

svars == <<mvars, row, shown, last>>

-----------------------------------------------------------------------------
(* Schemas: the fields a body must have, may have, gets a default for when  *)
(* it lacks them, and gets None for when it lacks them.                     *)

Schema(required, optional, defaulted, nulled) ==
  [required |-> required, optional |-> optional, defaulted |-> defaulted,
   nulled |-> nulled, nullable |-> nulled]
Fields(s) == s.required \cup s.optional \cup s.defaulted \cup s.nulled

create_job_schema ==
  Schema({"components"}, {"remoteci_id", "team_id"},
         {"comment", "state", "tags", "data", "status_reason", "configuration",
          "name", "url"},
         {"previous_job_id", "update_previous_job_id", "topic_id", "pipeline_id"})

update_job_schema ==
  Schema({}, {"comment", "status", "state", "tags", "status_reason", "configuration",
              "name", "url"}, {}, {})

schedule_job_schema ==
  Schema({"topic_id"}, {"remoteci_id"}, {"components_ids", "state", "tags", "data"},
         {"comment", "previous_job_id", "configuration", "name", "url", "pipeline_id"})

create_job_kv_schema == Schema({"key", "value"}, {}, {}, {})

create_product_schema == Schema({"name"}, {}, {"state"}, {"label", "description"})

update_product_schema == Schema({}, {"name", "label", "description", "state"}, {}, {})

create_user_schema ==
  Schema({}, {"name", "fullname", "email", "sso_username", "timezone", "password"},
         {"state"}, {})

update_user_schema ==
  Schema({}, {"name", "fullname", "email", "timezone", "password", "team_id", "state"},
         {}, {"sso_sub"})

update_current_user_schema ==
  Schema({}, {"current_password", "new_password", "fullname", "email", "timezone"},
         {}, {})

create_feeder_schema == Schema({"name", "team_id"}, {}, {"state", "data"}, {})

(* Variants named Bug... are mistakes a change of the code could make; no   *)
(* action uses them, the mutation runs put them in place of the original.   *)

BugUpdateFeederDefaults == Schema({}, {"name", "team_id"}, {"state", "data"}, {})

update_feeder_schema == Schema({}, {"name", "team_id", "state", "data"}, {}, {})

create_remoteci_schema ==
  Schema({"name", "team_id"}, {}, {"state", "data", "public"}, {})

update_remoteci_schema == Schema({}, {"name", "team_id", "state", "data", "public"}, {}, {})

create_component_schema ==
  Schema({"type", "topic_id"}, {"name", "display_name", "team_id", "released_at"},
         {"title", "message", "canonical_project_name", "version", "url", "uid",
          "state", "data", "tags"}, {})

update_component_schema ==
  Schema({}, {"name", "title", "message", "canonical_project_name", "display_name",
              "version", "url", "type", "topic_id", "state", "data", "tags",
              "released_at"}, {}, {})

jobstate_schema == Schema({"status", "job_id"}, {}, {}, {"comment"})

create_topic_schema ==
  Schema({"name", "product_id"}, {},
         {"data", "state", "component_types", "component_types_optional",
          "export_control"}, {"next_topic_id"})

update_topic_schema ==
  [Schema({}, {"name", "data", "product_id", "next_topic_id", "state", "component_types",
               "component_types_optional", "export_control"}, {}, {})
     EXCEPT !.nullable = {"next_topic_id"}]

create_team_schema ==
  Schema({"name"}, {}, {"state", "external", "has_pre_release_access"}, {"country"})

update_team_schema ==
  [Schema({}, {"name", "country", "state", "external", "has_pre_release_access"}, {}, {})
     EXCEPT !.nullable = {"country"}]

create_pipeline_schema == Schema({"name", "team_id"}, {}, {"state"}, {})

update_pipeline_schema == Schema({}, {"name"}, {"state"}, {})

(* The conditions a schema sets on which fields come together.              *)
anyOf(fields) == "email" \in fields \/ "sso_username" \in fields
oneOf(fields) == ("name" \in fields) # ("display_name" \in fields)

(* The strings a schema checks against the list of their enum type.         *)
Listed(schema) == IF schema = update_job_schema THEN {"state", "status"} ELSE {"state"}

-----------------------------------------------------------------------------
(* The values a handler works on: a function from names to values.          *)

Give(values, columns, value) ==
  [c \in DOMAIN values \cup columns |-> IF c \in columns THEN value ELSE values[c]]
Without(values, columns) == [c \in DOMAIN values \ columns |-> values[c]]
Given(values, column) == column \in DOMAIN values /\ values[column] # "null"
Fallback(values, columns, value) ==
  Give(values, {c \in columns : ~Given(values, c)}, value)

Rename(values, old, new) ==
  IF old \notin DOMAIN values THEN values
  ELSE Over([c \in {new} |-> values[old]], Without(values, {old}))

(* extend_with_default and clean_json_with_schema.                          *)
Cleaned(schema, body) ==
  Over(body, Over([f \in schema.defaulted |-> "schema"], [f \in schema.nulled |-> "null"]))

common_values_dict(values) == Give(values, Stamps, "server")

BugCreateUsersNoTimezone(values) ==
  common_values_dict(
    Fallback(Fallback(values, {"name", "fullname"}, "server"), {"password"}, "null"))

create_users(values) ==
  LET named == Fallback(values, {"name", "fullname", "timezone"}, "server")
  IN  common_values_dict(Fallback(named, {"password"}, "null"))

BugCreateProductNoLabel(values) == common_values_dict(values)

create_product(values) == common_values_dict(Fallback(values, {"label"}, "server"))

create_remotecis(values) == common_values_dict(Give(values, {"api_secret"}, "server"))

create_feeders(values) == common_values_dict(Give(values, {"api_secret"}, "server"))

(* The name defaults to the display name; the display name, the version and *)
(* the uid to what get_new_component_info makes of the name.                *)
create_components(values) ==
  common_values_dict(
    Fallback(values, {"name", "display_name", "version", "uid"}, "server"))

(* The headers that name the client may be missing.                         *)
internal_create_jobs(values, headers) ==
  Give(Give(values, Stamps \cup {"status", "remoteci_id", "team_id", "product_id",
                                 "duration"}, "server"),
       {"user_agent", "client_version"}, headers)

create_jobs(values, headers) ==
  internal_create_jobs(common_values_dict(Without(values, {"components"})), headers)

schedule_jobs(values, headers) ==
  Give(internal_create_jobs(Without(values, {"components_ids"}), headers),
       {"product_id", "topic_id", "team_id"}, "server")

add_kv_to_job(values) == Give(values, {"job_id"}, "server")

insert_jobstate(values) ==
  Give([c \in {"job_id", "status"} |-> values[c]], {"id", "created_at"}, "server")

put_current_user(values) ==
  Rename(Without(values, {"current_password"}), "new_password", "password")

Post ==
  [users |-> create_user_schema, teams |-> create_team_schema,
   topics |-> create_topic_schema, remotecis |-> create_remoteci_schema,
   products |-> create_product_schema, feeders |-> create_feeder_schema,
   pipelines |-> create_pipeline_schema, components |-> create_component_schema,
   jobs |-> create_job_schema, schedule |-> schedule_job_schema,
   kv |-> create_job_kv_schema, jobstates |-> jobstate_schema]

Put ==
  [users |-> update_user_schema, me |-> update_current_user_schema,
   teams |-> update_team_schema, topics |-> update_topic_schema,
   remotecis |-> update_remoteci_schema, products |-> update_product_schema,
   feeders |-> update_feeder_schema, pipelines |-> update_pipeline_schema,
   components |-> update_component_schema, jobs |-> update_job_schema]

TableOf(endpoint) ==
  CASE endpoint = "schedule" -> "jobs"
    [] endpoint = "kv" -> "jobs_keys_values"
    [] endpoint = "me" -> "users"
    [] OTHER -> endpoint

Created201(endpoint, values, headers) ==
  CASE endpoint = "users" -> create_users(values)
    [] endpoint = "products" -> create_product(values)
    [] endpoint = "remotecis" -> create_remotecis(values)
    [] endpoint = "feeders" -> create_feeders(values)
    [] endpoint = "components" -> create_components(values)
    [] endpoint = "jobs" -> create_jobs(values, headers)
    [] endpoint = "schedule" -> schedule_jobs(values, headers)
    [] endpoint = "kv" -> add_kv_to_job(values)
    [] endpoint = "jobstates" -> insert_jobstate(values)
    [] OTHER -> common_values_dict(values)

-----------------------------------------------------------------------------
(* The bodies of a request: the required fields and at most MaxOptional of  *)
(* the others, or all but at most MaxOptional of them; where the schema     *)
(* lets it, one of the fields is null or one names no value of its enum.    *)

OptionalOf(s) ==
  LET others == Fields(s) \ s.required
  IN  UNION {{o, others \ o} : o \in UNION {kSubset(k, others) : k \in 0..MaxOptional}}

Bodies(endpoint, s) ==
  UNION {LET fields == s.required \cup o
             plain == [f \in fields |-> "asked"]
             loose == (Enumerated[TableOf(endpoint)] \cap fields) \ Listed(s)
         IN  {plain} \cup {[plain EXCEPT ![f] = "null"] : f \in s.nullable \cap fields}
                     \cup {[plain EXCEPT ![f] = "unlisted"] : f \in loose}
         : o \in OptionalOf(s)}

Accepted(endpoint, body) ==
  /\ endpoint = "users" => anyOf(DOMAIN body)
  /\ endpoint = "components" => oneOf(DOMAIN body)
  /\ endpoint = "jobs" => Given(body, "topic_id")  \* no topic has the id None

(* An INSERT: the ORM leaves a None out and fills its defaults.             *)
Stored(table, values) ==
  [c \in Columns(db.tables[table]) |->
     IF Given(values, c) THEN values[c]
     ELSE IF c \in Defaults[table] THEN "orm"
     ELSE IF table \in DOMAIN ServerDefaults /\ c \in ServerDefaults[table] THEN "db"
     ELSE "null"]

Refused(table, stored) ==
  \/ \E c \in db.tables[table].required : stored[c] = "null"
  \/ \E c \in DOMAIN stored : stored[c] = "unlisted"

NoRow == [table |-> None, values |-> <<>>]
NoRequest == [method |-> None, endpoint |-> None, fields |-> {}, answer |-> None]

(* Bound: the requests are those of the first installation of the release.  *)
ServesRequests ==
  mode = "serving" /\ db.revision = Newest /\ db.rows = NoRows /\ asked.syncs = 1

PostResource(endpoint, body, headers) ==
  LET table == TableOf(endpoint)
      values == Created201(endpoint, Cleaned(Post[endpoint], body), headers)
      stored == Stored(table, values)
      refused == Refused(table, stored) \/ ~(DOMAIN values \subseteq DOMAIN stored)
  IN  /\ ServesRequests /\ row = NoRow
      /\ Accepted(endpoint, body)
      /\ last' = [method |-> "POST", endpoint |-> endpoint, fields |-> DOMAIN body,
                  answer |-> IF refused THEN "error" ELSE "201"]
      /\ row' = IF refused THEN row ELSE [table |-> table, values |-> stored]
      /\ shown' = IF refused THEN shown ELSE values
      /\ UNCHANGED mvars

(* What a PUT is asked is not what the row had.                             *)
Renewed(values) == [c \in DOMAIN values |-> IF values[c] = "asked" THEN "new" ELSE values[c]]

(* put_user and put_team hand the values to one UPDATE, which refuses a     *)
(* name that is no column; the others set attributes of the object.         *)
PutResource(endpoint, body) ==
  LET table == TableOf(endpoint)
      cleaned == Renewed(Cleaned(Put[endpoint], body))
      values == IF endpoint = "me" THEN put_current_user(cleaned) ELSE cleaned
      updated == [c \in DOMAIN row.values |->
                    IF c \in {"etag", "updated_at"} THEN "new"
                    ELSE IF c \in DOMAIN values THEN values[c] ELSE row.values[c]]
      unknown == endpoint \in {"users", "me", "teams"}
                 /\ ~(DOMAIN values \subseteq DOMAIN row.values)
      refused == unknown \/ Refused(table, updated)
  IN  /\ ServesRequests /\ row.table = table
      /\ last.method # "PUT"  \* bound: one PUT of a row
      /\ last' = [method |-> "PUT", endpoint |-> endpoint, fields |-> DOMAIN body,
                  answer |-> IF refused THEN "error" ELSE "200"]
      /\ row' = IF refused THEN row ELSE [row EXCEPT !.values = updated]
      /\ shown' = IF refused THEN shown ELSE updated
      /\ UNCHANGED mvars

(* A user that first comes through SSO gets the subject of its token.       *)
CreateSsoUser ==
  LET values == [c \in {"name", "fullname", "sso_username", "sso_sub", "email",
                        "timezone"} |-> "server"]
  IN  /\ ServesRequests /\ row = NoRow
      /\ row' = [table |-> "users", values |-> Stored("users", values)]
      /\ UNCHANGED <<mvars, shown, last>>

-----------------------------------------------------------------------------
Init == MInit /\ row = NoRow /\ shown = <<>> /\ last = NoRequest

(* Bound: the deployments of the history come before the requests.          *)
Administer == MNext /\ row = NoRow /\ last = NoRequest /\ UNCHANGED <<row, shown, last>>

Request ==
  \/ \E endpoint \in DOMAIN Post : \E body \in Bodies(endpoint, Post[endpoint]),
       headers \in {"server", "null"} : PostResource(endpoint, body, headers)
  \/ \E endpoint \in DOMAIN Put : \E body \in Bodies(endpoint, Put[endpoint]) :
       PutResource(endpoint, body)
  \/ CreateSsoUser

Next == Administer \/ Request

Spec == Init /\ [][Next]_svars

-----------------------------------------------------------------------------
(* What a schema accepts, the database takes: no body is refused for a      *)
(* column it lacks, does not have, or cannot hold. Two exceptions: a PUT of *)
(* a user that names a team_id, which is no column of users, and a POST of  *)
(* a jobstate, whose status is any string for jobstate_schema.              *)
AcceptedIsStored ==
  last.answer = "error" =>
    \/ last.method = "PUT" /\ last.endpoint = "users" /\ "team_id" \in last.fields
    \/ last.method = "POST" /\ last.endpoint = "jobstates"

(* What a POST answers is what it stored, although the answer is made before *)
(* the INSERT, except for the columns that are left to the ORM: those of a   *)
(* job that schedule_job_schema or a missing header leaves None, and the     *)
(* date of release of a component.                                           *)
LeftToOrm ==
  [jobs |-> {"user_agent", "client_version", "comment", "configuration", "name", "url",
             "status_reason"},
   components |-> {"released_at"}]
AnswerShowsRow ==
  last.answer = "201" =>
    \A c \in DOMAIN row.values :
      \/ row.values[c] = IF c \in DOMAIN shown THEN shown[c] ELSE "null"
      \/ row.table \in DOMAIN LeftToOrm /\ c \in LeftToOrm[row.table]

(* A PUT changes the columns its body names and the stamps, nothing else.   *)
(* Two exceptions, whose schemas have a default in an update: a PUT of a    *)
(* pipeline makes it active and a PUT of a user forgets its sso_sub, when   *)
(* the body does not name them.                                             *)
Reset == [users |-> {"sso_sub"}, pipelines |-> {"state"}]
Named(request) ==
  request.fields \cup (IF "new_password" \in request.fields THEN {"password"} ELSE {})
UpdateChangesOnlyNamed ==
  [][last'.method = "PUT" =>
       \A c \in DOMAIN row.values :
         \/ row'.values[c] = row.values[c]
         \/ c \in Named(last') \cup {"etag", "updated_at"}
         \/ row.table \in DOMAIN Reset /\ c \in Reset[row.table]]_svars
=============================================================================
