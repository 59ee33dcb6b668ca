----------------------------- MODULE Migrations -----------------------------
(* The Alembic chain that brings the database of an installation to the     *)
(* tables the server declares. entrypoint.sh runs `alembic upgrade head`    *)
(* before it starts the server and gives up when that fails; env.py runs a  *)
(* whole upgrade in one transaction.                                        *)
(*                                                                          *)
(* db is what is committed: the revision, the tables, whether the enum      *)
(* types exist, and the rows the migrations read or write. Components are   *)
(* those of one topic and one type; they are numbered in the order of their *)
(* created_at. work is the copy the transaction of an upgrade or of a       *)
(* downgrade works on.                                                      *)
EXTENDS InitialMigration, FiniteSets

CONSTANTS
  Components,  \* rows of the table components
  Jobs,        \* rows of the table jobs
  Origins,     \* the <<name, canonical_project_name>> components come with
  Unfilled,    \* bound: the strings of jobs that older servers left null
  Releases,    \* the revisions that have been the head of a release
  MaxSyncs,    \* bound: deployments of a release
  MaxDowngrades \* bound: downgrades an administrator asks for

ASSUME ComponentsAssumption == Components \subseteq Nat
ASSUME UnfilledAssumption == Unfilled \subseteq JobStrings

Base == "base"
Chain == <<Base, "a918b053c43a", "ab48aca06ac4", "fd04b7d20477", "66680dcf2c88",
           "46dff7ed04c2", "caa65adffe8e", "609db7251b15", "1c16157d0b73",
           "5b771c01636f", "850229f38182", "e0f709d4ea8f", "892f7e0ba88d",
           "36c753d31b62", "a7d42b83e41e", "83c6c24dc160", "4ff34474b4fd">>
Newest == "4ff34474b4fd"

ASSUME ReleasesAssumption == Releases \subseteq {Chain[i] : i \in 2..Len(Chain)}

Place(revision) == CHOOSE i \in DOMAIN Chain : Chain[i] = revision
After(revision) == Chain[Place(revision) + 1]
Before(revision) == Chain[Place(revision) - 1]

VARIABLES
  db,        \* what is committed
  mode,      \* "stopped", "upgrading", "downgrading", or "serving"
  target,    \* the revision the running command goes to
  work,      \* the database as the running transaction sees it
  failed,    \* the <<command, revision>> that failed last
  undone,    \* history: the revisions that were downgraded
  asked      \* history: the deployments and downgrades asked for

mvars == <<db, mode, target, work, failed, undone, asked>>

-----------------------------------------------------------------------------
(* The rows.                                                                *)

None == "none"
Text(id, parts, version, sha1) ==
  [id |-> id, parts |-> parts, version |-> version, sha1 |-> sha1]
Null == Text("NULL", {}, "", FALSE)
Empty == Text("", {}, "", FALSE)

(* What a text contains is abstracted to the names it contains, and what    *)
(* follows a delimiter, "RHOS-" or "RHEL-" in it to its version.            *)
NewInfo(name, canonical) ==
  LET given == canonical \notin {Null, Empty}
      long == given /\ (name.sha1 \/ canonical.parts \cap {"OpenShift", name.id} # {})
      chosen == IF long THEN canonical ELSE name
  IN  [display_name |-> IF "dci-openshift-app-agent" \in chosen.parts
                        THEN canonical.id ELSE chosen.id,
       version |-> IF given /\ "OpenShift" \in canonical.parts
                   THEN name.id ELSE chosen.version]

NoRows == [components |-> <<>>, attached |-> {}, nulls |-> {}, noEmail |-> FALSE]

New == [revision |-> Base, tables |-> <<>>, types |-> FALSE, rows |-> NoRows]

Rows(d) == DOMAIN d.rows.components
Row(d, c) == d.rows.components[c]

(* Two active rows that a partial unique index on these columns would hold. *)
Clash(d, Indexed(_), Value(_)) ==
  \E a, b \in Rows(d) :
    /\ a # b
    /\ Row(d, a).state = "active" /\ Row(d, b).state = "active"
    /\ Indexed(Row(d, a)) /\ Indexed(Row(d, b))
    /\ Value(Row(d, a)) = Value(Row(d, b))

Teamed(row) == row.team # None
Teamless(row) == row.team = None
NewKey(row) == <<row.display_name, row.version, row.team>>
OldKey(row) == <<row.name.id, row.team>>

OldKeysUnique(d) ==
  /\ ~Clash(d, Teamless, OldKey)
  /\ \A a, b \in Rows(d) : Teamed(Row(d, a)) /\ OldKey(Row(d, a)) = OldKey(Row(d, b))
                           => a = b
NewKeysUnique(d) == ~Clash(d, Teamless, NewKey) /\ ~Clash(d, Teamed, NewKey)

Holds(d, unique) == unique \in d.tables["components"].unique
NewUnique == Component.unique

(* What the committed tables let a server, of whatever release, write.      *)
Fits(d) ==
  /\ Holds(d, Always({"name", "topic_id", "type", "team_id"})) => OldKeysUnique(d)
  /\ NewUnique \subseteq d.tables["components"].unique => NewKeysUnique(d)

-----------------------------------------------------------------------------
(* What the statements of a migration do to the tables.                     *)

WithRows(d, rows) == [d EXCEPT !.rows = rows]

CreateTable(d, name, table) == [d EXCEPT !.tables = Over([t \in {name} |-> table], @)]
DropTable(d, name) ==
  [d EXCEPT !.tables = [t \in DOMAIN d.tables \ {name} |-> d.tables[t]]]

Alter(d, name, table) == [d EXCEPT !.tables[name] = table]

(* The table t with other columns. *)
WithColumns(t, required, nullable) ==
  Table(required, nullable, t.key, t.unique, t.refs, t.index)

AddRequired(d, name, column) ==
  LET t == d.tables[name]
  IN  Alter(d, name, WithColumns(t, t.required \cup {column}, t.nullable))
AddNullable(d, name, column) ==
  LET t == d.tables[name]
  IN  Alter(d, name, WithColumns(t, t.required, t.nullable \cup {column}))
DropColumn(d, name, column) ==
  LET t == d.tables[name]
  IN  Alter(d, name, WithColumns(t, t.required \ {column}, t.nullable \ {column}))
SetNull(d, name, columns) ==
  LET t == d.tables[name]
  IN  Alter(d, name, WithColumns(t, t.required \ columns, t.nullable \cup columns))
SetNotNull(d, name, columns) ==
  LET t == d.tables[name]
  IN  Alter(d, name, WithColumns(t, t.required \cup columns, t.nullable \ columns))
AddUnique(d, name, unique) ==
  Alter(d, name, [d.tables[name] EXCEPT !.unique = @ \cup unique])
DropUnique(d, name, unique) ==
  Alter(d, name, [d.tables[name] EXCEPT !.unique = @ \ unique])
AddRef(d, name, ref) ==
  Alter(d, name, [d.tables[name] EXCEPT !.refs = @ \cup {ref}])
AddIndex(d, name, columns) ==
  Alter(d, name, [d.tables[name] EXCEPT !.index = @ \cup {columns}])

Lacks(d, table, column) == column \notin Columns(d.tables[table])

-----------------------------------------------------------------------------
(* One operator per revision: <<whether its upgrade succeeds, its outcome>>. *)
(* Variants named Bug... are mistakes a change of the code could make; no   *)
(* action uses them, the mutation runs put them in place of the original.   *)

CreateAll(d) ==
  <<DOMAIN Created \cap DOMAIN d.tables = {} /\ ~d.types,
    [d EXCEPT !.tables = Over(Created, @), !.types = TRUE]>>

AddPipelines(d) ==
  <<"pipelines" \notin DOMAIN d.tables,
    CreateTable(d, "pipelines",
      Table(Stamps \cup {"team_id", "name"}, {"state"}, {"id"}, {},
            {Cascade("team_id", "teams")}, {}))>>

BugAddPipelineInJobs(d) ==
  <<Lacks(d, "jobs", "pipeline_id"), AddNullable(d, "jobs", "pipeline_id")>>

AddPipelineInJobs(d) ==
  <<Lacks(d, "jobs", "pipeline_id"),
    AddRef(AddNullable(d, "jobs", "pipeline_id"),
           "jobs", Cascade("pipeline_id", "pipelines"))>>

OldUnique == {Always({"name", "topic_id", "type", "team_id"}),
              ActiveOfAll({"name", "topic_id", "type"})}

AddDisplayName(d) ==
  <<{"display_name", "version", "uid"} \cap Columns(d.tables["components"]) = {},
    DropUnique(
      AddRequired(AddRequired(AddRequired(d, "components", "display_name"),
                              "components", "version"),
                  "components", "uid"),
      "components", OldUnique)>>

Filled(row) ==
  LET info == NewInfo(row.name, row.canonical)
      done == row.display_name # "" /\ row.version # ""
  IN  [row EXCEPT !.display_name = IF done THEN @ ELSE info.display_name,
                  !.version = IF done THEN @ ELSE info.version,
                  !.canonical = IF @ = Null THEN Empty ELSE @]

(* The rows that count for a key: they name a team and a version.           *)
Keyed(row) == "" \notin {row.display_name, row.version} /\ Teamed(row)

(* The latest of the rows with the key of row c, which is kept whatever its *)
(* state, and the rows it replaces.                                         *)
Latest(f, c) ==
  CHOOSE a \in DOMAIN f :
    /\ a = c \/ (Keyed(f[a]) /\ NewKey(f[a]) = NewKey(f[c]))
    /\ \A b \in DOMAIN f : Keyed(f[b]) /\ NewKey(f[b]) = NewKey(f[c]) => b <= a
Kept(f, c) == IF Keyed(f[c]) THEN Latest(f, c) ELSE c

BugMoved(f, attached) == {pair \in attached : Kept(f, pair[2]) = pair[2]}

(* The jobs of a row that goes are given to the one kept.                   *)
Moved(f, attached) == {<<pair[1], Kept(f, pair[2])>> : pair \in attached}

FilledRows(d) == [c \in Rows(d) |-> Filled(Row(d, c))]

MergedRows(d) ==
  LET f == FilledRows(d)
      kept == {c \in Rows(d) : Kept(f, c) = c}
  IN  [components |-> [c \in kept |-> f[c]],
       attached |-> Moved(f, d.rows.attached),
       nulls |-> d.rows.nulls, noEmail |-> d.rows.noEmail]

MergeComponents(d) ==
  <</\ \A c \in Rows(d) : FilledRows(d)[c].display_name # "NULL"
    /\ d.tables["components"].unique \cap NewUnique = {}
    /\ NewKeysUnique(WithRows(d, MergedRows(d))),
    WithRows(AddUnique(d, "components", NewUnique), MergedRows(d))>>

IndexJobsByDate(d) ==
  <<{"created_at"} \notin d.tables["jobs"].index,
    AddIndex(d, "jobs", {"created_at"})>>

DropCertFp(d) ==
  <<~Lacks(d, "remotecis", "cert_fp"), DropColumn(d, "remotecis", "cert_fp")>>

AddJobKeyValue(d) ==
  <<"jobs_keys_values" \notin DOMAIN d.tables,
    CreateTable(d, "jobs_keys_values",
      Table({"key", "value", "job_id"}, {}, {"key", "value", "job_id"}, {},
            {Cascade("job_id", "jobs")}, {{"key"}, {"job_id"}}))>>

AllowEmptyEmail(d) == <<TRUE, SetNull(d, "users", {"email"})>>

AddPreReleaseAccess(d) ==
  <<Lacks(d, "teams", "has_pre_release_access"),
    AddRequired(d, "teams", "has_pre_release_access")>>

AddComponentsAccess(d) ==
  <<"teams_components_access" \notin DOMAIN d.tables,
    CreateTable(d, "teams_components_access",
                Link("team_id", "teams", "access_team_id", "teams"))>>

(* The server default "" of these columns: rows that older servers wrote    *)
(* keep their nulls.                                                        *)
DefaultJobStrings(d) == <<TRUE, d>>

BugEmptyJobStrings(d) ==
  <<TRUE, WithRows(d, [d.rows EXCEPT !.nulls = @ \ {"comment", "url"}])>>

EmptyJobStrings(d) == <<TRUE, WithRows(d, [d.rows EXCEPT !.nulls = @ \ JobStrings])>>

RequireJobStrings(d) == <<d.rows.nulls = {}, SetNotNull(d, "jobs", JobStrings)>>

AddSsoSub(d) ==
  <<Lacks(d, "users", "sso_sub"),
    AddUnique(AddNullable(d, "users", "sso_sub"), "users", {Always({"sso_sub"})})>>

DropTopicsTeams(d) ==
  <<"topics_teams" \in DOMAIN d.tables, DropTable(d, "topics_teams")>>

Upgraded(revision, d) ==
  CASE revision = "a918b053c43a" -> CreateAll(d)
    [] revision = "ab48aca06ac4" -> AddPipelines(d)
    [] revision = "fd04b7d20477" -> AddPipelineInJobs(d)
    [] revision = "66680dcf2c88" -> AddDisplayName(d)
    [] revision = "46dff7ed04c2" -> MergeComponents(d)
    [] revision = "caa65adffe8e" -> IndexJobsByDate(d)
    [] revision = "609db7251b15" -> DropCertFp(d)
    [] revision = "1c16157d0b73" -> AddJobKeyValue(d)
    [] revision = "5b771c01636f" -> AllowEmptyEmail(d)
    [] revision = "850229f38182" -> AddPreReleaseAccess(d)
    [] revision = "e0f709d4ea8f" -> AddComponentsAccess(d)
    [] revision = "892f7e0ba88d" -> DefaultJobStrings(d)
    [] revision = "36c753d31b62" -> EmptyJobStrings(d)
    [] revision = "a7d42b83e41e" -> RequireJobStrings(d)
    [] revision = "83c6c24dc160" -> AddSsoSub(d)
    [] revision = "4ff34474b4fd" -> DropTopicsTeams(d)

-----------------------------------------------------------------------------
(* The downgrades. Those not named here are `pass`: they leave what their   *)
(* upgrade did in place, and 66680dcf2c88 leaves the column uid. Dropping a *)
(* column drops the indexes over it.                                        *)

DropAll(d) ==
  <<DropsInOrder(d.tables), WithRows([d EXCEPT !.tables = <<>>], NoRows)>>

Blank(row) == [row EXCEPT !.display_name = "", !.version = ""]

DropDisplayName(d) ==
  LET unnamed == DropColumn(DropColumn(d, "components", "version"),
                            "components", "display_name")
      old == AddUnique(DropUnique(unnamed, "components", NewUnique),
                       "components", OldUnique)
  IN  <<OldKeysUnique(d),
        WithRows(old, [d.rows EXCEPT !.components = [c \in Rows(d) |-> Blank(Row(d, c))]])>>

AddCertFp(d) == <<TRUE, AddNullable(d, "remotecis", "cert_fp")>>

RequireEmail(d) == <<~d.rows.noEmail, SetNotNull(d, "users", {"email"})>>

DropPreReleaseAccess(d) == <<TRUE, DropColumn(d, "teams", "has_pre_release_access")>>

NullJobStrings(d) == <<TRUE, SetNull(d, "jobs", JobStrings)>>

DropSsoSub(d) ==
  <<TRUE, DropColumn(DropUnique(d, "users", {Always({"sso_sub"})}), "users", "sso_sub")>>

CreateTopicsTeams(d) ==
  <<"topics_teams" \notin DOMAIN d.tables,
    CreateTable(d, "topics_teams", Link("topic_id", "topics", "team_id", "teams"))>>

Downgraded(revision, d) ==
  CASE revision = "a918b053c43a" -> DropAll(d)
    [] revision = "66680dcf2c88" -> DropDisplayName(d)
    [] revision = "609db7251b15" -> AddCertFp(d)
    [] revision = "5b771c01636f" -> RequireEmail(d)
    [] revision = "850229f38182" -> DropPreReleaseAccess(d)
    [] revision = "a7d42b83e41e" -> NullJobStrings(d)
    [] revision = "83c6c24dc160" -> DropSsoSub(d)
    [] revision = "4ff34474b4fd" -> CreateTopicsTeams(d)
    [] OTHER -> <<TRUE, d>>

-----------------------------------------------------------------------------
MInit ==
  /\ db = New /\ work = New
  /\ mode = "stopped" /\ target = Base
  /\ failed = <<"none", Base>>
  /\ undone = {}
  /\ asked = [syncs |-> 0, downgrades |-> 0]

(* entrypoint.sh: the container of a release starts, `alembic upgrade head`. *)
Deploy(release) ==
  /\ mode \in {"stopped", "serving"}
  /\ asked.syncs < MaxSyncs
  /\ Place(db.revision) <= Place(release)
  /\ target' = release
  /\ work' = db
  /\ mode' = "upgrading"
  /\ asked' = [asked EXCEPT !.syncs = @ + 1]
  /\ UNCHANGED <<db, failed, undone>>

(* An administrator runs `alembic downgrade` to go back to a release.       *)
Downgrade(revision) ==
  /\ mode \in {"stopped", "serving"}
  /\ asked.downgrades < MaxDowngrades
  /\ Place(revision) < Place(db.revision)
  /\ target' = revision
  /\ work' = db
  /\ mode' = "downgrading"
  /\ asked' = [asked EXCEPT !.downgrades = @ + 1]
  /\ UNCHANGED <<db, failed, undone>>

(* The transaction of the command that runs is rolled back.                 *)
RollBack(revision) ==
  /\ failed' = <<mode, revision>>
  /\ mode' = "stopped"
  /\ work' = db
  /\ UNCHANGED <<db, target, undone, asked>>

Upgrade ==
  LET revision == After(work.revision)
      done == Upgraded(revision, work)
  IN  /\ mode = "upgrading" /\ work.revision # target
      /\ \/ /\ done[1]
            /\ work' = [done[2] EXCEPT !.revision = revision]
            /\ UNCHANGED <<db, mode, target, failed, undone, asked>>
         \/ ~done[1] /\ RollBack(revision)

Undo ==
  LET revision == work.revision
      done == Downgraded(revision, work)
  IN  /\ mode = "downgrading" /\ revision # target
      /\ \/ /\ done[1]
            /\ work' = [done[2] EXCEPT !.revision = Before(revision)]
            /\ UNCHANGED <<db, mode, target, failed, undone, asked>>
         \/ ~done[1] /\ RollBack(revision)

(* The transaction commits; the server starts after an upgrade.             *)
Commit ==
  /\ mode \in {"upgrading", "downgrading"} /\ work.revision = target
  /\ db' = work
  /\ mode' = IF mode = "upgrading" THEN "serving" ELSE "stopped"
  /\ undone' = IF mode = "upgrading" THEN undone
               ELSE undone \cup {Chain[i] : i \in Place(target) + 1 .. Place(db.revision)}
  /\ UNCHANGED <<target, work, failed, asked>>

(* The container dies while a command runs: nothing of it is committed.     *)
Killed ==
  /\ mode \in {"upgrading", "downgrading"}
  /\ mode' = "stopped"
  /\ work' = db
  /\ UNCHANGED <<db, target, failed, undone, asked>>

-----------------------------------------------------------------------------
(* What the server of the running release wrote before the next one comes:  *)
(* any rows the committed tables take.                                      *)

Serving == mode = "serving" /\ "components" \in DOMAIN db.tables

Write(rows) ==
  /\ Fits([db EXCEPT !.rows = rows])
  /\ db' = [db EXCEPT !.rows = rows]
  /\ UNCHANGED <<mode, target, work, failed, undone, asked>>

WriteComponent(c, origin, team, state) ==
  LET info == NewInfo(origin[1], origin[2])
      named == ~Lacks(db, "components", "display_name")
  IN  /\ \A d \in Rows(db) : d < c
      /\ info.display_name # "NULL" \/ ~named
      /\ Write([db.rows EXCEPT !.components =
           Over([i \in {c} |->
                  [name |-> origin[1], canonical |-> origin[2], team |-> team,
                   state |-> state,
                   display_name |-> IF named THEN info.display_name ELSE "",
                   version |-> IF named THEN info.version ELSE ""]], @)])

WriteJob(j, c) ==
  /\ c \in Rows(db)
  /\ Write([db.rows EXCEPT !.attached = @ \cup {<<j, c>>}])

WriteJobNull(column) ==
  /\ column \in db.tables["jobs"].nullable
  /\ Write([db.rows EXCEPT !.nulls = @ \cup {column}])

WriteUserWithoutEmail ==
  /\ "email" \in db.tables["users"].nullable
  /\ Write([db.rows EXCEPT !.noEmail = TRUE])

Served ==
  /\ Serving
  /\ \/ \E c \in Components, origin \in Origins, team \in {None, "team"},
           state \in {"active", "archived"} : WriteComponent(c, origin, team, state)
     \/ \E j \in Jobs, c \in Components : WriteJob(j, c)
     \/ \E column \in Unfilled : WriteJobNull(column)
     \/ WriteUserWithoutEmail

MNext ==
  \/ \E release \in Releases : Deploy(release)
  \/ \E revision \in Releases \cup {Base} : Downgrade(revision)
  \/ Upgrade \/ Undo \/ Commit \/ Killed
  \/ Served

-----------------------------------------------------------------------------
(* A database at the newest revision has the tables the server declares,    *)
(* whatever releases, failed upgrades and downgrades it went through. The   *)
(* exception: the migration of jobs_keys_values (1c16157d0b73) makes the    *)
(* value part of the primary key, models2.JobKeyValue does not.             *)
ButKeyValues(tables) ==
  [tables EXCEPT !["jobs_keys_values"].key = {"job_id", "key"}]
HeadIsDeclared ==
  db.revision = Newest => ButKeyValues(db.tables) = Declared

(* Only the merge of components can refuse the data of an installation that *)
(* was never downgraded; after a downgrade only the revisions whose         *)
(* downgrade leaves something behind cannot be upgraded again, and the one  *)
(* that requires strings when rows were written without them since.         *)
LeavesSomething ==
  {"a918b053c43a", "ab48aca06ac4", "fd04b7d20477", "66680dcf2c88", "46dff7ed04c2",
   "caa65adffe8e", "1c16157d0b73", "e0f709d4ea8f"}
FailureIsExplained ==
  failed[1] = "upgrading" =>
    \/ failed[2] = "46dff7ed04c2"
    \/ failed[2] \in undone \cap (LeavesSomething \cup {"a7d42b83e41e"})

(* An upgrade takes no component from a job: what it had is still there, or *)
(* the row kept for the same display name, version and team is.             *)
NoJobLosesAComponent ==
  [][mode = "upgrading" =>
       \A pair \in db.rows.attached :
         \E kept \in db'.rows.attached :
           /\ kept[1] = pair[1]
           /\ kept[2] \in Rows(db')
           /\ kept[2] = pair[2] \/ NewKey(Row(db', kept[2])) = NewKey(Filled(Row(db, pair[2])))
    ]_mvars
=============================================================================
