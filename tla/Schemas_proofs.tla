--------------------------- MODULE Schemas_proofs ---------------------------
(* Proofs about the migrations and the requests of Schemas, for every set   *)
(* of releases, every number of deployments, failures and downgrades, and   *)
(* every body of every request. In three parts:                             *)
(*   the tables of a database are a function of two sets of revisions, those*)
(*   whose upgrade is in effect and those once downgraded (Shape); each     *)
(*   upgrade and each downgrade moves a database from one such shape to the *)
(*   next, or fails and says why;                                           *)
(*   along an upgrade every pair of a job and a component has one that      *)
(*   descends from it (Kin);                                                *)
(*   what a request hands to a table is bounded by what its schema makes    *)
(*   sure of, its handler adds and the table declares (Covers).             *)
EXTENDS Schemas, TLAPS

-----------------------------------------------------------------------------
(* The tables of a database, as they follow from the revisions whose        *)
(* upgrade is in effect (ups) and those that were once downgraded (left).   *)

When(r, revisions, set) == IF r \in revisions THEN set ELSE {}
Unless(r, revisions, set) == IF r \in revisions THEN {} ELSE set

UsersAt(ups) ==
  Table(Stamps \cup {"name", "fullname", "timezone"}
          \cup Unless("5b771c01636f", ups, {"email"}),
        {"sso_username", "password", "state"}
          \cup When("5b771c01636f", ups, {"email"})
          \cup When("83c6c24dc160", ups, {"sso_sub"}),
        {"id"},
        {Always({"email"}), Always({"name"}), Always({"sso_username"})}
          \cup When("83c6c24dc160", ups, {Always({"sso_sub"})}),
        {}, {})

TeamsAt(ups) ==
  Table(Stamps \cup {"name"}
          \cup When("850229f38182", ups, {"has_pre_release_access"}),
        {"country", "state", "external"}, {"id"}, {Always({"name"})}, {}, {})

RemotecisAt(ups) ==
  Table(Stamps \cup {"team_id"},
        {"name", "data", "api_secret", "public", "state"}
          \cup Unless("609db7251b15", ups, {"cert_fp"}),
        {"id"},
        {Always({"name", "team_id"})}, {Cascade("team_id", "teams")}, {{"team_id"}})

UniqueAt(ups, left) ==
  IF "66680dcf2c88" \in ups THEN When("46dff7ed04c2", ups \cup left, NewUnique)
  ELSE OldUnique

ComponentsAt(ups, left) ==
  Table(Stamps \cup {"released_at", "name", "type"}
          \cup When("66680dcf2c88", ups, {"display_name", "version"})
          \cup When("66680dcf2c88", ups \cup left, {"uid"}),
        {"canonical_project_name", "data", "title", "message", "url", "topic_id",
         "team_id", "state", "tags"},
        {"id"},
        UniqueAt(ups, left),
        {Cascade("team_id", "teams"), Cascade("topic_id", "topics")}, {{"topic_id"}})

JobsAt(ups, left) ==
  Table(Stamps \cup {"remoteci_id", "team_id"}
          \cup When("a7d42b83e41e", ups, JobStrings),
        {"duration", "status", "topic_id", "product_id", "previous_job_id",
         "update_previous_job_id", "state", "tags", "data"}
          \cup Unless("a7d42b83e41e", ups, JobStrings)
          \cup When("fd04b7d20477", ups \cup left, {"pipeline_id"}),
        {"id"}, {},
        jobs.refs \cup When("fd04b7d20477", ups \cup left,
                          {Cascade("pipeline_id", "pipelines")}),
        jobs.index \cup When("caa65adffe8e", ups \cup left, {{"created_at"}}))

(* The tables the initial migration creates and no other changes.           *)
Steady == {"counter", "jobs_events", "logs", "products", "feeders", "products_teams",
           "topics", "users_teams", "user_remotecis", "users_topics",
           "component_files", "jobs_components", "jobstates", "files",
           "tests_results"}

Names(ups, left) ==
  IF "a918b053c43a" \notin ups THEN {}
  ELSE Steady \cup {"users", "teams", "remotecis", "components", "jobs"}
         \cup Unless("4ff34474b4fd", ups, {"topics_teams"})
         \cup When("ab48aca06ac4", ups \cup left, {"pipelines"})
         \cup When("1c16157d0b73", ups \cup left, {"jobs_keys_values"})
         \cup When("e0f709d4ea8f", ups \cup left, {"teams_components_access"})

(* Each table, and all of them.                                             *)
TableAt(t, ups, left) ==
  CASE t \in Steady -> Created[t]
    [] t = "users" -> UsersAt(ups)
    [] t = "teams" -> TeamsAt(ups)
    [] t = "remotecis" -> RemotecisAt(ups)
    [] t = "components" -> ComponentsAt(ups, left)
    [] t = "jobs" -> JobsAt(ups, left)
    [] t = "topics_teams" -> topics_teams
    [] t = "pipelines" -> Pipeline
    [] t = "jobs_keys_values" ->
         Table({"key", "value", "job_id"}, {}, {"key", "value", "job_id"}, {},
               {Cascade("job_id", "jobs")}, {{"key"}, {"job_id"}})
    [] t = "teams_components_access" -> JoinTeamsComponentsAccess

Rekeyed(table, key) == [table EXCEPT !.key = key]

Shape(tables, types, ups, left) ==
  /\ tables = [t \in DOMAIN tables |-> tables[t]]
  /\ DOMAIN tables = Names(ups, left)
  /\ \A t \in DOMAIN tables : tables[t] = TableAt(t, ups, left)
  /\ types = ("a918b053c43a" \in ups \cup left)
  /\ "a918b053c43a" \notin ups => ups = {} /\ (left = {} \/ "a918b053c43a" \in left)
  /\ "46dff7ed04c2" \in ups \cup left => "66680dcf2c88" \in ups \cup left

(* The revisions in effect at one, and those a downgrade has left, the ones *)
(* the transaction at work has undone included.                             *)
Ups(revision) == {Chain[k] : k \in 2..Place(revision)}

Left ==
  IF mode = "downgrading"
  THEN undone \cup {Chain[k] : k \in Place(work.revision) + 1 .. Place(db.revision)}
  ELSE undone

(* A database is at a revision of the chain.                                *)
Database(d) ==
  /\ d = [revision |-> d.revision, tables |-> d.tables, types |-> d.types,
          rows |-> d.rows]
  /\ d.revision \in {Chain[k] : k \in DOMAIN Chain}

(* A merge keeps the latest component of a kind: there is one.              *)
Maxima(S) == \A T \in SUBSET S : T # {} => \E m \in T : \A n \in T : n <= m

(* The rows: each pair of a job and a component has its component.          *)
Filling(d) ==
  /\ d.rows = [components |-> d.rows.components, attached |-> d.rows.attached,
               nulls |-> d.rows.nulls, noEmail |-> d.rows.noEmail]
  /\ d.rows.components = [c \in Rows(d) |-> Row(d, c)]
  /\ Rows(d) \subseteq Nat
  /\ Maxima(Rows(d))
  /\ d.rows.nulls \subseteq JobStrings
  /\ \A pair \in d.rows.attached : pair[2] \in Rows(d)

(* Each component of a job has a descendant among those of the same job:    *)
(* itself, or one whose key it has once it is given a display name.         *)
Kin(before, after) ==
  \A pair \in before.rows.attached :
    \E kept \in after.rows.attached :
      /\ kept[1] = pair[1]
      /\ kept[2] \in Rows(after)
      /\ kept[2] = pair[2]
         \/ NewKey(Row(after, kept[2])) = NewKey(Filled(Row(before, pair[2])))

(* The inductive invariant of the migrations: the shapes of what is         *)
(* committed and of what is at work, and how far the latter is from both.   *)
MInv ==
  /\ Database(db) /\ Database(work)
  /\ Filling(db) /\ Filling(work)
  /\ Shape(db.tables, db.types, Ups(db.revision), undone)
  /\ Shape(work.tables, work.types, Ups(work.revision), Left)
  /\ mode = "upgrading" =>
       /\ target \in Releases
       /\ Place(db.revision) <= Place(work.revision)
       /\ Place(work.revision) <= Place(target)
       /\ Kin(db, work)
       /\ Place(work.revision) <= 5 =>
            /\ work.rows.components = db.rows.components
            /\ work.rows.attached = db.rows.attached
       /\ work.revision = "36c753d31b62" /\ "36c753d31b62" \notin Releases =>
            work.rows.nulls = {}
  /\ mode = "downgrading" =>
       /\ target \in Releases \cup {Base}
       /\ Place(work.revision) <= Place(db.revision)
       /\ Place(target) <= Place(work.revision)
  /\ db.revision \in Releases \cup {Base}

(* That of the requests: the row is one the table can hold.                 *)
SInv ==
  /\ row = [table |-> row.table, values |-> row.values]
  /\ row = NoRow => last.answer # "201" /\ last.method # "PUT"
  /\ row # NoRow =>
       /\ db.revision = Newest
       /\ DOMAIN row.values = Columns(db.tables[row.table])
       /\ ~Refused(row.table, row.values)

-----------------------------------------------------------------------------
(* Places in the chain.                                                     *)

Revisions == {Chain[i] : i \in 2..17}

(* The revisions of the chain, written out.                                 *)
LEMMA ChainFacts ==
  /\ DOMAIN Chain = 1..17 /\ Len(Chain) = 17
  /\ Chain[1] = "base"
  /\ Chain[2] = "a918b053c43a"
  /\ Chain[3] = "ab48aca06ac4"
  /\ Chain[4] = "fd04b7d20477"
  /\ Chain[5] = "66680dcf2c88"
  /\ Chain[6] = "46dff7ed04c2"
  /\ Chain[7] = "caa65adffe8e"
  /\ Chain[8] = "609db7251b15"
  /\ Chain[9] = "1c16157d0b73"
  /\ Chain[10] = "5b771c01636f"
  /\ Chain[11] = "850229f38182"
  /\ Chain[12] = "e0f709d4ea8f"
  /\ Chain[13] = "892f7e0ba88d"
  /\ Chain[14] = "36c753d31b62"
  /\ Chain[15] = "a7d42b83e41e"
  /\ Chain[16] = "83c6c24dc160"
  /\ Chain[17] = "4ff34474b4fd"
BY DEF Chain, Base

(* No two places of the chain hold the same revision.                       *)
LEMMA ChainInjective == \A i, j \in 1..17 : Chain[i] = Chain[j] => i = j
<1>1. \A i \in 1..17 :
      \/ i = 1 \/ i = 2 \/ i = 3 \/ i = 4 \/ i = 5 \/ i = 6 \/ i = 7 \/ i = 8
      \/ i = 9 \/ i = 10 \/ i = 11 \/ i = 12 \/ i = 13 \/ i = 14
      \/ i = 15 \/ i = 16 \/ i = 17
  OBVIOUS
<1>. QED  BY <1>1, ChainFacts, SMTT(60)

(* Place inverts the chain.                                                 *)
LEMMA PlaceOfChain == \A i \in 1..17 : Place(Chain[i]) = i
BY ChainFacts, ChainInjective DEF Place

(* Every revision is at its place.                                          *)
LEMMA ChainOfPlace ==
  ASSUME NEW r \in {Chain[k] : k \in DOMAIN Chain}
  PROVE  Place(r) \in 1..17 /\ Chain[Place(r)] = r
BY PlaceOfChain, ChainFacts

(* The places, written out.                                                 *)
LEMMA Places ==
  /\ Place("base") = 1
  /\ Place("a918b053c43a") = 2
  /\ Place("ab48aca06ac4") = 3
  /\ Place("fd04b7d20477") = 4
  /\ Place("66680dcf2c88") = 5
  /\ Place("46dff7ed04c2") = 6
  /\ Place("caa65adffe8e") = 7
  /\ Place("609db7251b15") = 8
  /\ Place("1c16157d0b73") = 9
  /\ Place("5b771c01636f") = 10
  /\ Place("850229f38182") = 11
  /\ Place("e0f709d4ea8f") = 12
  /\ Place("892f7e0ba88d") = 13
  /\ Place("36c753d31b62") = 14
  /\ Place("a7d42b83e41e") = 15
  /\ Place("83c6c24dc160") = 16
  /\ Place("4ff34474b4fd") = 17
BY PlaceOfChain, ChainFacts

(* Sixteen revisions have an upgrade.                                       *)
LEMMA RevisionsAre ==
  Revisions = {"a918b053c43a", "ab48aca06ac4", "fd04b7d20477", "66680dcf2c88",
               "46dff7ed04c2", "caa65adffe8e", "609db7251b15", "1c16157d0b73",
               "5b771c01636f", "850229f38182", "e0f709d4ea8f", "892f7e0ba88d",
               "36c753d31b62", "a7d42b83e41e", "83c6c24dc160", "4ff34474b4fd"}
<1>1. \A i \in 2..17 :
      \/ i = 2 \/ i = 3 \/ i = 4 \/ i = 5 \/ i = 6 \/ i = 7 \/ i = 8
      \/ i = 9 \/ i = 10 \/ i = 11 \/ i = 12 \/ i = 13 \/ i = 14
      \/ i = 15 \/ i = 16 \/ i = 17
  OBVIOUS
<1>. QED  BY <1>1, ChainFacts DEF Revisions

(* The revisions in effect at a place; one more after an upgrade, one less  *)
(* after a downgrade.                                                       *)
LEMMA UpsUp ==
  ASSUME NEW i \in 1..16
  PROVE  /\ Ups(Chain[i + 1]) = Ups(Chain[i]) \cup {Chain[i + 1]}
         /\ Chain[i + 1] \notin Ups(Chain[i])
         /\ Chain[i + 1] \in Revisions
<1>1. i + 1 \in 2..17 /\ i \in 1..17
  OBVIOUS
<1>2. Place(Chain[i]) = i /\ Place(Chain[i + 1]) = i + 1
  BY <1>1, PlaceOfChain
<1>3. 2..(i + 1) = (2..i) \cup {i + 1}
  OBVIOUS
<1>4. \A k \in 2..i : Chain[k] # Chain[i + 1]
  BY <1>1, ChainInjective
<1>. QED  BY <1>1, <1>2, <1>3, <1>4 DEF Ups, Revisions

(* A revision is in effect from its place on.                               *)
LEMMA InUps ==
  ASSUME NEW i \in 1..17, NEW j \in 2..17
  PROVE  Chain[j] \in Ups(Chain[i]) <=> j <= i
<1>1. Place(Chain[i]) = i
  BY PlaceOfChain
<1>. QED  BY <1>1, ChainInjective DEF Ups

-----------------------------------------------------------------------------
(* What the statements do to a database.                                    *)

(* The database d with other tables.                                        *)
With(d, tables) == [d EXCEPT !.tables = tables]

(* A database is what its fields say.                                       *)
LEMMA WithFields ==
  ASSUME NEW d, Database(d), NEW tables
  PROVE  /\ With(d, tables).tables = tables
         /\ With(d, tables).types = d.types
         /\ With(d, tables).rows = d.rows
         /\ With(d, tables).revision = d.revision
         /\ Database(With(d, tables))
BY DEF Database, With

(* The same with other rows.                                                *)
LEMMA WithRowsFields ==
  ASSUME NEW d, Database(d), NEW rows
  PROVE  /\ WithRows(d, rows).rows = rows
         /\ WithRows(d, rows).types = d.types
         /\ WithRows(d, rows).tables = d.tables
         /\ WithRows(d, rows).revision = d.revision
         /\ Database(WithRows(d, rows))
BY DEF Database, WithRows

(* To alter a table is to have other tables.                                *)
LEMMA AlterWith ==
  ASSUME NEW d, Database(d), NEW name, NEW table
  PROVE  Alter(d, name, table) = With(d, [d.tables EXCEPT ![name] = table])
BY DEF Alter, With

(* Each statement on a table whose fields are known, as an Alter.           *)

(* The statement AddNullable.                                               *)
LEMMA AddNullableIs ==
  ASSUME NEW d, NEW t, NEW r, NEW n, NEW k, NEW u, NEW f, NEW i, NEW c,
         d.tables[t] = Table(r, n, k, u, f, i)
  PROVE  AddNullable(d, t, c) = Alter(d, t, Table(r, n \cup {c}, k, u, f, i))
BY DEF AddNullable, WithColumns, Table

(* The statement AddRequired.                                               *)
LEMMA AddRequiredIs ==
  ASSUME NEW d, NEW t, NEW r, NEW n, NEW k, NEW u, NEW f, NEW i, NEW c,
         d.tables[t] = Table(r, n, k, u, f, i)
  PROVE  AddRequired(d, t, c) = Alter(d, t, Table(r \cup {c}, n, k, u, f, i))
BY DEF AddRequired, WithColumns, Table

(* The statement DropColumn.                                                *)
LEMMA DropColumnIs ==
  ASSUME NEW d, NEW t, NEW r, NEW n, NEW k, NEW u, NEW f, NEW i, NEW c,
         d.tables[t] = Table(r, n, k, u, f, i)
  PROVE  DropColumn(d, t, c) = Alter(d, t, Table(r \ {c}, n \ {c}, k, u, f, i))
BY DEF DropColumn, WithColumns, Table

(* The statement SetNull.                                                   *)
LEMMA SetNullIs ==
  ASSUME NEW d, NEW t, NEW r, NEW n, NEW k, NEW u, NEW f, NEW i, NEW s,
         d.tables[t] = Table(r, n, k, u, f, i)
  PROVE  SetNull(d, t, s) = Alter(d, t, Table(r \ s, n \cup s, k, u, f, i))
BY DEF SetNull, WithColumns, Table

(* The statement SetNotNull.                                                *)
LEMMA SetNotNullIs ==
  ASSUME NEW d, NEW t, NEW r, NEW n, NEW k, NEW u, NEW f, NEW i, NEW s,
         d.tables[t] = Table(r, n, k, u, f, i)
  PROVE  SetNotNull(d, t, s) = Alter(d, t, Table(r \cup s, n \ s, k, u, f, i))
BY DEF SetNotNull, WithColumns, Table

(* The statement AddUnique.                                                 *)
LEMMA AddUniqueIs ==
  ASSUME NEW d, NEW t, NEW r, NEW n, NEW k, NEW u, NEW f, NEW i, NEW s,
         d.tables[t] = Table(r, n, k, u, f, i)
  PROVE  AddUnique(d, t, s) = Alter(d, t, Table(r, n, k, u \cup s, f, i))
BY DEF AddUnique, Table

(* The statement DropUnique.                                                *)
LEMMA DropUniqueIs ==
  ASSUME NEW d, NEW t, NEW r, NEW n, NEW k, NEW u, NEW f, NEW i, NEW s,
         d.tables[t] = Table(r, n, k, u, f, i)
  PROVE  DropUnique(d, t, s) = Alter(d, t, Table(r, n, k, u \ s, f, i))
BY DEF DropUnique, Table

(* The statement AddRef.                                                    *)
LEMMA AddRefIs ==
  ASSUME NEW d, NEW t, NEW r, NEW n, NEW k, NEW u, NEW f, NEW i, NEW c,
         d.tables[t] = Table(r, n, k, u, f, i)
  PROVE  AddRef(d, t, c) = Alter(d, t, Table(r, n, k, u, f \cup {c}, i))
BY DEF AddRef, Table

(* The statement AddIndex.                                                  *)
LEMMA AddIndexIs ==
  ASSUME NEW d, NEW t, NEW r, NEW n, NEW k, NEW u, NEW f, NEW i, NEW c,
         d.tables[t] = Table(r, n, k, u, f, i)
  PROVE  AddIndex(d, t, c) = Alter(d, t, Table(r, n, k, u, f, i \cup {c}))
BY DEF AddIndex, Table

-----------------------------------------------------------------------------
(* The tables one by one.                                                   *)

KeyValues == Table({"key", "value", "job_id"}, {}, {"key", "value", "job_id"}, {},
                   {Cascade("job_id", "jobs")}, {{"key"}, {"job_id"}})

(* TableAt, name by name.                                                   *)
LEMMA TableAts ==
  ASSUME NEW ups, NEW left
  PROVE  /\ \A t \in Steady : TableAt(t, ups, left) = Created[t]
         /\ TableAt("users", ups, left) = UsersAt(ups)
         /\ TableAt("teams", ups, left) = TeamsAt(ups)
         /\ TableAt("remotecis", ups, left) = RemotecisAt(ups)
         /\ TableAt("components", ups, left) = ComponentsAt(ups, left)
         /\ TableAt("jobs", ups, left) = JobsAt(ups, left)
         /\ TableAt("topics_teams", ups, left) = topics_teams
         /\ TableAt("pipelines", ups, left) = Pipeline
         /\ TableAt("jobs_keys_values", ups, left) = KeyValues
         /\ TableAt("teams_components_access", ups, left) = JoinTeamsComponentsAccess
BY DEF TableAt, Steady, KeyValues

(* The names a database may have.                                           *)
Changing == {"users", "teams", "remotecis", "components", "jobs"}
Optional == {"topics_teams", "pipelines", "jobs_keys_values", "teams_components_access"}

(* What the shape says of the tables, without the facts on the history.     *)
Tabled(tables, ups, left) ==
  /\ tables = [t \in DOMAIN tables |-> tables[t]]
  /\ DOMAIN tables = Names(ups, left)
  /\ \A t \in DOMAIN tables : tables[t] = TableAt(t, ups, left)

(* A statement on one table leaves the others.                              *)
LEMMA TabledAlter ==
  ASSUME NEW tables, NEW ups, NEW left, NEW ups2, NEW left2,
         Tabled(tables, ups, left), NEW name, NEW table,
         Names(ups2, left2) = Names(ups, left),
         table = TableAt(name, ups2, left2),
         \A t \in Names(ups, left) \ {name} :
           TableAt(t, ups2, left2) = TableAt(t, ups, left)
  PROVE  Tabled([tables EXCEPT ![name] = table], ups2, left2)
BY DEF Tabled

(* Tables that stay as they are.                                            *)
LEMMA TabledSame ==
  ASSUME NEW tables, NEW ups, NEW left, NEW ups2, NEW left2,
         Tabled(tables, ups, left),
         Names(ups2, left2) = Names(ups, left),
         \A t \in Names(ups, left) : TableAt(t, ups2, left2) = TableAt(t, ups, left)
  PROVE  Tabled(tables, ups2, left2)
BY DEF Tabled


(* Where a column, a table or a constraint depends on one revision.         *)
Agree(revisions, ups, ups2) == \A r \in revisions : r \in ups <=> r \in ups2

(* Two histories that agree on these revisions have the same tables.        *)
LEMMA TablesAgree ==
  ASSUME NEW ups, NEW left, NEW ups2, NEW left2
  PROVE  /\ Agree({"5b771c01636f", "83c6c24dc160"}, ups, ups2) =>
              UsersAt(ups2) = UsersAt(ups)
         /\ Agree({"850229f38182"}, ups, ups2) => TeamsAt(ups2) = TeamsAt(ups)
         /\ Agree({"609db7251b15"}, ups, ups2) => RemotecisAt(ups2) = RemotecisAt(ups)
         /\ Agree({"66680dcf2c88"}, ups, ups2)
            /\ Agree({"66680dcf2c88", "46dff7ed04c2"}, ups \cup left, ups2 \cup left2) =>
              ComponentsAt(ups2, left2) = ComponentsAt(ups, left)
         /\ Agree({"a7d42b83e41e"}, ups, ups2)
            /\ Agree({"fd04b7d20477", "caa65adffe8e"}, ups \cup left, ups2 \cup left2) =>
              JobsAt(ups2, left2) = JobsAt(ups, left)
         /\ Agree({"a918b053c43a", "4ff34474b4fd"}, ups, ups2)
            /\ Agree({"ab48aca06ac4", "1c16157d0b73", "e0f709d4ea8f"},
                     ups \cup left, ups2 \cup left2) =>
              Names(ups2, left2) = Names(ups, left)
<1>1. Agree({"5b771c01636f", "83c6c24dc160"}, ups, ups2) => UsersAt(ups2) = UsersAt(ups)
  BY DEF Agree, UsersAt, When, Unless
<1>2. Agree({"850229f38182"}, ups, ups2) => TeamsAt(ups2) = TeamsAt(ups)
  BY DEF Agree, TeamsAt, When, Unless
<1>3. Agree({"609db7251b15"}, ups, ups2) => RemotecisAt(ups2) = RemotecisAt(ups)
  BY DEF Agree, RemotecisAt, When, Unless
<1>4. Agree({"66680dcf2c88"}, ups, ups2)
      /\ Agree({"66680dcf2c88", "46dff7ed04c2"}, ups \cup left, ups2 \cup left2) =>
        ComponentsAt(ups2, left2) = ComponentsAt(ups, left)
  BY DEF Agree, ComponentsAt, UniqueAt, When, Unless
<1>5. Agree({"a7d42b83e41e"}, ups, ups2)
      /\ Agree({"fd04b7d20477", "caa65adffe8e"}, ups \cup left, ups2 \cup left2) =>
        JobsAt(ups2, left2) = JobsAt(ups, left)
  BY DEF Agree, JobsAt, When, Unless
<1>6. Agree({"a918b053c43a", "4ff34474b4fd"}, ups, ups2)
      /\ Agree({"ab48aca06ac4", "1c16157d0b73", "e0f709d4ea8f"},
               ups \cup left, ups2 \cup left2) =>
        Names(ups2, left2) = Names(ups, left)
  BY DEF Agree, Names, When, Unless
<1>. QED  BY <1>1, <1>2, <1>3, <1>4, <1>5, <1>6

-----------------------------------------------------------------------------
(* One statement takes a shape to a shape.                                  *)

(* What the history says whatever the tables.                               *)
History(types, ups, left) ==
  /\ types = ("a918b053c43a" \in ups \cup left)
  /\ "a918b053c43a" \notin ups => ups = {} /\ (left = {} \/ "a918b053c43a" \in left)
  /\ "46dff7ed04c2" \in ups \cup left => "66680dcf2c88" \in ups \cup left

(* A shape is its tables and its history.                                   *)
LEMMA ShapeParts ==
  ASSUME NEW tables, NEW types, NEW ups, NEW left
  PROVE  Shape(tables, types, ups, left) <=>
           Tabled(tables, ups, left) /\ History(types, ups, left)
BY DEF Shape, Tabled, History

(* The outcome e of a migration of d that leaves the rows alone.            *)
Reached(d, e, ups, left) ==
  /\ Database(e) /\ e.revision = d.revision /\ e.rows = d.rows
  /\ Shape(e.tables, e.types, ups, left)

(* Every table is steady, changing or optional.                             *)
LEMMA NamesAre ==
  ASSUME NEW ups, NEW left
  PROVE  Names(ups, left) \subseteq Steady \cup Changing \cup Optional
BY DEF Names, Changing, Optional, When, Unless

(* What it takes for a table to be the same in two histories.               *)
LEMMA Others ==
  ASSUME NEW ups, NEW left, NEW ups2, NEW left2,
         NEW t \in Names(ups, left),
         t = "users" => UsersAt(ups2) = UsersAt(ups),
         t = "teams" => TeamsAt(ups2) = TeamsAt(ups),
         t = "remotecis" => RemotecisAt(ups2) = RemotecisAt(ups),
         t = "components" => ComponentsAt(ups2, left2) = ComponentsAt(ups, left),
         t = "jobs" => JobsAt(ups2, left2) = JobsAt(ups, left)
  PROVE  TableAt(t, ups2, left2) = TableAt(t, ups, left)
<1>1. t \in Steady \cup Changing \cup Optional
  BY NamesAre
<1>2. t \in Steady => TableAt(t, ups2, left2) = TableAt(t, ups, left)
  BY TableAts
<1>3. t \in Changing => TableAt(t, ups2, left2) = TableAt(t, ups, left)
  BY TableAts DEF Changing
<1>4. t \in Optional => TableAt(t, ups2, left2) = TableAt(t, ups, left)
  BY TableAts DEF Optional
<1>. QED  BY <1>1, <1>2, <1>3, <1>4

(* A statement that alters one table.                                       *)
LEMMA ReachedByAlter ==
  ASSUME NEW d, Database(d), NEW ups, NEW left, NEW ups2, NEW left2,
         Shape(d.tables, d.types, ups, left),
         NEW name, NEW table,
         table = TableAt(name, ups2, left2),
         Names(ups2, left2) = Names(ups, left),
         History(d.types, ups2, left2),
         \A t \in Names(ups, left) \ {name} :
           TableAt(t, ups2, left2) = TableAt(t, ups, left)
  PROVE  Reached(d, Alter(d, name, table), ups2, left2)
<1>. DEFINE e == Alter(d, name, table)
            T == [d.tables EXCEPT ![name] = table]
<1>1. e = With(d, T)
  BY AlterWith
<1>2. /\ e.tables = T /\ e.types = d.types /\ e.rows = d.rows /\ e.revision = d.revision
      /\ Database(e)
  BY <1>1, WithFields
<1>3. Tabled(T, ups2, left2)
  BY ShapeParts, TabledAlter
<1>. QED  BY <1>2, <1>3, ShapeParts DEF Reached

(* A statement that creates a table.                                        *)
LEMMA ReachedByCreate ==
  ASSUME NEW d, Database(d), NEW ups, NEW left, NEW ups2, NEW left2,
         Shape(d.tables, d.types, ups, left),
         NEW name, NEW table,
         name \notin Names(ups, left),
         table = TableAt(name, ups2, left2),
         Names(ups2, left2) = Names(ups, left) \cup {name},
         History(d.types, ups2, left2),
         \A t \in Names(ups, left) : TableAt(t, ups2, left2) = TableAt(t, ups, left)
  PROVE  Reached(d, CreateTable(d, name, table), ups2, left2)
<1>. DEFINE e == CreateTable(d, name, table)
            T == Over([t \in {name} |-> table], d.tables)
<1>1. e = With(d, T)
  BY DEF CreateTable, With
<1>2. /\ e.tables = T /\ e.types = d.types /\ e.rows = d.rows /\ e.revision = d.revision
      /\ Database(e)
  BY <1>1, WithFields
<1>3. Tabled(T, ups2, left2)
  BY ShapeParts DEF Tabled, Over
<1>. QED  BY <1>2, <1>3, ShapeParts DEF Reached

(* A statement that drops a table.                                          *)
LEMMA ReachedByDrop ==
  ASSUME NEW d, Database(d), NEW ups, NEW left, NEW ups2, NEW left2,
         Shape(d.tables, d.types, ups, left),
         NEW name,
         Names(ups2, left2) = Names(ups, left) \ {name},
         History(d.types, ups2, left2),
         \A t \in Names(ups2, left2) : TableAt(t, ups2, left2) = TableAt(t, ups, left)
  PROVE  Reached(d, DropTable(d, name), ups2, left2)
<1>. DEFINE e == DropTable(d, name)
            T == [t \in DOMAIN d.tables \ {name} |-> d.tables[t]]
<1>1. e = With(d, T)
  BY DEF DropTable, With
<1>2. /\ e.tables = T /\ e.types = d.types /\ e.rows = d.rows /\ e.revision = d.revision
      /\ Database(e)
  BY <1>1, WithFields
<1>3. Tabled(T, ups2, left2)
  BY ShapeParts DEF Tabled
<1>. QED  BY <1>2, <1>3, ShapeParts DEF Reached

(* A migration that changes no table.                                       *)
LEMMA ReachedSame ==
  ASSUME NEW d, Database(d), NEW ups, NEW left, NEW ups2, NEW left2,
         Shape(d.tables, d.types, ups, left),
         Names(ups2, left2) = Names(ups, left),
         History(d.types, ups2, left2),
         \A t \in Names(ups, left) : TableAt(t, ups2, left2) = TableAt(t, ups, left)
  PROVE  Reached(d, d, ups2, left2)
BY ShapeParts, TabledSame DEF Reached

(* Two statements on one table.                                             *)
LEMMA AlterTwice ==
  ASSUME NEW d, Database(d), NEW name \in DOMAIN d.tables, NEW a, NEW b
  PROVE  /\ Alter(d, name, a).tables[name] = a
         /\ Database(Alter(d, name, a))
         /\ name \in DOMAIN Alter(d, name, a).tables
         /\ Alter(Alter(d, name, a), name, b) = Alter(d, name, b)
<1>. DEFINE T == [d.tables EXCEPT ![name] = a]
            e == With(d, T)
<1>1. Alter(d, name, a) = e /\ e.tables = T /\ Database(e)
  BY AlterWith, WithFields
<1>2. Alter(e, name, b) = With(e, [T EXCEPT ![name] = b])
  BY <1>1, AlterWith
<1>3. [T EXCEPT ![name] = b] = [d.tables EXCEPT ![name] = b]
  OBVIOUS
<1>4. With(e, [d.tables EXCEPT ![name] = b]) = With(d, [d.tables EXCEPT ![name] = b])
  BY DEF With
<1>. QED  BY <1>1, <1>2, <1>3, <1>4, AlterWith

(* The five tables that change, in a database that has tables.              *)
LEMMA TablesInShape ==
  ASSUME NEW d, NEW ups, NEW left, Shape(d.tables, d.types, ups, left),
         "a918b053c43a" \in ups
  PROVE  /\ Changing \subseteq DOMAIN d.tables
         /\ "users" \in DOMAIN d.tables /\ d.tables["users"] = UsersAt(ups)
         /\ "teams" \in DOMAIN d.tables /\ d.tables["teams"] = TeamsAt(ups)
         /\ "remotecis" \in DOMAIN d.tables /\ d.tables["remotecis"] = RemotecisAt(ups)
         /\ "components" \in DOMAIN d.tables
         /\ d.tables["components"] = ComponentsAt(ups, left)
         /\ "jobs" \in DOMAIN d.tables /\ d.tables["jobs"] = JobsAt(ups, left)
<1>1. Changing \subseteq DOMAIN d.tables
  BY DEF Shape, Names, Changing
<1>. QED  BY <1>1, TableAts DEF Changing, Shape

-----------------------------------------------------------------------------
(* What each upgrade does to the tables.                                    *)

(* What the migrations that also write rows do to the tables.               *)
Uniqued(d) == <<TRUE, AddUnique(d, "components", NewUnique)>>
Unnamed(d) ==
  <<TRUE,
    AddUnique(DropUnique(DropColumn(DropColumn(d, "components", "version"),
                                    "components", "display_name"),
                         "components", NewUnique),
              "components", OldUnique)>>

(* fd04b7d20477 adds the pipeline of a job.                                 *)
LEMMA UpAddPipelineInJobs ==
  ASSUME NEW d, Database(d), NEW ups, NEW left,
         Shape(d.tables, d.types, ups, left),
         "a918b053c43a" \in ups, "fd04b7d20477" \notin ups
  PROVE  /\ AddPipelineInJobs(d)[1] =>
              Reached(d, AddPipelineInJobs(d)[2], ups \cup {"fd04b7d20477"}, left)
         /\ ~AddPipelineInJobs(d)[1] => "fd04b7d20477" \in left
<1>. DEFINE ups2 == ups \cup {"fd04b7d20477"}
            R == Stamps \cup {"remoteci_id", "team_id"}
                   \cup When("a7d42b83e41e", ups, JobStrings)
            N == {"duration", "status", "topic_id", "product_id", "previous_job_id",
                    "update_previous_job_id", "state", "tags", "data"}
                     \cup Unless("a7d42b83e41e", ups, JobStrings)
                     \cup When("fd04b7d20477", ups \cup left, {"pipeline_id"})
            F == jobs.refs \cup When("fd04b7d20477", ups \cup left,
                                     {Cascade("pipeline_id", "pipelines")})
            I == jobs.index \cup When("caa65adffe8e", ups \cup left, {{"created_at"}})
<1>1. /\ "jobs" \in DOMAIN d.tables
      /\ d.tables["jobs"] = JobsAt(ups, left)
      /\ JobsAt(ups, left) = Table(R, N, {"id"}, {}, F, I)
  BY TablesInShape DEF JobsAt
<1>. HIDE DEF R, N, F, I
<1>2. AddPipelineInJobs(d)[1] <=> "fd04b7d20477" \notin left
  <2>1. Columns(JobsAt(ups, left)) = R \cup N
    BY <1>1 DEF Columns, Table
  <2>2. "pipeline_id" \in R \cup N <=> "fd04b7d20477" \in ups \cup left
    BY DEF R, N, F, I, When, Unless, Stamps, JobStrings
  <2>. QED  BY <1>1, <2>1, <2>2 DEF AddPipelineInJobs, Lacks
<1>3. ASSUME AddPipelineInJobs(d)[1]
      PROVE  AddPipelineInJobs(d)[2] = Alter(d, "jobs", JobsAt(ups2, left))
  <2>. DEFINE a == AddNullable(d, "jobs", "pipeline_id")
  <2>1. a = Alter(d, "jobs",
          Table(R, N \cup {"pipeline_id"}, {"id"}, {}, F, I))
    BY <1>1, AddNullableIs
  <2>. DEFINE b == AddRef(a, "jobs", Cascade("pipeline_id", "pipelines"))
  <2>2. b = Alter(d, "jobs",
          Table(R, N \cup {"pipeline_id"}, {"id"},
                {}, F \cup {Cascade("pipeline_id", "pipelines")}, I))
    BY <1>1, <2>1, AlterTwice, AddRefIs
  <2>3. R =
          Stamps \cup {"remoteci_id", "team_id"}
            \cup When("a7d42b83e41e", ups2, JobStrings)
    BY <1>2, <1>3 DEF R, N, F, I, When, Unless, Stamps, JobStrings
  <2>4. N \cup {"pipeline_id"} =
          {"duration", "status", "topic_id", "product_id", "previous_job_id",
                    "update_previous_job_id", "state", "tags", "data"}
                     \cup Unless("a7d42b83e41e", ups2, JobStrings)
                     \cup When("fd04b7d20477", ups2 \cup left, {"pipeline_id"})
    BY <1>2, <1>3 DEF R, N, F, I, When, Unless, Stamps, JobStrings
  <2>5. F \cup {Cascade("pipeline_id", "pipelines")} =
          jobs.refs \cup When("fd04b7d20477", ups2 \cup left,
                                     {Cascade("pipeline_id", "pipelines")})
    BY <1>2, <1>3 DEF R, N, F, I, When, Unless, Stamps, JobStrings
  <2>6. I =
          jobs.index \cup When("caa65adffe8e", ups2 \cup left, {{"created_at"}})
    BY <1>2, <1>3 DEF R, N, F, I, When, Unless, Stamps, JobStrings
  <2>. QED  BY <2>2, <2>3, <2>4, <2>5, <2>6 DEF AddPipelineInJobs, JobsAt
<1>4. /\ Names(ups2, left) = Names(ups, left)
      /\ \A t \in Names(ups, left) \ {"jobs"} :
           TableAt(t, ups2, left) = TableAt(t, ups, left)
  <2>1. /\ UsersAt(ups2) = UsersAt(ups)
        /\ TeamsAt(ups2) = TeamsAt(ups)
        /\ RemotecisAt(ups2) = RemotecisAt(ups)
        /\ ComponentsAt(ups2, left) = ComponentsAt(ups, left)
        /\ Names(ups2, left) = Names(ups, left)
    BY TablesAgree DEF Agree
  <2>. QED  BY <2>1, Others
<1>5. History(d.types, ups2, left)
  BY DEF Shape, History
<1>6. TableAt("jobs", ups2, left) = JobsAt(ups2, left)
  BY TableAts
<1>. QED  BY <1>2, <1>3, <1>4, <1>5, <1>6, ReachedByAlter

(* 66680dcf2c88 adds the display name, the version and the uid.             *)
LEMMA UpAddDisplayName ==
  ASSUME NEW d, Database(d), NEW ups, NEW left,
         Shape(d.tables, d.types, ups, left),
         "a918b053c43a" \in ups, "66680dcf2c88" \notin ups
  PROVE  /\ AddDisplayName(d)[1] =>
              Reached(d, AddDisplayName(d)[2], ups \cup {"66680dcf2c88"}, left)
         /\ ~AddDisplayName(d)[1] => "66680dcf2c88" \in left
<1>. DEFINE ups2 == ups \cup {"66680dcf2c88"}
            R == Stamps \cup {"released_at", "name", "type"}
                     \cup When("66680dcf2c88", ups, {"display_name", "version"})
                     \cup When("66680dcf2c88", ups \cup left, {"uid"})
            N == {"canonical_project_name", "data", "title", "message", "url", "topic_id",
                    "team_id", "state", "tags"}
            U == UniqueAt(ups, left)
<1>1. /\ "components" \in DOMAIN d.tables
      /\ d.tables["components"] = ComponentsAt(ups, left)
      /\ ComponentsAt(ups, left) = Table(R, N, {"id"},
                                         U, {Cascade("team_id", "teams"),
                                         Cascade("topic_id", "topics")}, {{"topic_id"}})
  BY TablesInShape DEF ComponentsAt
<1>. HIDE DEF R, N, U
<1>2. AddDisplayName(d)[1] <=> "66680dcf2c88" \notin left
  <2>1. Columns(ComponentsAt(ups, left)) = R \cup N
    BY <1>1 DEF Columns, Table
  <2>2. /\ "uid" \in R \cup N <=> "66680dcf2c88" \in ups \cup left
        /\ "display_name" \notin R \cup N /\ "version" \notin R \cup N
    BY DEF R, N, U, When, Unless, Stamps
  <2>. QED  BY <1>1, <2>1, <2>2 DEF AddDisplayName
<1>3. ASSUME AddDisplayName(d)[1]
      PROVE  AddDisplayName(d)[2] = Alter(d, "components", ComponentsAt(ups2, left))
  <2>. DEFINE a == AddRequired(d, "components", "display_name")
  <2>1. a = Alter(d, "components",
          Table(R \cup {"display_name"}, N, {"id"},
                U, {Cascade("team_id", "teams"), Cascade("topic_id", "topics")},
                {{"topic_id"}}))
    BY <1>1, AddRequiredIs
  <2>. DEFINE b == AddRequired(a, "components", "version")
  <2>2. b = Alter(d, "components",
          Table((R \cup {"display_name"}) \cup {"version"}, N, {"id"},
                U, {Cascade("team_id", "teams"), Cascade("topic_id", "topics")},
                {{"topic_id"}}))
    BY <1>1, <2>1, AlterTwice, AddRequiredIs
  <2>. DEFINE c == AddRequired(b, "components", "uid")
  <2>3. c = Alter(d, "components",
          Table(((R \cup {"display_name"}) \cup {"version"}) \cup {"uid"}, N, {"id"},
                U, {Cascade("team_id", "teams"), Cascade("topic_id", "topics")},
                {{"topic_id"}}))
    BY <1>1, <2>2, AlterTwice, AddRequiredIs
  <2>. DEFINE e == DropUnique(c, "components", OldUnique)
  <2>4. e = Alter(d, "components",
          Table(((R \cup {"display_name"}) \cup {"version"}) \cup {"uid"}, N, {"id"},
                (U) \ OldUnique,
                {Cascade("team_id", "teams"), Cascade("topic_id", "topics")},
                {{"topic_id"}}))
    BY <1>1, <2>3, AlterTwice, DropUniqueIs
  <2>5. ((R \cup {"display_name"}) \cup {"version"}) \cup {"uid"} =
          Stamps \cup {"released_at", "name", "type"}
                     \cup When("66680dcf2c88", ups2, {"display_name", "version"})
                     \cup When("66680dcf2c88", ups2 \cup left, {"uid"})
    BY <1>2, <1>3 DEF R, N, U, When, Unless, Stamps, UniqueAt, Shape
  <2>6. N =
          {"canonical_project_name", "data", "title", "message", "url", "topic_id",
                    "team_id", "state", "tags"}
    BY <1>2, <1>3 DEF R, N, U, When, Unless, Stamps, UniqueAt, Shape
  <2>7. (U) \ OldUnique =
          UniqueAt(ups2, left)
    BY <1>2, <1>3 DEF R, N, U, When, Unless, Stamps, UniqueAt, Shape
  <2>. QED  BY <2>4, <2>5, <2>6, <2>7 DEF AddDisplayName, ComponentsAt
<1>4. /\ Names(ups2, left) = Names(ups, left)
      /\ \A t \in Names(ups, left) \ {"components"} :
           TableAt(t, ups2, left) = TableAt(t, ups, left)
  <2>1. /\ UsersAt(ups2) = UsersAt(ups)
        /\ TeamsAt(ups2) = TeamsAt(ups)
        /\ RemotecisAt(ups2) = RemotecisAt(ups)
        /\ JobsAt(ups2, left) = JobsAt(ups, left)
        /\ Names(ups2, left) = Names(ups, left)
    BY TablesAgree DEF Agree
  <2>. QED  BY <2>1, Others
<1>5. History(d.types, ups2, left)
  BY DEF Shape, History
<1>6. TableAt("components", ups2, left) = ComponentsAt(ups2, left)
  BY TableAts
<1>. QED  BY <1>2, <1>3, <1>4, <1>5, <1>6, ReachedByAlter

(* caa65adffe8e indexes the jobs by date.                                   *)
LEMMA UpIndexJobsByDate ==
  ASSUME NEW d, Database(d), NEW ups, NEW left,
         Shape(d.tables, d.types, ups, left),
         "a918b053c43a" \in ups, "caa65adffe8e" \notin ups
  PROVE  /\ IndexJobsByDate(d)[1] =>
              Reached(d, IndexJobsByDate(d)[2], ups \cup {"caa65adffe8e"}, left)
         /\ ~IndexJobsByDate(d)[1] => "caa65adffe8e" \in left
<1>. DEFINE ups2 == ups \cup {"caa65adffe8e"}
            R == Stamps \cup {"remoteci_id", "team_id"}
                   \cup When("a7d42b83e41e", ups, JobStrings)
            N == {"duration", "status", "topic_id", "product_id", "previous_job_id",
                    "update_previous_job_id", "state", "tags", "data"}
                     \cup Unless("a7d42b83e41e", ups, JobStrings)
                     \cup When("fd04b7d20477", ups \cup left, {"pipeline_id"})
            F == jobs.refs \cup When("fd04b7d20477", ups \cup left,
                                     {Cascade("pipeline_id", "pipelines")})
            I == jobs.index \cup When("caa65adffe8e", ups \cup left, {{"created_at"}})
<1>1. /\ "jobs" \in DOMAIN d.tables
      /\ d.tables["jobs"] = JobsAt(ups, left)
      /\ JobsAt(ups, left) = Table(R, N, {"id"}, {}, F, I)
  BY TablesInShape DEF JobsAt
<1>. DEFINE dated == {"created_at"}
<1>. HIDE DEF dated, R, N, F, I
<1>2. IndexJobsByDate(d)[1] <=> "caa65adffe8e" \notin left
  <2>1. d.tables["jobs"].index = I
    BY <1>1 DEF Table
  <2>2. {"created_at"} \in I <=> "caa65adffe8e" \in ups \cup left
    BY DEF R, N, F, I, When, jobs, Table
  <2>. QED  BY <2>1, <2>2 DEF IndexJobsByDate
<1>3. ASSUME IndexJobsByDate(d)[1]
      PROVE  IndexJobsByDate(d)[2] = Alter(d, "jobs", JobsAt(ups2, left))
  <2>. DEFINE a == AddIndex(d, "jobs", dated)
  <2>1. a = Alter(d, "jobs",
          Table(R, N, {"id"}, {}, F, I \cup {dated}))
    BY <1>1, AddIndexIs
  <2>2. R =
          Stamps \cup {"remoteci_id", "team_id"}
            \cup When("a7d42b83e41e", ups2, JobStrings)
    BY <1>2, <1>3 DEF dated, R, N, F, I, When, Unless, Stamps, JobStrings
  <2>3. N =
          {"duration", "status", "topic_id", "product_id", "previous_job_id",
                    "update_previous_job_id", "state", "tags", "data"}
                     \cup Unless("a7d42b83e41e", ups2, JobStrings)
                     \cup When("fd04b7d20477", ups2 \cup left, {"pipeline_id"})
    BY <1>2, <1>3 DEF dated, R, N, F, I, When, Unless, Stamps, JobStrings
  <2>4. F =
          jobs.refs \cup When("fd04b7d20477", ups2 \cup left,
                                     {Cascade("pipeline_id", "pipelines")})
    BY <1>2, <1>3 DEF dated, R, N, F, I, When, Unless, Stamps, JobStrings
  <2>5. I \cup {dated} =
          jobs.index \cup When("caa65adffe8e", ups2 \cup left, {{"created_at"}})
    BY <1>2, <1>3 DEF dated, R, N, F, I, When, Unless, Stamps, JobStrings
  <2>. QED  BY <2>1, <2>2, <2>3, <2>4, <2>5 DEF dated, IndexJobsByDate, JobsAt
<1>4. /\ Names(ups2, left) = Names(ups, left)
      /\ \A t \in Names(ups, left) \ {"jobs"} :
           TableAt(t, ups2, left) = TableAt(t, ups, left)
  <2>1. /\ UsersAt(ups2) = UsersAt(ups)
        /\ TeamsAt(ups2) = TeamsAt(ups)
        /\ RemotecisAt(ups2) = RemotecisAt(ups)
        /\ ComponentsAt(ups2, left) = ComponentsAt(ups, left)
        /\ Names(ups2, left) = Names(ups, left)
    BY TablesAgree DEF Agree
  <2>. QED  BY <2>1, Others
<1>5. History(d.types, ups2, left)
  BY DEF Shape, History
<1>6. TableAt("jobs", ups2, left) = JobsAt(ups2, left)
  BY TableAts
<1>. QED  BY <1>2, <1>3, <1>4, <1>5, <1>6, ReachedByAlter

(* 609db7251b15 drops the fingerprint of a remoteci.                        *)
LEMMA UpDropCertFp ==
  ASSUME NEW d, Database(d), NEW ups, NEW left,
         Shape(d.tables, d.types, ups, left),
         "a918b053c43a" \in ups, "609db7251b15" \notin ups
  PROVE  /\ DropCertFp(d)[1] =>
              Reached(d, DropCertFp(d)[2], ups \cup {"609db7251b15"}, left)
         /\ ~DropCertFp(d)[1] => FALSE
<1>. DEFINE ups2 == ups \cup {"609db7251b15"}
            R == Stamps \cup {"team_id"}
            N == {"name", "data", "api_secret", "public", "state"}
                     \cup Unless("609db7251b15", ups, {"cert_fp"})
<1>1. /\ "remotecis" \in DOMAIN d.tables
      /\ d.tables["remotecis"] = RemotecisAt(ups)
      /\ RemotecisAt(ups) = Table(R, N, {"id"},
                                  {Always({"name", "team_id"})},
                                  {Cascade("team_id", "teams")}, {{"team_id"}})
  BY TablesInShape DEF RemotecisAt
<1>. HIDE DEF R, N
<1>2. DropCertFp(d)[1]
  <2>1. Columns(RemotecisAt(ups)) = R \cup N
    BY <1>1 DEF Columns, Table
  <2>2. "cert_fp" \in R \cup N <=> "609db7251b15" \notin ups
    BY DEF R, N, When, Unless, Stamps, JobStrings
  <2>. QED  BY <1>1, <2>1, <2>2 DEF DropCertFp, Lacks
<1>3. ASSUME DropCertFp(d)[1]
      PROVE  DropCertFp(d)[2] = Alter(d, "remotecis", RemotecisAt(ups2))
  <2>. DEFINE a == DropColumn(d, "remotecis", "cert_fp")
  <2>1. a = Alter(d, "remotecis",
          Table(R \ {"cert_fp"}, N \ {"cert_fp"}, {"id"},
                {Always({"name", "team_id"})}, {Cascade("team_id", "teams")},
                {{"team_id"}}))
    BY <1>1, DropColumnIs
  <2>2. R \ {"cert_fp"} =
          Stamps \cup {"team_id"}
    BY <1>2, <1>3 DEF R, N, When, Unless, Stamps
  <2>3. N \ {"cert_fp"} =
          {"name", "data", "api_secret", "public", "state"}
                     \cup Unless("609db7251b15", ups2, {"cert_fp"})
    BY <1>2, <1>3 DEF R, N, When, Unless, Stamps
  <2>. QED  BY <2>1, <2>2, <2>3 DEF DropCertFp, RemotecisAt
<1>4. /\ Names(ups2, left) = Names(ups, left)
      /\ \A t \in Names(ups, left) \ {"remotecis"} :
           TableAt(t, ups2, left) = TableAt(t, ups, left)
  <2>1. /\ UsersAt(ups2) = UsersAt(ups)
        /\ TeamsAt(ups2) = TeamsAt(ups)
        /\ ComponentsAt(ups2, left) = ComponentsAt(ups, left)
        /\ JobsAt(ups2, left) = JobsAt(ups, left)
        /\ Names(ups2, left) = Names(ups, left)
    BY TablesAgree DEF Agree
  <2>. QED  BY <2>1, Others
<1>5. History(d.types, ups2, left)
  BY DEF Shape, History
<1>6. TableAt("remotecis", ups2, left) = RemotecisAt(ups2)
  BY TableAts
<1>. QED  BY <1>2, <1>3, <1>4, <1>5, <1>6, ReachedByAlter

(* 5b771c01636f lets a user have no email.                                  *)
LEMMA UpAllowEmptyEmail ==
  ASSUME NEW d, Database(d), NEW ups, NEW left,
         Shape(d.tables, d.types, ups, left),
         "a918b053c43a" \in ups, "5b771c01636f" \notin ups
  PROVE  /\ AllowEmptyEmail(d)[1] =>
              Reached(d, AllowEmptyEmail(d)[2], ups \cup {"5b771c01636f"}, left)
         /\ ~AllowEmptyEmail(d)[1] => FALSE
<1>. DEFINE ups2 == ups \cup {"5b771c01636f"}
            R == Stamps \cup {"name", "fullname", "timezone"}
                   \cup Unless("5b771c01636f", ups, {"email"})
            N == {"sso_username", "password", "state"}
                     \cup When("5b771c01636f", ups, {"email"})
                     \cup When("83c6c24dc160", ups, {"sso_sub"})
            U == {Always({"email"}), Always({"name"}), Always({"sso_username"})}
                     \cup When("83c6c24dc160", ups, {Always({"sso_sub"})})
<1>1. /\ "users" \in DOMAIN d.tables
      /\ d.tables["users"] = UsersAt(ups)
      /\ UsersAt(ups) = Table(R, N, {"id"}, U, {}, {})
  BY TablesInShape DEF UsersAt
<1>. HIDE DEF R, N, U
<1>2. AllowEmptyEmail(d)[1]
  BY DEF AllowEmptyEmail
<1>3. ASSUME AllowEmptyEmail(d)[1]
      PROVE  AllowEmptyEmail(d)[2] = Alter(d, "users", UsersAt(ups2))
  <2>. DEFINE a == SetNull(d, "users", {"email"})
  <2>1. a = Alter(d, "users",
          Table(R \ {"email"}, N \cup {"email"}, {"id"}, U, {}, {}))
    BY <1>1, SetNullIs
  <2>2. R \ {"email"} =
          Stamps \cup {"name", "fullname", "timezone"}
            \cup Unless("5b771c01636f", ups2, {"email"})
    BY <1>2, <1>3 DEF R, N, U, When, Unless, Stamps, Always
  <2>3. N \cup {"email"} =
          {"sso_username", "password", "state"}
                     \cup When("5b771c01636f", ups2, {"email"})
                     \cup When("83c6c24dc160", ups2, {"sso_sub"})
    BY <1>2, <1>3 DEF R, N, U, When, Unless, Stamps, Always
  <2>4. U =
          {Always({"email"}), Always({"name"}), Always({"sso_username"})}
                     \cup When("83c6c24dc160", ups2, {Always({"sso_sub"})})
    BY <1>2, <1>3 DEF R, N, U, When, Unless, Stamps, Always
  <2>. QED  BY <2>1, <2>2, <2>3, <2>4 DEF AllowEmptyEmail, UsersAt
<1>4. /\ Names(ups2, left) = Names(ups, left)
      /\ \A t \in Names(ups, left) \ {"users"} :
           TableAt(t, ups2, left) = TableAt(t, ups, left)
  <2>1. /\ TeamsAt(ups2) = TeamsAt(ups)
        /\ RemotecisAt(ups2) = RemotecisAt(ups)
        /\ ComponentsAt(ups2, left) = ComponentsAt(ups, left)
        /\ JobsAt(ups2, left) = JobsAt(ups, left)
        /\ Names(ups2, left) = Names(ups, left)
    BY TablesAgree DEF Agree
  <2>. QED  BY <2>1, Others
<1>5. History(d.types, ups2, left)
  BY DEF Shape, History
<1>6. TableAt("users", ups2, left) = UsersAt(ups2)
  BY TableAts
<1>. QED  BY <1>2, <1>3, <1>4, <1>5, <1>6, ReachedByAlter

(* 850229f38182 adds the access to pre-releases.                            *)
LEMMA UpAddPreReleaseAccess ==
  ASSUME NEW d, Database(d), NEW ups, NEW left,
         Shape(d.tables, d.types, ups, left),
         "a918b053c43a" \in ups, "850229f38182" \notin ups
  PROVE  /\ AddPreReleaseAccess(d)[1] =>
              Reached(d, AddPreReleaseAccess(d)[2], ups \cup {"850229f38182"}, left)
         /\ ~AddPreReleaseAccess(d)[1] => FALSE
<1>. DEFINE ups2 == ups \cup {"850229f38182"}
            R == Stamps \cup {"name"}
                   \cup When("850229f38182", ups, {"has_pre_release_access"})
            N == {"country", "state", "external"}
<1>1. /\ "teams" \in DOMAIN d.tables
      /\ d.tables["teams"] = TeamsAt(ups)
      /\ TeamsAt(ups) = Table(R, N, {"id"}, {Always({"name"})}, {}, {})
  BY TablesInShape DEF TeamsAt
<1>. HIDE DEF R, N
<1>2. AddPreReleaseAccess(d)[1]
  <2>1. Columns(TeamsAt(ups)) = R \cup N
    BY <1>1 DEF Columns, Table
  <2>2. "has_pre_release_access" \in R \cup N <=> "850229f38182" \in ups
    BY DEF R, N, When, Unless, Stamps, JobStrings
  <2>. QED  BY <1>1, <2>1, <2>2 DEF AddPreReleaseAccess, Lacks
<1>3. ASSUME AddPreReleaseAccess(d)[1]
      PROVE  AddPreReleaseAccess(d)[2] = Alter(d, "teams", TeamsAt(ups2))
  <2>. DEFINE a == AddRequired(d, "teams", "has_pre_release_access")
  <2>1. a = Alter(d, "teams",
          Table(R \cup {"has_pre_release_access"}, N, {"id"},
                {Always({"name"})}, {}, {}))
    BY <1>1, AddRequiredIs
  <2>2. R \cup {"has_pre_release_access"} =
          Stamps \cup {"name"} \cup When("850229f38182", ups2, {"has_pre_release_access"})
    BY <1>2, <1>3 DEF R, N, When, Unless, Stamps
  <2>3. N =
          {"country", "state", "external"}
    BY <1>2, <1>3 DEF R, N, When, Unless, Stamps
  <2>. QED  BY <2>1, <2>2, <2>3 DEF AddPreReleaseAccess, TeamsAt
<1>4. /\ Names(ups2, left) = Names(ups, left)
      /\ \A t \in Names(ups, left) \ {"teams"} :
           TableAt(t, ups2, left) = TableAt(t, ups, left)
  <2>1. /\ UsersAt(ups2) = UsersAt(ups)
        /\ RemotecisAt(ups2) = RemotecisAt(ups)
        /\ ComponentsAt(ups2, left) = ComponentsAt(ups, left)
        /\ JobsAt(ups2, left) = JobsAt(ups, left)
        /\ Names(ups2, left) = Names(ups, left)
    BY TablesAgree DEF Agree
  <2>. QED  BY <2>1, Others
<1>5. History(d.types, ups2, left)
  BY DEF Shape, History
<1>6. TableAt("teams", ups2, left) = TeamsAt(ups2)
  BY TableAts
<1>. QED  BY <1>2, <1>3, <1>4, <1>5, <1>6, ReachedByAlter

(* a7d42b83e41e requires the strings of a job.                              *)
LEMMA UpRequireJobStrings ==
  ASSUME NEW d, Database(d), NEW ups, NEW left,
         Shape(d.tables, d.types, ups, left),
         "a918b053c43a" \in ups, "a7d42b83e41e" \notin ups
  PROVE  /\ RequireJobStrings(d)[1] =>
              Reached(d, RequireJobStrings(d)[2], ups \cup {"a7d42b83e41e"}, left)
         /\ ~RequireJobStrings(d)[1] => d.rows.nulls # {}
<1>. DEFINE ups2 == ups \cup {"a7d42b83e41e"}
            R == Stamps \cup {"remoteci_id", "team_id"}
                   \cup When("a7d42b83e41e", ups, JobStrings)
            N == {"duration", "status", "topic_id", "product_id", "previous_job_id",
                    "update_previous_job_id", "state", "tags", "data"}
                     \cup Unless("a7d42b83e41e", ups, JobStrings)
                     \cup When("fd04b7d20477", ups \cup left, {"pipeline_id"})
            F == jobs.refs \cup When("fd04b7d20477", ups \cup left,
                                     {Cascade("pipeline_id", "pipelines")})
            I == jobs.index \cup When("caa65adffe8e", ups \cup left, {{"created_at"}})
<1>1. /\ "jobs" \in DOMAIN d.tables
      /\ d.tables["jobs"] = JobsAt(ups, left)
      /\ JobsAt(ups, left) = Table(R, N, {"id"}, {}, F, I)
  BY TablesInShape DEF JobsAt
<1>. HIDE DEF R, N, F, I
<1>2. RequireJobStrings(d)[1] <=> d.rows.nulls = {}
  BY DEF RequireJobStrings
<1>3. ASSUME RequireJobStrings(d)[1]
      PROVE  RequireJobStrings(d)[2] = Alter(d, "jobs", JobsAt(ups2, left))
  <2>. DEFINE a == SetNotNull(d, "jobs", JobStrings)
  <2>1. a = Alter(d, "jobs",
          Table(R \cup JobStrings, N \ JobStrings, {"id"}, {}, F, I))
    BY <1>1, SetNotNullIs
  <2>2. R \cup JobStrings =
          Stamps \cup {"remoteci_id", "team_id"}
            \cup When("a7d42b83e41e", ups2, JobStrings)
    BY <1>2, <1>3 DEF R, N, F, I, When, Unless, Stamps, JobStrings
  <2>3. N \ JobStrings =
          {"duration", "status", "topic_id", "product_id", "previous_job_id",
                    "update_previous_job_id", "state", "tags", "data"}
                     \cup Unless("a7d42b83e41e", ups2, JobStrings)
                     \cup When("fd04b7d20477", ups2 \cup left, {"pipeline_id"})
    BY <1>2, <1>3 DEF R, N, F, I, When, Unless, Stamps, JobStrings
  <2>4. F =
          jobs.refs \cup When("fd04b7d20477", ups2 \cup left,
                                     {Cascade("pipeline_id", "pipelines")})
    BY <1>2, <1>3 DEF R, N, F, I, When, Unless, Stamps, JobStrings
  <2>5. I =
          jobs.index \cup When("caa65adffe8e", ups2 \cup left, {{"created_at"}})
    BY <1>2, <1>3 DEF R, N, F, I, When, Unless, Stamps, JobStrings
  <2>. QED  BY <2>1, <2>2, <2>3, <2>4, <2>5 DEF RequireJobStrings, JobsAt
<1>4. /\ Names(ups2, left) = Names(ups, left)
      /\ \A t \in Names(ups, left) \ {"jobs"} :
           TableAt(t, ups2, left) = TableAt(t, ups, left)
  <2>1. /\ UsersAt(ups2) = UsersAt(ups)
        /\ TeamsAt(ups2) = TeamsAt(ups)
        /\ RemotecisAt(ups2) = RemotecisAt(ups)
        /\ ComponentsAt(ups2, left) = ComponentsAt(ups, left)
        /\ Names(ups2, left) = Names(ups, left)
    BY TablesAgree DEF Agree
  <2>. QED  BY <2>1, Others
<1>5. History(d.types, ups2, left)
  BY DEF Shape, History
<1>6. TableAt("jobs", ups2, left) = JobsAt(ups2, left)
  BY TableAts
<1>. QED  BY <1>2, <1>3, <1>4, <1>5, <1>6, ReachedByAlter

(* 83c6c24dc160 adds the subject of the SSO token.                          *)
LEMMA UpAddSsoSub ==
  ASSUME NEW d, Database(d), NEW ups, NEW left,
         Shape(d.tables, d.types, ups, left),
         "a918b053c43a" \in ups, "83c6c24dc160" \notin ups
  PROVE  /\ AddSsoSub(d)[1] =>
              Reached(d, AddSsoSub(d)[2], ups \cup {"83c6c24dc160"}, left)
         /\ ~AddSsoSub(d)[1] => FALSE
<1>. DEFINE ups2 == ups \cup {"83c6c24dc160"}
            R == Stamps \cup {"name", "fullname", "timezone"}
                   \cup Unless("5b771c01636f", ups, {"email"})
            N == {"sso_username", "password", "state"}
                     \cup When("5b771c01636f", ups, {"email"})
                     \cup When("83c6c24dc160", ups, {"sso_sub"})
            U == {Always({"email"}), Always({"name"}), Always({"sso_username"})}
                     \cup When("83c6c24dc160", ups, {Always({"sso_sub"})})
<1>1. /\ "users" \in DOMAIN d.tables
      /\ d.tables["users"] = UsersAt(ups)
      /\ UsersAt(ups) = Table(R, N, {"id"}, U, {}, {})
  BY TablesInShape DEF UsersAt
<1>. HIDE DEF R, N, U
<1>2. AddSsoSub(d)[1]
  <2>1. Columns(UsersAt(ups)) = R \cup N
    BY <1>1 DEF Columns, Table
  <2>2. "sso_sub" \in R \cup N <=> "83c6c24dc160" \in ups
    BY DEF R, N, U, When, Unless, Stamps, JobStrings
  <2>. QED  BY <1>1, <2>1, <2>2 DEF AddSsoSub, Lacks
<1>3. ASSUME AddSsoSub(d)[1]
      PROVE  AddSsoSub(d)[2] = Alter(d, "users", UsersAt(ups2))
  <2>. DEFINE a == AddNullable(d, "users", "sso_sub")
  <2>1. a = Alter(d, "users",
          Table(R, N \cup {"sso_sub"}, {"id"}, U, {}, {}))
    BY <1>1, AddNullableIs
  <2>. DEFINE b == AddUnique(a, "users", {Always({"sso_sub"})})
  <2>2. b = Alter(d, "users",
          Table(R, N \cup {"sso_sub"}, {"id"}, U \cup {Always({"sso_sub"})}, {}, {}))
    BY <1>1, <2>1, AlterTwice, AddUniqueIs
  <2>3. R =
          Stamps \cup {"name", "fullname", "timezone"}
            \cup Unless("5b771c01636f", ups2, {"email"})
    BY <1>2, <1>3 DEF R, N, U, When, Unless, Stamps, Always
  <2>4. N \cup {"sso_sub"} =
          {"sso_username", "password", "state"}
                     \cup When("5b771c01636f", ups2, {"email"})
                     \cup When("83c6c24dc160", ups2, {"sso_sub"})
    BY <1>2, <1>3 DEF R, N, U, When, Unless, Stamps, Always
  <2>5. U \cup {Always({"sso_sub"})} =
          {Always({"email"}), Always({"name"}), Always({"sso_username"})}
                     \cup When("83c6c24dc160", ups2, {Always({"sso_sub"})})
    BY <1>2, <1>3 DEF R, N, U, When, Unless, Stamps, Always
  <2>. QED  BY <2>2, <2>3, <2>4, <2>5 DEF AddSsoSub, UsersAt
<1>4. /\ Names(ups2, left) = Names(ups, left)
      /\ \A t \in Names(ups, left) \ {"users"} :
           TableAt(t, ups2, left) = TableAt(t, ups, left)
  <2>1. /\ TeamsAt(ups2) = TeamsAt(ups)
        /\ RemotecisAt(ups2) = RemotecisAt(ups)
        /\ ComponentsAt(ups2, left) = ComponentsAt(ups, left)
        /\ JobsAt(ups2, left) = JobsAt(ups, left)
        /\ Names(ups2, left) = Names(ups, left)
    BY TablesAgree DEF Agree
  <2>. QED  BY <2>1, Others
<1>5. History(d.types, ups2, left)
  BY DEF Shape, History
<1>6. TableAt("users", ups2, left) = UsersAt(ups2)
  BY TableAts
<1>. QED  BY <1>2, <1>3, <1>4, <1>5, <1>6, ReachedByAlter

(* 46dff7ed04c2 makes the new keys unique.                                  *)
LEMMA UpUniqued ==
  ASSUME NEW d, Database(d), NEW ups, NEW left,
         Shape(d.tables, d.types, ups, left),
         "66680dcf2c88" \in ups, "a918b053c43a" \in ups, "46dff7ed04c2" \notin ups
  PROVE  /\ Uniqued(d)[1] => Reached(d, Uniqued(d)[2], ups \cup {"46dff7ed04c2"}, left)
<1>. DEFINE ups2 == ups \cup {"46dff7ed04c2"}
            R == Stamps \cup {"released_at", "name", "type"}
                     \cup When("66680dcf2c88", ups, {"display_name", "version"})
                     \cup When("66680dcf2c88", ups \cup left, {"uid"})
            N == {"canonical_project_name", "data", "title", "message", "url", "topic_id",
                    "team_id", "state", "tags"}
            U == UniqueAt(ups, left)
<1>1. /\ "components" \in DOMAIN d.tables
      /\ d.tables["components"] = ComponentsAt(ups, left)
      /\ ComponentsAt(ups, left) = Table(R, N, {"id"},
                                         U, {Cascade("team_id", "teams"),
                                         Cascade("topic_id", "topics")}, {{"topic_id"}})
  BY TablesInShape DEF ComponentsAt
<1>. HIDE DEF R, N, U
<1>3. ASSUME Uniqued(d)[1]
      PROVE  Uniqued(d)[2] = Alter(d, "components", ComponentsAt(ups2, left))
  <2>. DEFINE a == AddUnique(d, "components", NewUnique)
  <2>1. a = Alter(d, "components",
          Table(R, N, {"id"},
                U \cup NewUnique,
                {Cascade("team_id", "teams"), Cascade("topic_id", "topics")},
                {{"topic_id"}}))
    BY <1>1, AddUniqueIs
  <2>2. R =
          Stamps \cup {"released_at", "name", "type"}
                     \cup When("66680dcf2c88", ups2, {"display_name", "version"})
                     \cup When("66680dcf2c88", ups2 \cup left, {"uid"})
    BY DEF R, N, U, When, Unless, Stamps, UniqueAt, Shape
  <2>3. N =
          {"canonical_project_name", "data", "title", "message", "url", "topic_id",
                    "team_id", "state", "tags"}
    BY DEF R, N, U, When, Unless, Stamps, UniqueAt, Shape
  <2>4. U \cup NewUnique =
          UniqueAt(ups2, left)
    BY DEF R, N, U, When, Unless, Stamps, UniqueAt, Shape
  <2>. QED  BY <2>1, <2>2, <2>3, <2>4 DEF Uniqued, ComponentsAt
<1>4. /\ Names(ups2, left) = Names(ups, left)
      /\ \A t \in Names(ups, left) \ {"components"} :
           TableAt(t, ups2, left) = TableAt(t, ups, left)
  <2>1. /\ UsersAt(ups2) = UsersAt(ups)
        /\ TeamsAt(ups2) = TeamsAt(ups)
        /\ RemotecisAt(ups2) = RemotecisAt(ups)
        /\ JobsAt(ups2, left) = JobsAt(ups, left)
        /\ Names(ups2, left) = Names(ups, left)
    BY TablesAgree DEF Agree
  <2>. QED  BY <2>1, Others
<1>5. History(d.types, ups2, left)
  BY DEF Shape, History
<1>6. TableAt("components", ups2, left) = ComponentsAt(ups2, left)
  BY TableAts
<1>. QED  BY <1>3, <1>4, <1>5, <1>6, ReachedByAlter

(* The downgrade of 66680dcf2c88 drops the display name and the version.    *)
LEMMA DownUnnamed ==
  ASSUME NEW d, Database(d), NEW ups, NEW left,
         Shape(d.tables, d.types, ups, left),
         "a918b053c43a" \in ups, "66680dcf2c88" \in ups
  PROVE  Unnamed(d)[1] =>
           Reached(d, Unnamed(d)[2], ups \ {"66680dcf2c88"}, left \cup {"66680dcf2c88"})
<1>. DEFINE ups2 == ups \ {"66680dcf2c88"}
            left2 == left \cup {"66680dcf2c88"}
            R == Stamps \cup {"released_at", "name", "type"}
                     \cup When("66680dcf2c88", ups, {"display_name", "version"})
                     \cup When("66680dcf2c88", ups \cup left, {"uid"})
            N == {"canonical_project_name", "data", "title", "message", "url", "topic_id",
                    "team_id", "state", "tags"}
            U == UniqueAt(ups, left)
<1>1. /\ "components" \in DOMAIN d.tables
      /\ d.tables["components"] = ComponentsAt(ups, left)
      /\ ComponentsAt(ups, left) = Table(R, N, {"id"},
                                         U, {Cascade("team_id", "teams"),
                                         Cascade("topic_id", "topics")}, {{"topic_id"}})
  BY TablesInShape DEF ComponentsAt
<1>. HIDE DEF R, N, U
<1>3. ASSUME Unnamed(d)[1]
      PROVE  Unnamed(d)[2] = Alter(d, "components", ComponentsAt(ups2, left2))
  <2>. DEFINE a == DropColumn(d, "components", "version")
  <2>1. a = Alter(d, "components",
          Table(R \ {"version"}, N \ {"version"}, {"id"},
                U, {Cascade("team_id", "teams"), Cascade("topic_id", "topics")},
                {{"topic_id"}}))
    BY <1>1, DropColumnIs
  <2>. DEFINE b == DropColumn(a, "components", "display_name")
  <2>2. b = Alter(d, "components",
          Table((R \ {"version"}) \ {"display_name"},
                (N \ {"version"}) \ {"display_name"}, {"id"},
                U, {Cascade("team_id", "teams"), Cascade("topic_id", "topics")},
                {{"topic_id"}}))
    BY <1>1, <2>1, AlterTwice, DropColumnIs
  <2>. DEFINE c == DropUnique(b, "components", NewUnique)
  <2>3. c = Alter(d, "components",
          Table((R \ {"version"}) \ {"display_name"},
                (N \ {"version"}) \ {"display_name"}, {"id"},
                U \ NewUnique,
                {Cascade("team_id", "teams"), Cascade("topic_id", "topics")},
                {{"topic_id"}}))
    BY <1>1, <2>2, AlterTwice, DropUniqueIs
  <2>. DEFINE e == AddUnique(c, "components", OldUnique)
  <2>4. e = Alter(d, "components",
          Table((R \ {"version"}) \ {"display_name"},
                (N \ {"version"}) \ {"display_name"}, {"id"},
                (U \ NewUnique) \cup OldUnique,
                {Cascade("team_id", "teams"), Cascade("topic_id", "topics")},
                {{"topic_id"}}))
    BY <1>1, <2>3, AlterTwice, AddUniqueIs
  <2>5. (R \ {"version"}) \ {"display_name"} =
          Stamps \cup {"released_at", "name", "type"}
                     \cup When("66680dcf2c88", ups2, {"display_name", "version"})
                     \cup When("66680dcf2c88", ups2 \cup left2, {"uid"})
    BY DEF R, N, U, When, Unless, Stamps, UniqueAt, Shape
  <2>6. (N \ {"version"}) \ {"display_name"} =
          {"canonical_project_name", "data", "title", "message", "url", "topic_id",
                    "team_id", "state", "tags"}
    BY DEF R, N, U, When, Unless, Stamps, UniqueAt, Shape
  <2>7. (U \ NewUnique) \cup OldUnique =
          UniqueAt(ups2, left2)
    BY DEF R, N, U, When, Unless, Stamps, UniqueAt, Shape
  <2>. QED  BY <2>4, <2>5, <2>6, <2>7 DEF Unnamed, ComponentsAt
<1>4. /\ Names(ups2, left2) = Names(ups, left)
      /\ \A t \in Names(ups, left) \ {"components"} :
           TableAt(t, ups2, left2) = TableAt(t, ups, left)
  <2>1. /\ UsersAt(ups2) = UsersAt(ups)
        /\ TeamsAt(ups2) = TeamsAt(ups)
        /\ RemotecisAt(ups2) = RemotecisAt(ups)
        /\ JobsAt(ups2, left2) = JobsAt(ups, left)
        /\ Names(ups2, left2) = Names(ups, left)
    BY TablesAgree DEF Agree
  <2>. QED  BY <2>1, Others
<1>5. History(d.types, ups2, left2)
  BY DEF Shape, History
<1>6. TableAt("components", ups2, left2) = ComponentsAt(ups2, left2)
  BY TableAts
<1>. QED  BY <1>3, <1>4, <1>5, <1>6, ReachedByAlter

(* The downgrade of 609db7251b15.                                           *)
LEMMA DownAddCertFp ==
  ASSUME NEW d, Database(d), NEW ups, NEW left,
         Shape(d.tables, d.types, ups, left),
         "a918b053c43a" \in ups, "609db7251b15" \in ups
  PROVE  AddCertFp(d)[1] =>
           Reached(d, AddCertFp(d)[2], ups \ {"609db7251b15"}, left \cup {"609db7251b15"})
<1>. DEFINE ups2 == ups \ {"609db7251b15"}
            left2 == left \cup {"609db7251b15"}
            R == Stamps \cup {"team_id"}
            N == {"name", "data", "api_secret", "public", "state"}
                     \cup Unless("609db7251b15", ups, {"cert_fp"})
<1>1. /\ "remotecis" \in DOMAIN d.tables
      /\ d.tables["remotecis"] = RemotecisAt(ups)
      /\ RemotecisAt(ups) = Table(R, N, {"id"},
                                  {Always({"name", "team_id"})},
                                  {Cascade("team_id", "teams")}, {{"team_id"}})
  BY TablesInShape DEF RemotecisAt
<1>. HIDE DEF R, N
<1>3. ASSUME AddCertFp(d)[1]
      PROVE  AddCertFp(d)[2] = Alter(d, "remotecis", RemotecisAt(ups2))
  <2>. DEFINE a == AddNullable(d, "remotecis", "cert_fp")
  <2>1. a = Alter(d, "remotecis",
          Table(R, N \cup {"cert_fp"}, {"id"},
                {Always({"name", "team_id"})}, {Cascade("team_id", "teams")},
                {{"team_id"}}))
    BY <1>1, AddNullableIs
  <2>2. R =
          Stamps \cup {"team_id"}
    BY DEF R, N, When, Unless, Stamps
  <2>3. N \cup {"cert_fp"} =
          {"name", "data", "api_secret", "public", "state"}
                     \cup Unless("609db7251b15", ups2, {"cert_fp"})
    BY DEF R, N, When, Unless, Stamps
  <2>. QED  BY <2>1, <2>2, <2>3 DEF AddCertFp, RemotecisAt
<1>4. /\ Names(ups2, left2) = Names(ups, left)
      /\ \A t \in Names(ups, left) \ {"remotecis"} :
           TableAt(t, ups2, left2) = TableAt(t, ups, left)
  <2>1. /\ UsersAt(ups2) = UsersAt(ups)
        /\ TeamsAt(ups2) = TeamsAt(ups)
        /\ ComponentsAt(ups2, left2) = ComponentsAt(ups, left)
        /\ JobsAt(ups2, left2) = JobsAt(ups, left)
        /\ Names(ups2, left2) = Names(ups, left)
    BY TablesAgree DEF Agree
  <2>. QED  BY <2>1, Others
<1>5. History(d.types, ups2, left2)
  BY DEF Shape, History
<1>6. TableAt("remotecis", ups2, left2) = RemotecisAt(ups2)
  BY TableAts
<1>. QED  BY <1>3, <1>4, <1>5, <1>6, ReachedByAlter

(* The downgrade of 5b771c01636f.                                           *)
LEMMA DownRequireEmail ==
  ASSUME NEW d, Database(d), NEW ups, NEW left,
         Shape(d.tables, d.types, ups, left),
         "a918b053c43a" \in ups, "5b771c01636f" \in ups
  PROVE  RequireEmail(d)[1] =>
           Reached(d, RequireEmail(d)[2], ups \ {"5b771c01636f"}, left
                   \cup {"5b771c01636f"})
<1>. DEFINE ups2 == ups \ {"5b771c01636f"}
            left2 == left \cup {"5b771c01636f"}
            R == Stamps \cup {"name", "fullname", "timezone"}
                   \cup Unless("5b771c01636f", ups, {"email"})
            N == {"sso_username", "password", "state"}
                     \cup When("5b771c01636f", ups, {"email"})
                     \cup When("83c6c24dc160", ups, {"sso_sub"})
            U == {Always({"email"}), Always({"name"}), Always({"sso_username"})}
                     \cup When("83c6c24dc160", ups, {Always({"sso_sub"})})
<1>1. /\ "users" \in DOMAIN d.tables
      /\ d.tables["users"] = UsersAt(ups)
      /\ UsersAt(ups) = Table(R, N, {"id"}, U, {}, {})
  BY TablesInShape DEF UsersAt
<1>. HIDE DEF R, N, U
<1>3. ASSUME RequireEmail(d)[1]
      PROVE  RequireEmail(d)[2] = Alter(d, "users", UsersAt(ups2))
  <2>. DEFINE a == SetNotNull(d, "users", {"email"})
  <2>1. a = Alter(d, "users",
          Table(R \cup {"email"}, N \ {"email"}, {"id"}, U, {}, {}))
    BY <1>1, SetNotNullIs
  <2>2. R \cup {"email"} =
          Stamps \cup {"name", "fullname", "timezone"}
            \cup Unless("5b771c01636f", ups2, {"email"})
    BY DEF R, N, U, When, Unless, Stamps, Always
  <2>3. N \ {"email"} =
          {"sso_username", "password", "state"}
                     \cup When("5b771c01636f", ups2, {"email"})
                     \cup When("83c6c24dc160", ups2, {"sso_sub"})
    BY DEF R, N, U, When, Unless, Stamps, Always
  <2>4. U =
          {Always({"email"}), Always({"name"}), Always({"sso_username"})}
                     \cup When("83c6c24dc160", ups2, {Always({"sso_sub"})})
    BY DEF R, N, U, When, Unless, Stamps, Always
  <2>. QED  BY <2>1, <2>2, <2>3, <2>4 DEF RequireEmail, UsersAt
<1>4. /\ Names(ups2, left2) = Names(ups, left)
      /\ \A t \in Names(ups, left) \ {"users"} :
           TableAt(t, ups2, left2) = TableAt(t, ups, left)
  <2>1. /\ TeamsAt(ups2) = TeamsAt(ups)
        /\ RemotecisAt(ups2) = RemotecisAt(ups)
        /\ ComponentsAt(ups2, left2) = ComponentsAt(ups, left)
        /\ JobsAt(ups2, left2) = JobsAt(ups, left)
        /\ Names(ups2, left2) = Names(ups, left)
    BY TablesAgree DEF Agree
  <2>. QED  BY <2>1, Others
<1>5. History(d.types, ups2, left2)
  BY DEF Shape, History
<1>6. TableAt("users", ups2, left2) = UsersAt(ups2)
  BY TableAts
<1>. QED  BY <1>3, <1>4, <1>5, <1>6, ReachedByAlter

(* The downgrade of 850229f38182.                                           *)
LEMMA DownDropPreReleaseAccess ==
  ASSUME NEW d, Database(d), NEW ups, NEW left,
         Shape(d.tables, d.types, ups, left),
         "a918b053c43a" \in ups, "850229f38182" \in ups
  PROVE  DropPreReleaseAccess(d)[1] =>
           Reached(d, DropPreReleaseAccess(d)[2], ups \ {"850229f38182"}, left
                   \cup {"850229f38182"})
<1>. DEFINE ups2 == ups \ {"850229f38182"}
            left2 == left \cup {"850229f38182"}
            R == Stamps \cup {"name"}
                   \cup When("850229f38182", ups, {"has_pre_release_access"})
            N == {"country", "state", "external"}
<1>1. /\ "teams" \in DOMAIN d.tables
      /\ d.tables["teams"] = TeamsAt(ups)
      /\ TeamsAt(ups) = Table(R, N, {"id"}, {Always({"name"})}, {}, {})
  BY TablesInShape DEF TeamsAt
<1>. HIDE DEF R, N
<1>3. ASSUME DropPreReleaseAccess(d)[1]
      PROVE  DropPreReleaseAccess(d)[2] = Alter(d, "teams", TeamsAt(ups2))
  <2>. DEFINE a == DropColumn(d, "teams", "has_pre_release_access")
  <2>1. a = Alter(d, "teams",
          Table(R \ {"has_pre_release_access"}, N \ {"has_pre_release_access"}, {"id"},
                {Always({"name"})}, {}, {}))
    BY <1>1, DropColumnIs
  <2>2. R \ {"has_pre_release_access"} =
          Stamps \cup {"name"} \cup When("850229f38182", ups2, {"has_pre_release_access"})
    BY DEF R, N, When, Unless, Stamps
  <2>3. N \ {"has_pre_release_access"} =
          {"country", "state", "external"}
    BY DEF R, N, When, Unless, Stamps
  <2>. QED  BY <2>1, <2>2, <2>3 DEF DropPreReleaseAccess, TeamsAt
<1>4. /\ Names(ups2, left2) = Names(ups, left)
      /\ \A t \in Names(ups, left) \ {"teams"} :
           TableAt(t, ups2, left2) = TableAt(t, ups, left)
  <2>1. /\ UsersAt(ups2) = UsersAt(ups)
        /\ RemotecisAt(ups2) = RemotecisAt(ups)
        /\ ComponentsAt(ups2, left2) = ComponentsAt(ups, left)
        /\ JobsAt(ups2, left2) = JobsAt(ups, left)
        /\ Names(ups2, left2) = Names(ups, left)
    BY TablesAgree DEF Agree
  <2>. QED  BY <2>1, Others
<1>5. History(d.types, ups2, left2)
  BY DEF Shape, History
<1>6. TableAt("teams", ups2, left2) = TeamsAt(ups2)
  BY TableAts
<1>. QED  BY <1>3, <1>4, <1>5, <1>6, ReachedByAlter

(* The downgrade of a7d42b83e41e.                                           *)
LEMMA DownNullJobStrings ==
  ASSUME NEW d, Database(d), NEW ups, NEW left,
         Shape(d.tables, d.types, ups, left),
         "a918b053c43a" \in ups, "a7d42b83e41e" \in ups
  PROVE  NullJobStrings(d)[1] =>
           Reached(d, NullJobStrings(d)[2], ups \ {"a7d42b83e41e"}, left
                   \cup {"a7d42b83e41e"})
<1>. DEFINE ups2 == ups \ {"a7d42b83e41e"}
            left2 == left \cup {"a7d42b83e41e"}
            R == Stamps \cup {"remoteci_id", "team_id"}
                   \cup When("a7d42b83e41e", ups, JobStrings)
            N == {"duration", "status", "topic_id", "product_id", "previous_job_id",
                    "update_previous_job_id", "state", "tags", "data"}
                     \cup Unless("a7d42b83e41e", ups, JobStrings)
                     \cup When("fd04b7d20477", ups \cup left, {"pipeline_id"})
            F == jobs.refs \cup When("fd04b7d20477", ups \cup left,
                                     {Cascade("pipeline_id", "pipelines")})
            I == jobs.index \cup When("caa65adffe8e", ups \cup left, {{"created_at"}})
<1>1. /\ "jobs" \in DOMAIN d.tables
      /\ d.tables["jobs"] = JobsAt(ups, left)
      /\ JobsAt(ups, left) = Table(R, N, {"id"}, {}, F, I)
  BY TablesInShape DEF JobsAt
<1>. HIDE DEF R, N, F, I
<1>3. ASSUME NullJobStrings(d)[1]
      PROVE  NullJobStrings(d)[2] = Alter(d, "jobs", JobsAt(ups2, left2))
  <2>. DEFINE a == SetNull(d, "jobs", JobStrings)
  <2>1. a = Alter(d, "jobs",
          Table(R \ JobStrings, N \cup JobStrings, {"id"}, {}, F, I))
    BY <1>1, SetNullIs
  <2>2. R \ JobStrings =
          Stamps \cup {"remoteci_id", "team_id"}
            \cup When("a7d42b83e41e", ups2, JobStrings)
    BY DEF R, N, F, I, When, Unless, Stamps, JobStrings
  <2>3. N \cup JobStrings =
          {"duration", "status", "topic_id", "product_id", "previous_job_id",
                    "update_previous_job_id", "state", "tags", "data"}
                     \cup Unless("a7d42b83e41e", ups2, JobStrings)
                     \cup When("fd04b7d20477", ups2 \cup left2, {"pipeline_id"})
    BY DEF R, N, F, I, When, Unless, Stamps, JobStrings
  <2>4. F =
          jobs.refs \cup When("fd04b7d20477", ups2 \cup left2,
                                     {Cascade("pipeline_id", "pipelines")})
    BY DEF R, N, F, I, When, Unless, Stamps, JobStrings
  <2>5. I =
          jobs.index \cup When("caa65adffe8e", ups2 \cup left2, {{"created_at"}})
    BY DEF R, N, F, I, When, Unless, Stamps, JobStrings
  <2>. QED  BY <2>1, <2>2, <2>3, <2>4, <2>5 DEF NullJobStrings, JobsAt
<1>4. /\ Names(ups2, left2) = Names(ups, left)
      /\ \A t \in Names(ups, left) \ {"jobs"} :
           TableAt(t, ups2, left2) = TableAt(t, ups, left)
  <2>1. /\ UsersAt(ups2) = UsersAt(ups)
        /\ TeamsAt(ups2) = TeamsAt(ups)
        /\ RemotecisAt(ups2) = RemotecisAt(ups)
        /\ ComponentsAt(ups2, left2) = ComponentsAt(ups, left)
        /\ Names(ups2, left2) = Names(ups, left)
    BY TablesAgree DEF Agree
  <2>. QED  BY <2>1, Others
<1>5. History(d.types, ups2, left2)
  BY DEF Shape, History
<1>6. TableAt("jobs", ups2, left2) = JobsAt(ups2, left2)
  BY TableAts
<1>. QED  BY <1>3, <1>4, <1>5, <1>6, ReachedByAlter

(* The downgrade of 83c6c24dc160.                                           *)
LEMMA DownDropSsoSub ==
  ASSUME NEW d, Database(d), NEW ups, NEW left,
         Shape(d.tables, d.types, ups, left),
         "a918b053c43a" \in ups, "83c6c24dc160" \in ups
  PROVE  DropSsoSub(d)[1] =>
           Reached(d, DropSsoSub(d)[2], ups \ {"83c6c24dc160"}, left
                   \cup {"83c6c24dc160"})
<1>. DEFINE ups2 == ups \ {"83c6c24dc160"}
            left2 == left \cup {"83c6c24dc160"}
            R == Stamps \cup {"name", "fullname", "timezone"}
                   \cup Unless("5b771c01636f", ups, {"email"})
            N == {"sso_username", "password", "state"}
                     \cup When("5b771c01636f", ups, {"email"})
                     \cup When("83c6c24dc160", ups, {"sso_sub"})
            U == {Always({"email"}), Always({"name"}), Always({"sso_username"})}
                     \cup When("83c6c24dc160", ups, {Always({"sso_sub"})})
<1>1. /\ "users" \in DOMAIN d.tables
      /\ d.tables["users"] = UsersAt(ups)
      /\ UsersAt(ups) = Table(R, N, {"id"}, U, {}, {})
  BY TablesInShape DEF UsersAt
<1>. HIDE DEF R, N, U
<1>3. ASSUME DropSsoSub(d)[1]
      PROVE  DropSsoSub(d)[2] = Alter(d, "users", UsersAt(ups2))
  <2>. DEFINE a == DropUnique(d, "users", {Always({"sso_sub"})})
  <2>1. a = Alter(d, "users",
          Table(R, N, {"id"}, U \ {Always({"sso_sub"})}, {}, {}))
    BY <1>1, DropUniqueIs
  <2>. DEFINE b == DropColumn(a, "users", "sso_sub")
  <2>2. b = Alter(d, "users",
          Table(R \ {"sso_sub"}, N \ {"sso_sub"}, {"id"},
                U \ {Always({"sso_sub"})}, {}, {}))
    BY <1>1, <2>1, AlterTwice, DropColumnIs
  <2>3. R \ {"sso_sub"} =
          Stamps \cup {"name", "fullname", "timezone"}
            \cup Unless("5b771c01636f", ups2, {"email"})
    BY DEF R, N, U, When, Unless, Stamps, Always
  <2>4. N \ {"sso_sub"} =
          {"sso_username", "password", "state"}
                     \cup When("5b771c01636f", ups2, {"email"})
                     \cup When("83c6c24dc160", ups2, {"sso_sub"})
    BY DEF R, N, U, When, Unless, Stamps, Always
  <2>5. U \ {Always({"sso_sub"})} =
          {Always({"email"}), Always({"name"}), Always({"sso_username"})}
                     \cup When("83c6c24dc160", ups2, {Always({"sso_sub"})})
    BY DEF R, N, U, When, Unless, Stamps, Always
  <2>. QED  BY <2>2, <2>3, <2>4, <2>5 DEF DropSsoSub, UsersAt
<1>4. /\ Names(ups2, left2) = Names(ups, left)
      /\ \A t \in Names(ups, left) \ {"users"} :
           TableAt(t, ups2, left2) = TableAt(t, ups, left)
  <2>1. /\ TeamsAt(ups2) = TeamsAt(ups)
        /\ RemotecisAt(ups2) = RemotecisAt(ups)
        /\ ComponentsAt(ups2, left2) = ComponentsAt(ups, left)
        /\ JobsAt(ups2, left2) = JobsAt(ups, left)
        /\ Names(ups2, left2) = Names(ups, left)
    BY TablesAgree DEF Agree
  <2>. QED  BY <2>1, Others
<1>5. History(d.types, ups2, left2)
  BY DEF Shape, History
<1>6. TableAt("users", ups2, left2) = UsersAt(ups2)
  BY TableAts
<1>. QED  BY <1>3, <1>4, <1>5, <1>6, ReachedByAlter

(* ab48aca06ac4 creates the pipelines.                                      *)
LEMMA UpAddPipelines ==
  ASSUME NEW d, Database(d), NEW ups, NEW left,
         Shape(d.tables, d.types, ups, left),
         "a918b053c43a" \in ups, "ab48aca06ac4" \notin ups
  PROVE  /\ AddPipelines(d)[1] =>
              Reached(d, AddPipelines(d)[2], ups \cup {"ab48aca06ac4"}, left)
         /\ ~AddPipelines(d)[1] => "ab48aca06ac4" \in left
<1>. DEFINE ups2 == ups \cup {"ab48aca06ac4"}
<1>1. DOMAIN d.tables = Names(ups, left)
  BY DEF Shape
<1>2. "pipelines" \in Names(ups, left) <=> "ab48aca06ac4" \in left
  BY DEF Names, When, Unless, Steady
<1>3. AddPipelines(d)[1] <=> "ab48aca06ac4" \notin left
  BY <1>1, <1>2 DEF AddPipelines
<1>4. AddPipelines(d)[2] = CreateTable(d, "pipelines", Pipeline)
  BY DEF AddPipelines, KeyValues, Pipeline, JoinTeamsComponentsAccess
<1>5. Names(ups2, left) = Names(ups, left) \cup {"pipelines"}
  BY DEF Names, When, Unless
<1>6. /\ UsersAt(ups2) = UsersAt(ups) /\ TeamsAt(ups2) = TeamsAt(ups)
      /\ RemotecisAt(ups2) = RemotecisAt(ups)
      /\ ComponentsAt(ups2, left) = ComponentsAt(ups, left)
      /\ JobsAt(ups2, left) = JobsAt(ups, left)
  BY TablesAgree DEF Agree
<1>7. \A t \in Names(ups, left) : TableAt(t, ups2, left) = TableAt(t, ups, left)
  BY <1>6, Others
<1>8. History(d.types, ups2, left)
  BY DEF Shape, History
<1>9. TableAt("pipelines", ups2, left) = Pipeline
  BY TableAts
<1>. QED  BY <1>2, <1>3, <1>4, <1>5, <1>7, <1>8, <1>9, ReachedByCreate

(* 1c16157d0b73 creates the keys and values of jobs.                        *)
LEMMA UpAddJobKeyValue ==
  ASSUME NEW d, Database(d), NEW ups, NEW left,
         Shape(d.tables, d.types, ups, left),
         "a918b053c43a" \in ups, "1c16157d0b73" \notin ups
  PROVE  /\ AddJobKeyValue(d)[1] =>
              Reached(d, AddJobKeyValue(d)[2], ups \cup {"1c16157d0b73"}, left)
         /\ ~AddJobKeyValue(d)[1] => "1c16157d0b73" \in left
<1>. DEFINE ups2 == ups \cup {"1c16157d0b73"}
<1>1. DOMAIN d.tables = Names(ups, left)
  BY DEF Shape
<1>2. "jobs_keys_values" \in Names(ups, left) <=> "1c16157d0b73" \in left
  BY DEF Names, When, Unless, Steady
<1>3. AddJobKeyValue(d)[1] <=> "1c16157d0b73" \notin left
  BY <1>1, <1>2 DEF AddJobKeyValue
<1>4. AddJobKeyValue(d)[2] = CreateTable(d, "jobs_keys_values", KeyValues)
  BY DEF AddJobKeyValue, KeyValues, Pipeline, JoinTeamsComponentsAccess
<1>5. Names(ups2, left) = Names(ups, left) \cup {"jobs_keys_values"}
  BY DEF Names, When, Unless
<1>6. /\ UsersAt(ups2) = UsersAt(ups) /\ TeamsAt(ups2) = TeamsAt(ups)
      /\ RemotecisAt(ups2) = RemotecisAt(ups)
      /\ ComponentsAt(ups2, left) = ComponentsAt(ups, left)
      /\ JobsAt(ups2, left) = JobsAt(ups, left)
  BY TablesAgree DEF Agree
<1>7. \A t \in Names(ups, left) : TableAt(t, ups2, left) = TableAt(t, ups, left)
  BY <1>6, Others
<1>8. History(d.types, ups2, left)
  BY DEF Shape, History
<1>9. TableAt("jobs_keys_values", ups2, left) = KeyValues
  BY TableAts
<1>. QED  BY <1>2, <1>3, <1>4, <1>5, <1>7, <1>8, <1>9, ReachedByCreate

(* e0f709d4ea8f creates the access of a team to the components of another.  *)
LEMMA UpAddComponentsAccess ==
  ASSUME NEW d, Database(d), NEW ups, NEW left,
         Shape(d.tables, d.types, ups, left),
         "a918b053c43a" \in ups, "e0f709d4ea8f" \notin ups
  PROVE  /\ AddComponentsAccess(d)[1] =>
              Reached(d, AddComponentsAccess(d)[2], ups \cup {"e0f709d4ea8f"}, left)
         /\ ~AddComponentsAccess(d)[1] => "e0f709d4ea8f" \in left
<1>. DEFINE ups2 == ups \cup {"e0f709d4ea8f"}
<1>1. DOMAIN d.tables = Names(ups, left)
  BY DEF Shape
<1>2. "teams_components_access" \in Names(ups, left) <=> "e0f709d4ea8f" \in left
  BY DEF Names, When, Unless, Steady
<1>3. AddComponentsAccess(d)[1] <=> "e0f709d4ea8f" \notin left
  BY <1>1, <1>2 DEF AddComponentsAccess
<1>4. AddComponentsAccess(d)[2] =
        CreateTable(d, "teams_components_access", JoinTeamsComponentsAccess)
  BY DEF AddComponentsAccess, KeyValues, Pipeline, JoinTeamsComponentsAccess
<1>5. Names(ups2, left) = Names(ups, left) \cup {"teams_components_access"}
  BY DEF Names, When, Unless
<1>6. /\ UsersAt(ups2) = UsersAt(ups) /\ TeamsAt(ups2) = TeamsAt(ups)
      /\ RemotecisAt(ups2) = RemotecisAt(ups)
      /\ ComponentsAt(ups2, left) = ComponentsAt(ups, left)
      /\ JobsAt(ups2, left) = JobsAt(ups, left)
  BY TablesAgree DEF Agree
<1>7. \A t \in Names(ups, left) : TableAt(t, ups2, left) = TableAt(t, ups, left)
  BY <1>6, Others
<1>8. History(d.types, ups2, left)
  BY DEF Shape, History
<1>9. TableAt("teams_components_access", ups2, left) = JoinTeamsComponentsAccess
  BY TableAts
<1>. QED  BY <1>2, <1>3, <1>4, <1>5, <1>7, <1>8, <1>9, ReachedByCreate

(* 4ff34474b4fd drops the teams of a topic.                                 *)
LEMMA UpDropTopicsTeams ==
  ASSUME NEW d, Database(d), NEW ups, NEW left,
         Shape(d.tables, d.types, ups, left),
         "a918b053c43a" \in ups, "4ff34474b4fd" \notin ups
  PROVE  /\ DropTopicsTeams(d)[1]
         /\ Reached(d, DropTopicsTeams(d)[2], ups \cup {"4ff34474b4fd"}, left)
<1>. DEFINE ups2 == ups \cup {"4ff34474b4fd"}
<1>1. DOMAIN d.tables = Names(ups, left)
  BY DEF Shape
<1>2. "topics_teams" \in Names(ups, left)
  BY DEF Names, When, Unless
<1>3. Names(ups2, left) = Names(ups, left) \ {"topics_teams"}
  BY DEF Names, When, Unless, Steady
<1>4. /\ UsersAt(ups2) = UsersAt(ups) /\ TeamsAt(ups2) = TeamsAt(ups)
      /\ RemotecisAt(ups2) = RemotecisAt(ups)
      /\ ComponentsAt(ups2, left) = ComponentsAt(ups, left)
      /\ JobsAt(ups2, left) = JobsAt(ups, left)
  BY TablesAgree DEF Agree
<1>5. \A t \in Names(ups, left) : TableAt(t, ups2, left) = TableAt(t, ups, left)
  BY <1>4, Others
<1>6. History(d.types, ups2, left)
  BY DEF Shape, History
<1>. QED  BY <1>1, <1>2, <1>3, <1>5, <1>6, ReachedByDrop DEF DropTopicsTeams

(* The downgrade of 4ff34474b4fd creates them again.                        *)
LEMMA DownCreateTopicsTeams ==
  ASSUME NEW d, Database(d), NEW ups, NEW left,
         Shape(d.tables, d.types, ups, left),
         "a918b053c43a" \in ups, "4ff34474b4fd" \in ups
  PROVE  Reached(d, CreateTopicsTeams(d)[2],
                 ups \ {"4ff34474b4fd"}, left \cup {"4ff34474b4fd"})
<1>. DEFINE ups2 == ups \ {"4ff34474b4fd"}
            left2 == left \cup {"4ff34474b4fd"}
<1>1. CreateTopicsTeams(d)[2] = CreateTable(d, "topics_teams", topics_teams)
  BY DEF CreateTopicsTeams, topics_teams
<1>2. "topics_teams" \notin Names(ups, left)
  BY DEF Names, When, Unless, Steady
<1>3. Names(ups2, left2) = Names(ups, left) \cup {"topics_teams"}
  BY DEF Names, When, Unless
<1>4. /\ UsersAt(ups2) = UsersAt(ups) /\ TeamsAt(ups2) = TeamsAt(ups)
      /\ RemotecisAt(ups2) = RemotecisAt(ups)
      /\ ComponentsAt(ups2, left2) = ComponentsAt(ups, left)
      /\ JobsAt(ups2, left2) = JobsAt(ups, left)
  BY TablesAgree DEF Agree
<1>5. \A t \in Names(ups, left) : TableAt(t, ups2, left2) = TableAt(t, ups, left)
  BY <1>4, Others
<1>6. History(d.types, ups2, left2)
  BY DEF Shape, History
<1>7. TableAt("topics_teams", ups2, left2) = topics_teams
  BY TableAts
<1>. QED  BY <1>1, <1>2, <1>3, <1>5, <1>6, <1>7, ReachedByCreate

(* The revisions whose upgrade, or whose downgrade, changes no table.       *)
LEMMA UpSame ==
  ASSUME NEW d, Database(d), NEW ups, NEW left,
         Shape(d.tables, d.types, ups, left), "a918b053c43a" \in ups,
         NEW r \in {"892f7e0ba88d", "36c753d31b62"}
  PROVE  Reached(d, d, ups \cup {r}, left)
<1>. DEFINE ups2 == ups \cup {r}
<1>1. /\ UsersAt(ups2) = UsersAt(ups) /\ TeamsAt(ups2) = TeamsAt(ups)
      /\ RemotecisAt(ups2) = RemotecisAt(ups)
      /\ ComponentsAt(ups2, left) = ComponentsAt(ups, left)
      /\ JobsAt(ups2, left) = JobsAt(ups, left)
      /\ Names(ups2, left) = Names(ups, left)
  BY TablesAgree DEF Agree
<1>2. \A t \in Names(ups, left) : TableAt(t, ups2, left) = TableAt(t, ups, left)
  BY <1>1, Others
<1>3. History(d.types, ups2, left)
  BY DEF Shape, History
<1>. QED  BY <1>1, <1>2, <1>3, ReachedSame

(* A downgrade that does nothing leaves what the upgrade made.              *)
LEMMA DownSame ==
  ASSUME NEW d, Database(d), NEW ups, NEW left,
         Shape(d.tables, d.types, ups, left), "a918b053c43a" \in ups,
         NEW r \in {"ab48aca06ac4", "fd04b7d20477", "46dff7ed04c2", "caa65adffe8e",
                    "1c16157d0b73", "e0f709d4ea8f", "892f7e0ba88d", "36c753d31b62"},
         r \in ups
  PROVE  Reached(d, d, ups \ {r}, left \cup {r})
<1>. DEFINE ups2 == ups \ {r}
            left2 == left \cup {r}
<1>1. /\ UsersAt(ups2) = UsersAt(ups) /\ TeamsAt(ups2) = TeamsAt(ups)
      /\ RemotecisAt(ups2) = RemotecisAt(ups)
      /\ ComponentsAt(ups2, left2) = ComponentsAt(ups, left)
      /\ JobsAt(ups2, left2) = JobsAt(ups, left)
      /\ Names(ups2, left2) = Names(ups, left)
  BY TablesAgree DEF Agree
<1>2. \A t \in Names(ups, left) : TableAt(t, ups2, left2) = TableAt(t, ups, left)
  BY <1>1, Others
<1>3. History(d.types, ups2, left2)
  BY DEF Shape, History
<1>. QED  BY <1>1, <1>2, <1>3, ReachedSame

(* The initial migration creates all tables, unless its types are there.    *)
LEMMA UpCreateAll ==
  ASSUME NEW d, Database(d), NEW ups, NEW left,
         Shape(d.tables, d.types, ups, left), "a918b053c43a" \notin ups
  PROVE  /\ CreateAll(d)[1] =>
              Reached(d, CreateAll(d)[2], ups \cup {"a918b053c43a"}, left)
         /\ ~CreateAll(d)[1] => "a918b053c43a" \in left
<1>. DEFINE T == Over(Created, d.tables)
            e == CreateAll(d)[2]
<1>1. ups = {} /\ d.tables = [t \in {} |-> d.tables[t]] /\ DOMAIN d.tables = {}
  BY DEF Shape, Names
<1>2. CreateAll(d)[1] <=> "a918b053c43a" \notin left
  BY <1>1 DEF CreateAll, Shape
<1>3. ASSUME CreateAll(d)[1]
      PROVE  left = {} /\ ups \cup {"a918b053c43a"} = {"a918b053c43a"}
  BY <1>1, <1>2, <1>3 DEF Shape
<1>4. /\ e = [d EXCEPT !.tables = T, !.types = TRUE]
  BY DEF CreateAll
<1>5. /\ e.tables = T /\ e.types = TRUE /\ e.rows = d.rows
      /\ e.revision = d.revision /\ Database(e)
  BY <1>4 DEF Database
<1>6. DOMAIN Created = Steady \cup Changing \cup {"topics_teams"}
  BY DEF Created, Steady, Changing
<1>7. Names({"a918b053c43a"}, {}) = Steady \cup Changing \cup {"topics_teams"}
  BY DEF Names, When, Unless, Changing
<1>8. Tabled(T, {"a918b053c43a"}, {})
  <2>1. DOMAIN T = Names({"a918b053c43a"}, {}) /\ T = [t \in DOMAIN T |-> T[t]]
    BY <1>1, <1>6, <1>7 DEF Over
  <2>2. \A t \in DOMAIN T : T[t] = Created[t]
    BY <1>1, <1>6 DEF Over
  <2>3. /\ Created["users"] = UsersAt({"a918b053c43a"})
        /\ Created["teams"] = TeamsAt({"a918b053c43a"})
        /\ Created["remotecis"] = RemotecisAt({"a918b053c43a"})
        /\ Created["components"] = ComponentsAt({"a918b053c43a"}, {})
        /\ Created["jobs"] = JobsAt({"a918b053c43a"}, {})
        /\ Created["topics_teams"] = topics_teams
    <3>1. Created["users"] = UsersAt({"a918b053c43a"})
      <4>1. users.required = UsersAt({"a918b053c43a"}).required
        BY DEF users, UsersAt, Table, When, Unless
      <4>2. users.nullable = UsersAt({"a918b053c43a"}).nullable
        BY DEF users, UsersAt, Table, When, Unless
      <4>3. users.unique = UsersAt({"a918b053c43a"}).unique
        BY DEF users, UsersAt, Table, When, Unless
      <4>. QED  BY <4>1, <4>2, <4>3 DEF Created, users, UsersAt, Table
    <3>2. Created["teams"] = TeamsAt({"a918b053c43a"})
      BY DEF Created, teams, TeamsAt, Table, When, Unless
    <3>3. Created["remotecis"] = RemotecisAt({"a918b053c43a"})
      <4>1. remotecis.nullable = RemotecisAt({"a918b053c43a"}).nullable
        BY DEF remotecis, RemotecisAt, Table, When, Unless
      <4>. QED  BY <4>1 DEF Created, remotecis, RemotecisAt, Table
    <3>4. Created["components"] = ComponentsAt({"a918b053c43a"}, {})
      <4>1. components.required = ComponentsAt({"a918b053c43a"}, {}).required
        BY DEF components, ComponentsAt, Table, When, Unless
      <4>2. components.unique = ComponentsAt({"a918b053c43a"}, {}).unique
        BY DEF components, ComponentsAt, UniqueAt, OldUnique, Table, When, Unless
      <4>. QED  BY <4>1, <4>2 DEF Created, components, ComponentsAt, Table
    <3>5. Created["jobs"] = JobsAt({"a918b053c43a"}, {})
      <4>1. jobs.required = JobsAt({"a918b053c43a"}, {}).required
        BY DEF jobs, JobsAt, Table, When, Unless
      <4>2. jobs.nullable = JobsAt({"a918b053c43a"}, {}).nullable
        BY DEF jobs, JobsAt, Table, When, Unless
      <4>3. jobs.refs = JobsAt({"a918b053c43a"}, {}).refs
        BY DEF JobsAt, Table, When, Unless
      <4>4. jobs.index = JobsAt({"a918b053c43a"}, {}).index
        BY DEF JobsAt, Table, When, Unless
      <4>. QED  BY <4>1, <4>2, <4>3, <4>4 DEF Created, jobs, JobsAt, Table
    <3>. QED  BY <3>1, <3>2, <3>3, <3>4, <3>5 DEF Created
  <2>. QED  BY <2>1, <2>2, <2>3, <1>7, TableAts DEF Tabled, Changing
<1>9. ASSUME CreateAll(d)[1] PROVE History(TRUE, {"a918b053c43a"}, {})
  BY DEF History
<1>. QED  BY <1>2, <1>3, <1>5, <1>8, <1>9, ShapeParts DEF Reached

(* Its downgrade drops them all and keeps the types.                        *)
LEMMA DownDropAll ==
  ASSUME NEW d, Database(d), NEW ups, NEW left,
         Shape(d.tables, d.types, ups, left), ups = {"a918b053c43a"}
  PROVE  /\ DropAll(d)[2].rows = NoRows
         /\ DropAll(d)[2].revision = d.revision
         /\ Database(DropAll(d)[2])
         /\ Shape(DropAll(d)[2].tables, DropAll(d)[2].types, {}, left
              \cup {"a918b053c43a"})
<1>. DEFINE T == <<>>
            e == WithRows(With(d, T), NoRows)
<1>. HIDE DEF T
<1>1. /\ e.tables = T /\ e.types = d.types /\ e.rows = NoRows
      /\ e.revision = d.revision /\ Database(e)
  BY WithFields, WithRowsFields
<1>2. DropAll(d)[2] = e
  BY DEF DropAll, T, With
<1>3. DOMAIN T = {} /\ T = [t \in DOMAIN T |-> T[t]]
  BY DEF T
<1>4. "46dff7ed04c2" \in left => "66680dcf2c88" \in left
  BY DEF Shape
<1>. QED  BY <1>1, <1>2, <1>3, <1>4 DEF Shape, Names

-----------------------------------------------------------------------------
(* All upgrades, and all downgrades.                                        *)

(* The rows after the upgrade to r.                                         *)
RowsAfter(r, d) ==
  CASE r = "46dff7ed04c2" -> MergedRows(d)
    [] r = "36c753d31b62" -> [d.rows EXCEPT !.nulls = @ \ JobStrings]
    [] OTHER -> d.rows

(* What an upgrade to r comes to: done is <<its guard, its outcome>>.       *)
Comes(r, d, done, ups, left) ==
  /\ done[1] =>
       /\ Database(done[2]) /\ done[2].revision = d.revision
       /\ done[2].rows = RowsAfter(r, d)
       /\ Shape(done[2].tables, done[2].types, ups \cup {r}, left)
  /\ ~done[1] =>
       \/ r = "46dff7ed04c2"
       \/ r \in left \cap LeavesSomething
       \/ r = "a7d42b83e41e" /\ d.rows.nulls # {}

(* Every upgrade comes to the shape of one more revision, or fails for a    *)
(* reason.                                                                  *)
LEMMA UpgradedComes ==
  ASSUME NEW d, Database(d), NEW ups, NEW left,
         Shape(d.tables, d.types, ups, left),
         NEW r \in Revisions, r \notin ups,
         r # "a918b053c43a" => "a918b053c43a" \in ups,
         r = "46dff7ed04c2" => "66680dcf2c88" \in ups
  PROVE  Comes(r, d, Upgraded(r, d), ups, left)
<1>1. CASE r = "a918b053c43a"
  <2>1. Upgraded(r, d) = CreateAll(d)
    BY <1>1 DEF Upgraded
  <2>. QED  BY <1>1, <2>1, UpCreateAll DEF Reached, Comes, RowsAfter, LeavesSomething
<1>2. CASE r = "ab48aca06ac4"
  <2>1. Upgraded(r, d) = AddPipelines(d)
    BY <1>2 DEF Upgraded
  <2>. QED  BY <1>2, <2>1, UpAddPipelines DEF Reached, Comes, RowsAfter, LeavesSomething
<1>3. CASE r = "fd04b7d20477"
  <2>1. Upgraded(r, d) = AddPipelineInJobs(d)
    BY <1>3 DEF Upgraded
  <2>. QED  BY <1>3, <2>1, UpAddPipelineInJobs DEF Reached, Comes, RowsAfter,
               LeavesSomething
<1>4. CASE r = "66680dcf2c88"
  <2>1. Upgraded(r, d) = AddDisplayName(d)
    BY <1>4 DEF Upgraded
  <2>. QED  BY <1>4, <2>1, UpAddDisplayName DEF Reached, Comes, RowsAfter, LeavesSomething
<1>5. CASE r = "46dff7ed04c2"
  <2>1. Upgraded(r, d) = MergeComponents(d)
    BY <1>5 DEF Upgraded
  <2>2. Reached(d, AddUnique(d, "components", NewUnique), ups \cup {r}, left)
    BY <1>5, UpUniqued DEF Uniqued
  <2>3. MergeComponents(d)[2] =
          WithRows(AddUnique(d, "components", NewUnique), MergedRows(d))
    BY DEF MergeComponents
  <2>. QED  BY <1>5, <2>1, <2>2, <2>3, WithRowsFields DEF Reached, Comes, RowsAfter
<1>6. CASE r = "caa65adffe8e"
  <2>1. Upgraded(r, d) = IndexJobsByDate(d)
    BY <1>6 DEF Upgraded
  <2>. QED  BY <1>6, <2>1, UpIndexJobsByDate DEF Reached, Comes, RowsAfter,
               LeavesSomething
<1>7. CASE r = "609db7251b15"
  <2>1. Upgraded(r, d) = DropCertFp(d)
    BY <1>7 DEF Upgraded
  <2>. QED  BY <1>7, <2>1, UpDropCertFp DEF Reached, Comes, RowsAfter, LeavesSomething
<1>8. CASE r = "1c16157d0b73"
  <2>1. Upgraded(r, d) = AddJobKeyValue(d)
    BY <1>8 DEF Upgraded
  <2>. QED  BY <1>8, <2>1, UpAddJobKeyValue DEF Reached, Comes, RowsAfter, LeavesSomething
<1>9. CASE r = "5b771c01636f"
  <2>1. Upgraded(r, d) = AllowEmptyEmail(d)
    BY <1>9 DEF Upgraded
  <2>. QED  BY <1>9, <2>1, UpAllowEmptyEmail DEF Reached, Comes, RowsAfter,
               LeavesSomething
<1>10. CASE r = "850229f38182"
  <2>1. Upgraded(r, d) = AddPreReleaseAccess(d)
    BY <1>10 DEF Upgraded
  <2>. QED  BY <1>10, <2>1, UpAddPreReleaseAccess DEF Reached, Comes, RowsAfter,
               LeavesSomething
<1>11. CASE r = "e0f709d4ea8f"
  <2>1. Upgraded(r, d) = AddComponentsAccess(d)
    BY <1>11 DEF Upgraded
  <2>. QED  BY <1>11, <2>1, UpAddComponentsAccess DEF Reached, Comes, RowsAfter,
               LeavesSomething
<1>12. CASE r = "892f7e0ba88d"
  <2>1. Upgraded(r, d) = DefaultJobStrings(d)
    BY <1>12 DEF Upgraded
  <2>2. Reached(d, d, ups \cup {r}, left)
    BY <1>12, UpSame
  <2>3. DefaultJobStrings(d)[1] /\ DefaultJobStrings(d)[2] = d
    BY DEF DefaultJobStrings
  <2>4. RowsAfter(r, d) = d.rows
    BY <1>12 DEF RowsAfter
  <2>. QED  BY <2>1, <2>2, <2>3, <2>4 DEF Reached, Comes
<1>13. CASE r = "36c753d31b62"
  <2>1. Upgraded(r, d) = EmptyJobStrings(d)
    BY <1>13 DEF Upgraded
  <2>2. Reached(d, d, ups \cup {r}, left)
    BY <1>13, UpSame
  <2>3. /\ EmptyJobStrings(d)[1]
        /\ EmptyJobStrings(d)[2] = WithRows(d, [d.rows EXCEPT !.nulls = @ \ JobStrings])
    BY DEF EmptyJobStrings
  <2>4. RowsAfter(r, d) = [d.rows EXCEPT !.nulls = @ \ JobStrings]
    BY <1>13 DEF RowsAfter
  <2>. QED  BY <2>1, <2>2, <2>3, <2>4, WithRowsFields DEF Reached, Comes
<1>14. CASE r = "a7d42b83e41e"
  <2>1. Upgraded(r, d) = RequireJobStrings(d)
    BY <1>14 DEF Upgraded
  <2>. QED  BY <1>14, <2>1, UpRequireJobStrings DEF Reached, Comes, RowsAfter,
               LeavesSomething
<1>15. CASE r = "83c6c24dc160"
  <2>1. Upgraded(r, d) = AddSsoSub(d)
    BY <1>15 DEF Upgraded
  <2>. QED  BY <1>15, <2>1, UpAddSsoSub DEF Reached, Comes, RowsAfter, LeavesSomething
<1>16. CASE r = "4ff34474b4fd"
  <2>1. Upgraded(r, d) = DropTopicsTeams(d)
    BY <1>16 DEF Upgraded
  <2>. QED  BY <1>16, <2>1, UpDropTopicsTeams DEF Reached, Comes, RowsAfter,
               LeavesSomething
<1>. QED  BY RevisionsAre, <1>1, <1>2, <1>3, <1>4, <1>5, <1>6, <1>7, <1>8, <1>9, <1>10,
             <1>11, <1>12, <1>13, <1>14, <1>15, <1>16

(* The rows after the downgrade of r.                                       *)
RowsBefore(r, d) ==
  CASE r = "a918b053c43a" -> NoRows
    [] r = "66680dcf2c88" ->
         [d.rows EXCEPT !.components = [c \in Rows(d) |-> Blank(Row(d, c))]]
    [] OTHER -> d.rows

(* What a downgrade of r comes to.                                          *)
Goes(r, d, e, ups, left) ==
  /\ Database(e) /\ e.revision = d.revision /\ e.rows = RowsBefore(r, d)
  /\ Shape(e.tables, e.types, ups \ {r}, left \cup {r})

(* Every downgrade comes to the shape of one revision less.                 *)
LEMMA DowngradedComes ==
  ASSUME NEW d, Database(d), NEW ups, NEW left,
         Shape(d.tables, d.types, ups, left),
         NEW r \in Revisions, r \in ups,
         IF r = "a918b053c43a" THEN ups = {r} ELSE "a918b053c43a" \in ups,
         Downgraded(r, d)[1]
  PROVE  Goes(r, d, Downgraded(r, d)[2], ups, left)
<1>. DEFINE e == Downgraded(r, d)[2]
<1>1. CASE r = "a918b053c43a"
  <2>1. Downgraded(r, d) = DropAll(d)
    BY <1>1 DEF Downgraded
  <2>2. ups \ {r} = {}
    BY <1>1
  <2>. QED  BY <1>1, <2>1, <2>2, DownDropAll DEF RowsBefore, Goes
<1>2. CASE r = "66680dcf2c88"
  <2>1. Downgraded(r, d) = DropDisplayName(d)
    BY <1>2 DEF Downgraded
  <2>2. Reached(d, Unnamed(d)[2], ups \ {r}, left \cup {r})
    BY <1>2, DownUnnamed DEF Unnamed
  <2>3. e = WithRows(Unnamed(d)[2], RowsBefore(r, d))
    BY <1>2, <2>1 DEF DropDisplayName, Unnamed, RowsBefore
  <2>. QED  BY <2>2, <2>3, WithRowsFields DEF Reached, Goes
<1>3. CASE r = "609db7251b15"
  <2>1. Downgraded(r, d) = AddCertFp(d)
    BY <1>3 DEF Downgraded
  <2>. QED  BY <1>3, <2>1, DownAddCertFp DEF Reached, RowsBefore, Goes
<1>4. CASE r = "5b771c01636f"
  <2>1. Downgraded(r, d) = RequireEmail(d)
    BY <1>4 DEF Downgraded
  <2>. QED  BY <1>4, <2>1, DownRequireEmail DEF Reached, RowsBefore, Goes
<1>5. CASE r = "850229f38182"
  <2>1. Downgraded(r, d) = DropPreReleaseAccess(d)
    BY <1>5 DEF Downgraded
  <2>. QED  BY <1>5, <2>1, DownDropPreReleaseAccess DEF Reached, RowsBefore, Goes
<1>6. CASE r = "a7d42b83e41e"
  <2>1. Downgraded(r, d) = NullJobStrings(d)
    BY <1>6 DEF Downgraded
  <2>. QED  BY <1>6, <2>1, DownNullJobStrings DEF Reached, RowsBefore, Goes
<1>7. CASE r = "83c6c24dc160"
  <2>1. Downgraded(r, d) = DropSsoSub(d)
    BY <1>7 DEF Downgraded
  <2>. QED  BY <1>7, <2>1, DownDropSsoSub DEF Reached, RowsBefore, Goes
<1>8. CASE r = "4ff34474b4fd"
  <2>1. Downgraded(r, d) = CreateTopicsTeams(d)
    BY <1>8 DEF Downgraded
  <2>. QED  BY <1>8, <2>1, DownCreateTopicsTeams DEF Reached, RowsBefore, Goes
<1>9. CASE r \in {"ab48aca06ac4", "fd04b7d20477", "46dff7ed04c2", "caa65adffe8e",
                "1c16157d0b73", "e0f709d4ea8f", "892f7e0ba88d", "36c753d31b62"}
  <2>1. Downgraded(r, d)[2] = d
    BY <1>9 DEF Downgraded
  <2>2. RowsBefore(r, d) = d.rows
    BY <1>9 DEF RowsBefore
  <2>. QED  BY <1>9, <2>1, <2>2, DownSame DEF Reached, Goes
<1>. QED  BY RevisionsAre, <1>1, <1>2, <1>3, <1>4, <1>5, <1>6, <1>7, <1>8, <1>9

-----------------------------------------------------------------------------
(* Steps along the chain.                                                   *)

(* A database whose revision is set.                                        *)
At(d, revision) == [d EXCEPT !.revision = revision]

(* Its other fields are those it had.                                       *)
LEMMA SetRevision ==
  ASSUME NEW d, Database(d), NEW i \in 1..17, NEW e,
         e = At(d, Chain[i])
  PROVE  /\ Database(e) /\ e.revision = Chain[i] /\ e.rows = d.rows
         /\ e.tables = d.tables /\ e.types = d.types
BY ChainFacts DEF Database, At

UpTo(r, d, e, left) ==
  /\ Database(e) /\ e.revision = r /\ e.rows = RowsAfter(r, d)
  /\ Shape(e.tables, e.types, Ups(r), left)

DownFrom(r, d, e, left) ==
  /\ Database(e) /\ e.revision = Before(r) /\ e.rows = RowsBefore(r, d)
  /\ Shape(e.tables, e.types, Ups(e.revision), left \cup {r})

(* An upgrade takes the shape of a place to that of the next.               *)
LEMMA UpStep ==
  ASSUME NEW d, Database(d), NEW left, NEW i \in 1..16, d.revision = Chain[i],
         Shape(d.tables, d.types, Ups(d.revision), left),
         NEW r, r = Chain[i + 1]
  PROVE  /\ Upgraded(r, d)[1] => UpTo(r, d, At(Upgraded(r, d)[2], r), left)
         /\ ~Upgraded(r, d)[1] =>
              \/ r = "46dff7ed04c2"
              \/ r \in left \cap LeavesSomething
              \/ r = "a7d42b83e41e" /\ d.rows.nulls # {}
<1>. DEFINE e == At(Upgraded(r, d)[2], r)
<1>1. /\ Ups(r) = Ups(Chain[i]) \cup {r}
      /\ r \notin Ups(Chain[i]) /\ r \in Revisions
  BY UpsUp
<1>2. i \in 1..17 /\ i + 1 \in 1..17 /\ (i # 1 => 2 <= i) /\ (i + 1 = 6 => 5 <= i)
  OBVIOUS
<1>3. r # "a918b053c43a" => "a918b053c43a" \in Ups(Chain[i])
  <2>1. i # 1 => Chain[2] \in Ups(Chain[i])
    BY <1>2, InUps
  <2>2. i = 1 => r = "a918b053c43a"
    BY ChainFacts
  <2>. QED  BY <2>1, <2>2, ChainFacts
<1>4. r = "46dff7ed04c2" => "66680dcf2c88" \in Ups(Chain[i])
  <2>1. r = "46dff7ed04c2" => i + 1 = 6
    BY <1>2, PlaceOfChain, Places
  <2>2. i + 1 = 6 => Chain[5] \in Ups(Chain[i])
    BY <1>2, InUps
  <2>. QED  BY <2>1, <2>2, ChainFacts
<1>5. Comes(r, d, Upgraded(r, d), Ups(Chain[i]), left)
  BY <1>1, <1>3, <1>4, UpgradedComes
<1>6. ASSUME Upgraded(r, d)[1]
      PROVE  /\ Database(e) /\ e.revision = r /\ e.rows = RowsAfter(r, d)
             /\ Shape(e.tables, e.types, Ups(r), left)
  <2>. DEFINE o == Upgraded(r, d)[2]
  <2>1. /\ Database(o) /\ o.rows = RowsAfter(r, d)
        /\ Shape(o.tables, o.types, Ups(Chain[i]) \cup {r}, left)
    BY <1>5, <1>6 DEF Comes
  <2>2. /\ Database(e) /\ e.revision = r /\ e.rows = o.rows
        /\ e.tables = o.tables /\ e.types = o.types
    BY <1>2, <2>1, SetRevision
  <2>. QED  BY <1>1, <2>1, <2>2
<1>. QED  BY <1>5, <1>6 DEF Comes, UpTo

(* A downgrade takes it to that of the place before.                        *)
LEMMA DownStep ==
  ASSUME NEW d, Database(d), NEW left, NEW i \in 2..17, d.revision = Chain[i],
         Shape(d.tables, d.types, Ups(d.revision), left),
         NEW r, r = Chain[i], Downgraded(r, d)[1]
  PROVE  DownFrom(r, d, At(Downgraded(r, d)[2], Before(r)), left)
<1>. DEFINE e == At(Downgraded(r, d)[2], Chain[i - 1])
<1>1. i - 1 \in 1..16 /\ (i - 1) + 1 = i /\ i \in 1..17 /\ i - 1 \in 1..17
  OBVIOUS
<1>2. /\ Ups(r) = Ups(Chain[i - 1]) \cup {r}
      /\ r \notin Ups(Chain[i - 1]) /\ r \in Revisions
  BY <1>1, UpsUp
<1>3. IF r = "a918b053c43a" THEN Ups(r) = {r} ELSE "a918b053c43a" \in Ups(r)
  <2>1. Chain[2] \in Ups(r)
    BY <1>1, InUps
  <2>2. ASSUME r = "a918b053c43a" PROVE Ups(r) = {r}
    <3>1. Place(r) = 2
      BY <2>2, Places
    <3>. QED  BY <3>1, <2>2, ChainFacts DEF Ups
  <2>. QED  BY <2>1, <2>2, ChainFacts
<1>. DEFINE o == Downgraded(r, d)[2]
<1>4. /\ Database(o) /\ o.rows = RowsBefore(r, d)
      /\ Shape(o.tables, o.types, Ups(r) \ {r}, left \cup {r})
  <2>1. Goes(r, d, o, Ups(r), left)
    BY <1>2, <1>3, DowngradedComes
  <2>. QED  BY <2>1 DEF Goes
<1>5. /\ Database(e) /\ e.revision = Chain[i - 1] /\ e.rows = o.rows
      /\ e.tables = o.tables /\ e.types = o.types
  BY <1>1, <1>4, SetRevision
<1>6. Ups(r) \ {r} = Ups(Chain[i - 1])
  BY <1>2
<1>7. Before(r) = Chain[i - 1]
  BY <1>1, PlaceOfChain DEF Before
<1>. QED  BY <1>4, <1>5, <1>6, <1>7 DEF DownFrom

-----------------------------------------------------------------------------
(* The rows along the chain.                                                *)

(* What Filling says depends on the rows only.                              *)
LEMMA FillingSame ==
  ASSUME NEW d, NEW e, Filling(d), e.rows = d.rows
  PROVE  Filling(e)
BY DEF Filling, Rows, Row

(* The row that replaces another is there, is kept, and has its key.        *)
LEMMA KeptIs ==
  ASSUME NEW f, DOMAIN f \subseteq Nat, Maxima(DOMAIN f), NEW c \in DOMAIN f
  PROVE  /\ Kept(f, c) \in DOMAIN f
         /\ Kept(f, Kept(f, c)) = Kept(f, c)
         /\ Kept(f, c) = c \/ NewKey(f[Kept(f, c)]) = NewKey(f[c])
<1>. DEFINE Same(x) == {b \in DOMAIN f : Keyed(f[b]) /\ NewKey(f[b]) = NewKey(f[x])}
<1>1. ASSUME NEW x \in DOMAIN f, Keyed(f[x])
      PROVE  /\ Latest(f, x) \in Same(x)
             /\ \A b \in Same(x) : b <= Latest(f, x)
  <2>1. x \in Same(x) /\ Same(x) \in SUBSET (DOMAIN f)
    BY <1>1
  <2>2. PICK m \in Same(x) : \A n \in Same(x) : n <= m
    BY <2>1 DEF Maxima
  <2>3. \E a \in DOMAIN f :
          /\ a = x \/ (Keyed(f[a]) /\ NewKey(f[a]) = NewKey(f[x]))
          /\ \A b \in DOMAIN f : Keyed(f[b]) /\ NewKey(f[b]) = NewKey(f[x]) => b <= a
    BY <2>2
  <2>4. /\ Latest(f, x) \in DOMAIN f
        /\ Latest(f, x) = x
           \/ (Keyed(f[Latest(f, x)]) /\ NewKey(f[Latest(f, x)]) = NewKey(f[x]))
        /\ \A b \in DOMAIN f : Keyed(f[b]) /\ NewKey(f[b]) = NewKey(f[x])
             => b <= Latest(f, x)
    BY <2>3 DEF Latest
  <2>. QED  BY <2>1, <2>4
<1>2. CASE ~Keyed(f[c])
  BY <1>2 DEF Kept
<1>3. CASE Keyed(f[c])
  <2>. DEFINE a == Latest(f, c)
              b == Latest(f, a)
  <2>1. /\ Kept(f, c) = a
        /\ a \in Same(c) /\ \A n \in Same(c) : n <= a
    BY <1>1, <1>3 DEF Kept
  <2>2. Same(a) = Same(c) /\ a \in DOMAIN f /\ Keyed(f[a])
    BY <2>1
  <2>3. Kept(f, a) = b /\ b \in Same(a) /\ \A n \in Same(a) : n <= b
    BY <1>1, <2>2 DEF Kept
  <2>4. a <= b /\ b <= a /\ a \in Nat /\ b \in Nat
    BY <2>1, <2>2, <2>3
  <2>5. a = b
    BY <2>4
  <2>. QED  BY <2>1, <2>3, <2>5
<1>. QED  BY <1>2, <1>3

(* Merging the components keeps the rows sound, and the jobs' components.   *)
LEMMA MergedIs ==
  ASSUME NEW d, Filling(d), NEW e, e.rows = MergedRows(d)
  PROVE  Filling(e) /\ Kin(d, e) /\ e.rows.nulls = d.rows.nulls
<1>. DEFINE f == FilledRows(d)
            kept == {c \in Rows(d) : Kept(f, c) = c}
<1>1. /\ e.rows = [components |-> [c \in kept |-> f[c]],
                   attached |-> Moved(f, d.rows.attached),
                   nulls |-> d.rows.nulls, noEmail |-> d.rows.noEmail]
  BY DEF MergedRows
<1>2. DOMAIN f = Rows(d) /\ \A c \in Rows(d) : f[c] = Filled(Row(d, c))
  BY DEF FilledRows
<1>. HIDE DEF f
<1>3. /\ Rows(e) = kept /\ \A c \in kept : Row(e, c) = f[c]
      /\ e.rows.components = [c \in kept |-> f[c]]
  BY <1>1 DEF Rows, Row
<1>4. \A c \in Rows(d) :
        /\ Kept(f, c) \in kept
        /\ Kept(f, c) = c \/ NewKey(f[Kept(f, c)]) = NewKey(f[c])
  BY <1>2, KeptIs DEF Filling
<1>5. \A pair \in d.rows.attached :
        /\ <<pair[1], Kept(f, pair[2])>> \in e.rows.attached
        /\ Kept(f, pair[2]) \in Rows(e)
  BY <1>1, <1>3, <1>4 DEF Filling, Moved
<1>6. Kin(d, e)
  <2>. SUFFICES ASSUME NEW pair \in d.rows.attached
                PROVE  \E new \in e.rows.attached :
                         /\ new[1] = pair[1]
                         /\ new[2] \in Rows(e)
                         /\ new[2] = pair[2]
                            \/ NewKey(Row(e, new[2])) = NewKey(Filled(Row(d, pair[2])))
    BY DEF Kin
  <2>. DEFINE new == <<pair[1], Kept(f, pair[2])>>
  <2>1. new \in e.rows.attached /\ new[1] = pair[1] /\ new[2] = Kept(f, pair[2])
        /\ new[2] \in Rows(e) /\ pair[2] \in Rows(d)
    BY <1>5 DEF Filling
  <2>2. new[2] = pair[2] \/ NewKey(f[new[2]]) = NewKey(f[pair[2]])
    BY <2>1, <1>4
  <2>. QED  BY <2>1, <2>2, <1>2, <1>3
<1>7. \A pair \in e.rows.attached : pair[2] \in kept
  BY <1>1, <1>4 DEF Moved, Filling
<1>8. Maxima(kept) /\ kept \subseteq Nat
  BY DEF Filling, Maxima
<1>9. e.rows = [components |-> e.rows.components, attached |-> e.rows.attached,
                nulls |-> e.rows.nulls, noEmail |-> e.rows.noEmail]
      /\ e.rows.nulls \subseteq JobStrings
  BY <1>1 DEF Filling
<1>10. e.rows.components = [c \in Rows(e) |-> Row(e, c)]
  BY <1>3
<1>. QED  BY <1>1, <1>3, <1>6, <1>7, <1>8, <1>9, <1>10 DEF Filling

(* Every upgrade does.                                                      *)
LEMMA FillingAfter ==
  ASSUME NEW d, Filling(d), NEW r, NEW e, e.rows = RowsAfter(r, d)
  PROVE  /\ Filling(e)
         /\ r # "46dff7ed04c2" =>
              /\ e.rows.components = d.rows.components
              /\ e.rows.attached = d.rows.attached
         /\ r = "46dff7ed04c2" => Kin(d, e)
         /\ r = "36c753d31b62" => e.rows.nulls = {}
<1>1. CASE r = "46dff7ed04c2"
  BY <1>1, MergedIs DEF RowsAfter
<1>2. CASE r = "36c753d31b62"
  <2>1. e.rows = [components |-> d.rows.components, attached |-> d.rows.attached,
                  nulls |-> d.rows.nulls \ JobStrings, noEmail |-> d.rows.noEmail]
    BY <1>2 DEF RowsAfter, Filling
  <2>2. d.rows.nulls \ JobStrings = {}
    BY DEF Filling
  <2>. QED  BY <1>2, <2>1, <2>2 DEF Filling, Rows, Row
<1>3. CASE r \notin {"46dff7ed04c2", "36c753d31b62"}
  <2>1. e.rows = d.rows
    BY <1>3 DEF RowsAfter
  <2>. QED  BY <1>3, <2>1, FillingSame
<1>. QED  BY <1>1, <1>2, <1>3

(* No rows are sound.                                                       *)
LEMMA FillingNone ==
  ASSUME NEW e, e.rows = NoRows
  PROVE  Filling(e)
<1>1. Rows(e) = {} /\ e.rows.attached = {} /\ e.rows.nulls = {}
      /\ e.rows.components = <<>>
  BY DEF NoRows, Rows
<1>2. e.rows.components = [c \in Rows(e) |-> Row(e, c)]
  BY <1>1 DEF Row
<1>3. Maxima({})
  BY DEF Maxima
<1>. QED  BY <1>1, <1>2, <1>3 DEF Filling, NoRows

(* Every downgrade keeps the rows sound.                                    *)
LEMMA FillingBefore ==
  ASSUME NEW d, Filling(d), NEW r, NEW e, e.rows = RowsBefore(r, d)
  PROVE  Filling(e)
<1>1. CASE r = "a918b053c43a"
  BY <1>1, FillingNone DEF RowsBefore
<1>2. CASE r = "66680dcf2c88"
  <2>. DEFINE f == [c \in Rows(d) |-> Blank(Row(d, c))]
  <2>1. e.rows = [components |-> f, attached |-> d.rows.attached,
                  nulls |-> d.rows.nulls, noEmail |-> d.rows.noEmail]
    BY <1>2 DEF RowsBefore, Filling
  <2>2. DOMAIN f = Rows(d) /\ f = [c \in DOMAIN f |-> f[c]]
    OBVIOUS
  <2>. HIDE DEF f
  <2>3. Rows(e) = Rows(d) /\ e.rows.components = [c \in Rows(e) |-> Row(e, c)]
    BY <2>1, <2>2 DEF Rows, Row
  <2>. QED  BY <2>1, <2>3 DEF Filling
<1>3. CASE r \notin {"a918b053c43a", "66680dcf2c88"}
  <2>1. e.rows = d.rows
    BY <1>3 DEF RowsBefore
  <2>. QED  BY <2>1, FillingSame
<1>. QED  BY <1>1, <1>2, <1>3

(* A job keeps its components where the rows stay the same.                 *)
LEMMA KinSame ==
  ASSUME NEW d, NEW e, NEW o, Kin(o, d),
         e.rows.components = d.rows.components, e.rows.attached = d.rows.attached
  PROVE  Kin(o, e)
BY DEF Kin, Rows, Row

(* No job of a database loses a component to the same database.             *)
LEMMA KinSelf ==
  ASSUME NEW d, Filling(d)
  PROVE  Kin(d, d)
BY DEF Kin, Filling

(* Nor from one with the same components of jobs.                           *)
LEMMA KinFrom ==
  ASSUME NEW d, NEW e, NEW o, Kin(d, e),
         o.rows.components = d.rows.components, o.rows.attached = d.rows.attached
  PROVE  Kin(o, e)
BY DEF Kin, Rows, Row

-----------------------------------------------------------------------------
(* The invariant of the migrations.                                         *)

(* The releases are revisions of the chain, and Base is not one.            *)
LEMMA ReleasesAre ==
  /\ \A r \in Releases : Place(r) \in 2..17 /\ Chain[Place(r)] = r
  /\ Place(Base) = 1 /\ Chain[1] = Base
  /\ Base \notin Releases
<1>1. Place(Base) = 1 /\ Chain[1] = Base
  BY Places, ChainFacts DEF Base
<1>2. \A r \in Releases : \E k \in 2..17 : r = Chain[k]
  BY ReleasesAssumption, ChainFacts
<1>3. \A k \in 2..17 : k \in 1..17
  OBVIOUS
<1>4. \A r \in Releases : Place(r) \in 2..17 /\ Chain[Place(r)] = r
  BY <1>2, <1>3, PlaceOfChain
<1>. QED  BY <1>1, <1>4

(* The initial database is empty.                                           *)
LEMMA InitMInv == MInit => MInv
<1>. SUFFICES ASSUME MInit PROVE MInv
  OBVIOUS
<1>1. /\ db = New /\ work = New /\ mode = "stopped" /\ undone = {}
      /\ New.rows = NoRows /\ New.revision = Base
      /\ New.tables = <<>> /\ New.types = FALSE
  BY DEF MInit, New
<1>2. Database(New)
  BY ChainFacts DEF Database, New, Base
<1>3. Filling(New)
  BY <1>1, FillingNone
<1>4. Ups(Base) = {}
  BY ReleasesAre DEF Ups
<1>5. Shape(New.tables, New.types, {}, {})
  <2>. DEFINE T == <<>>
  <2>1. DOMAIN T = {} /\ T = [t \in DOMAIN T |-> T[t]]
    OBVIOUS
  <2>. HIDE DEF T
  <2>2. New.tables = T
    BY DEF New, T
  <2>3. New.types = ("a918b053c43a" \in {} \cup {})
    <3>1. ("a918b053c43a" \in {} \cup {}) = FALSE
      OBVIOUS
    <3>. QED  BY <1>1, <3>1
  <2>. QED  BY <2>1, <2>2, <2>3 DEF Shape, Names
<1>6. Left = {}
  BY <1>1 DEF Left
<1>. QED  BY <1>1, <1>2, <1>3, <1>4, <1>5, <1>6 DEF MInv

(* A command starts from what is committed.                                 *)
LEMMA StepDeploy ==
  ASSUME MInv, NEW release \in Releases, Deploy(release)
  PROVE  MInv'
<1>1. /\ db' = db /\ work' = db /\ mode' = "upgrading" /\ target' = release
      /\ undone' = undone /\ Place(db.revision) <= Place(release)
  BY DEF Deploy
<1>2. Left' = undone
  BY <1>1 DEF Left
<1>3. Kin(db, db)
  BY KinSelf DEF MInv
<1>4. Place(db.revision) \in 1..17
  BY ChainOfPlace DEF MInv, Database
<1>5. db.revision = "36c753d31b62" => "36c753d31b62" \in Releases
  BY DEF MInv, Base
<1>. QED  BY <1>1, <1>2, <1>3, <1>4, <1>5 DEF MInv

(* A downgrade starts from what is committed.                               *)
LEMMA StepDowngrade ==
  ASSUME MInv, NEW revision \in Releases \cup {Base}, Downgrade(revision)
  PROVE  MInv'
<1>1. /\ db' = db /\ work' = db /\ mode' = "downgrading" /\ target' = revision
      /\ undone' = undone /\ Place(revision) < Place(db.revision)
  BY DEF Downgrade
<1>2. Place(db.revision) \in 1..17 /\ Place(revision) \in 1..17
  BY ChainOfPlace, ReleasesAre DEF MInv, Database
<1>3. Left' = undone
  <2>1. Left' = undone
          \cup {Chain[k] : k \in Place(db.revision) + 1 .. Place(db.revision)}
    BY <1>1 DEF Left
  <2>2. Place(db.revision) + 1 .. Place(db.revision) = {}
    BY <1>2
  <2>. QED  BY <2>1, <2>2
<1>. QED  BY <1>1, <1>2, <1>3 DEF MInv

(* A command that stops leaves what was committed.                          *)
LEMMA StepBack ==
  ASSUME MInv, mode' = "stopped", work' = db, UNCHANGED <<db, undone>>
  PROVE  MInv'
<1>1. Left' = undone
  BY DEF Left
<1>. QED  BY <1>1 DEF MInv

(* An upgrade runs the next revision, or fails and rolls back.              *)
LEMMA StepUpgrade ==
  ASSUME MInv, Upgrade
  PROVE  MInv'
<1>. DEFINE i == Place(work.revision)
            r == After(work.revision)
            done == Upgraded(r, work)
<1>1. /\ mode = "upgrading" /\ work.revision # target /\ target \in Releases
      /\ i \in 1..17 /\ Chain[i] = work.revision
      /\ Place(target) \in 2..17 /\ Chain[Place(target)] = target
      /\ i <= Place(target) /\ Place(db.revision) \in 1..17 /\ Place(db.revision) <= i
  BY ChainOfPlace, ReleasesAre DEF Upgrade, MInv, Database
<1>2. i # Place(target)
  BY <1>1
<1>3. i \in 1..16 /\ i + 1 <= Place(target) /\ i + 1 \in 1..17 /\ i <= i + 1
      /\ Place(db.revision) <= i + 1
  BY <1>1, <1>2
<1>4. r = Chain[i + 1] /\ Place(r) = i + 1
  BY <1>3, PlaceOfChain DEF After
<1>5. Left = undone
  BY <1>1 DEF Left
<1>6. CASE done[1] /\ work' = [done[2] EXCEPT !.revision = r]
           /\ UNCHANGED <<db, mode, target, failed, undone, asked>>
  <2>1. /\ Database(work') /\ work'.revision = r /\ work'.rows = RowsAfter(r, work)
        /\ Shape(work'.tables, work'.types, Ups(r), undone)
    <3>1. Database(work) /\ Shape(work.tables, work.types, Ups(work.revision), undone)
      BY <1>5 DEF MInv
    <3>2. work' = At(Upgraded(r, work)[2], r) /\ Upgraded(r, work)[1]
      BY <1>6 DEF At
    <3>. HIDE DEF i, r
    <3>3. UpTo(r, work, At(Upgraded(r, work)[2], r), undone)
      BY <1>1, <1>3, <1>4, <3>1, <3>2, UpStep
    <3>. QED  BY <3>2, <3>3 DEF UpTo
  <2>2. Left' = undone
    BY <1>1, <1>6 DEF Left
  <2>3. /\ Filling(work')
        /\ r # "46dff7ed04c2" =>
             /\ work'.rows.components = work.rows.components
             /\ work'.rows.attached = work.rows.attached
        /\ r = "46dff7ed04c2" => Kin(work, work')
        /\ r = "36c753d31b62" => work'.rows.nulls = {}
    BY <2>1, FillingAfter DEF MInv
  <2>4. r = "46dff7ed04c2" <=> i + 1 = 6
    BY <1>3, <1>4, Places, ChainFacts
  <2>5. Kin(db, work')
    <3>1. CASE r = "46dff7ed04c2"
      <4>1. i <= 5
        BY <2>4, <3>1, <1>3
      <4>2. /\ work.rows.components = db.rows.components
            /\ work.rows.attached = db.rows.attached
        BY <4>1, <1>1 DEF MInv
      <4>. QED  BY <3>1, <4>2, <2>3, KinFrom
    <3>2. CASE r # "46dff7ed04c2"
      BY <3>2, <2>3, <1>1, KinSame DEF MInv
    <3>. QED  BY <3>1, <3>2
  <2>6. i + 1 <= 5 => /\ work'.rows.components = db.rows.components
                      /\ work'.rows.attached = db.rows.attached
    <3>1. i + 1 <= 5 => i <= 5 /\ i + 1 # 6
      BY <1>3
    <3>. QED  BY <3>1, <2>3, <2>4, <1>1 DEF MInv
  <2>. QED  BY <1>1, <1>3, <1>4, <1>6, <2>1, <2>2, <2>3, <2>5, <2>6 DEF MInv
<1>7. CASE RollBack(r)
  BY <1>7, StepBack DEF RollBack
<1>. QED  BY <1>6, <1>7 DEF Upgrade

(* A downgrade undoes the last revision at work, or fails and rolls back.   *)
LEMMA StepUndo ==
  ASSUME MInv, Undo
  PROVE  MInv'
<1>. DEFINE i == Place(work.revision)
            j == Place(db.revision)
            r == work.revision
            done == Downgraded(r, work)
<1>1. /\ mode = "downgrading" /\ r # target /\ target \in Releases \cup {Base}
      /\ i \in 1..17 /\ Chain[i] = r /\ j \in 1..17 /\ i <= j
      /\ Place(target) \in 1..17 /\ Chain[Place(target)] = target /\ Place(target) <= i
  BY ChainOfPlace, ReleasesAre DEF Undo, MInv, Database
<1>2. i # Place(target)
  BY <1>1
<1>3. i \in 2..17 /\ Place(target) <= i - 1 /\ i - 1 <= j /\ i - 1 \in 1..17
  BY <1>1, <1>2
<1>4. Before(r) = Chain[i - 1] /\ Place(Chain[i - 1]) = i - 1
  BY <1>3, PlaceOfChain DEF Before
<1>5. CASE done[1] /\ work' = [done[2] EXCEPT !.revision = Before(r)]
           /\ UNCHANGED <<db, mode, target, failed, undone, asked>>
  <2>1. /\ Database(work') /\ work'.revision = Chain[i - 1]
        /\ work'.rows = RowsBefore(r, work)
        /\ Shape(work'.tables, work'.types, Ups(work'.revision), Left \cup {r})
    <3>1. Database(work) /\ Shape(work.tables, work.types, Ups(work.revision), Left)
      BY DEF MInv
    <3>2. r = work.revision
      OBVIOUS
    <3>3. work' = At(Downgraded(r, work)[2], Before(r)) /\ Downgraded(r, work)[1]
      BY <1>4, <1>5 DEF At
    <3>. HIDE DEF i, r
    <3>4. DownFrom(r, work, At(Downgraded(r, work)[2], Before(r)), Left)
      BY <1>1, <1>3, <3>1, <3>2, <3>3, DownStep
    <3>. QED  BY <1>4, <3>3, <3>4 DEF DownFrom
  <2>2. Left' = Left \cup {r}
    <3>1. /\ Left' = undone \cup {Chain[k] : k \in (i - 1) + 1 .. j}
          /\ Left = undone \cup {Chain[k] : k \in i + 1 .. j}
      BY <1>1, <1>4, <1>5, <2>1 DEF Left
    <3>2. (i - 1) + 1 .. j = (i + 1 .. j) \cup {i}
      BY <1>1
    <3>. QED  BY <3>1, <3>2, <1>1
  <2>3. Filling(work')
    BY <2>1, FillingBefore DEF MInv
  <2>. QED  BY <1>1, <1>3, <1>4, <1>5, <2>1, <2>2, <2>3 DEF MInv
<1>6. CASE RollBack(r)
  BY <1>6, StepBack DEF RollBack
<1>. QED  BY <1>5, <1>6 DEF Undo

(* What was at work is committed, and what was undone is left.              *)
LEMMA StepCommit ==
  ASSUME MInv, Commit
  PROVE  MInv'
<1>1. CASE mode = "upgrading"
  <2>1. /\ db' = work /\ work' = work /\ mode' = "serving" /\ undone' = undone
        /\ work.revision = target /\ target \in Releases
        /\ Left = undone /\ Left' = undone
    BY <1>1 DEF Commit, Left, MInv
  <2>. QED  BY <2>1 DEF MInv
<1>2. CASE mode = "downgrading"
  <2>1. /\ db' = work /\ work' = work /\ mode' = "stopped"
        /\ undone' = Left /\ Left' = Left
        /\ work.revision = target /\ target \in Releases \cup {Base}
    BY <1>2 DEF Commit, Left, MInv
  <2>. QED  BY <2>1 DEF MInv
<1>. QED  BY <1>1, <1>2 DEF Commit

(* Rows a server writes are sound when they were.                           *)
LEMMA StepWrite ==
  ASSUME MInv, mode = "serving", NEW rows, Write(rows),
         Filling(WithRows(db, rows))
  PROVE  MInv'
<1>1. /\ db' = WithRows(db, rows) /\ work' = work /\ mode' = mode /\ undone' = undone
      /\ target' = target
  BY DEF Write, WithRows
<1>2. /\ db'.tables = db.tables /\ db'.types = db.types /\ db'.revision = db.revision
      /\ Database(db')
  BY <1>1, WithRowsFields DEF MInv
<1>3. Left' = Left /\ Left = undone
  BY <1>1 DEF Left
<1>. QED  BY <1>1, <1>2, <1>3 DEF MInv

(* The rows of d with the components of another function.                   *)
LEMMA FillingWith ==
  ASSUME NEW d, Filling(d), NEW e, NEW f, NEW attached, NEW nulls, NEW noEmail,
         e.rows = [components |-> f, attached |-> attached, nulls |-> nulls,
                   noEmail |-> noEmail],
         f = [c \in DOMAIN f |-> f[c]], DOMAIN f \subseteq Nat, Maxima(DOMAIN f),
         nulls \subseteq JobStrings,
         \A pair \in attached : pair[2] \in DOMAIN f
  PROVE  Filling(e)
<1>1. Rows(e) = DOMAIN f /\ e.rows.components = f /\ \A c \in DOMAIN f : Row(e, c) = f[c]
  BY DEF Rows, Row
<1>. QED  BY <1>1 DEF Filling

(* The writes of the server between two deployments.                        *)
LEMMA StepServed ==
  ASSUME MInv, Served
  PROVE  MInv'
<1>. DEFINE g == db.rows.components
<1>1. /\ mode = "serving" /\ Filling(db) /\ Database(db) /\ DOMAIN g = Rows(db)
      /\ g = [c \in DOMAIN g |-> g[c]]
      /\ DOMAIN g \subseteq Nat /\ Maxima(DOMAIN g)
      /\ db.rows.nulls \subseteq JobStrings
      /\ \A pair \in db.rows.attached : pair[2] \in DOMAIN g
      /\ db.rows = [components |-> g, attached |-> db.rows.attached,
                    nulls |-> db.rows.nulls, noEmail |-> db.rows.noEmail]
  BY DEF Served, Serving, MInv, Filling, Rows, Row
<1>2. ASSUME NEW c \in Components, NEW origin \in Origins, NEW team \in {None, "team"},
             NEW state \in {"active", "archived"}, WriteComponent(c, origin, team, state)
      PROVE  MInv'
  <2>. DEFINE info == NewInfo(origin[1], origin[2])
              named == ~Lacks(db, "components", "display_name")
              new == [i \in {c} |->
                  [name |-> origin[1], canonical |-> origin[2], team |-> team,
                   state |-> state,
                   display_name |-> IF named THEN info.display_name ELSE "",
                   version |-> IF named THEN info.version ELSE ""]]
              f == Over(new, g)
              rows == [db.rows EXCEPT !.components = f]
  <2>1. /\ \A n \in Rows(db) : n < c
        /\ Write(rows)
    BY <1>2 DEF WriteComponent
  <2>2. DOMAIN new = {c}
    OBVIOUS
  <2>. HIDE DEF new
  <2>3. DOMAIN f = {c} \cup DOMAIN g /\ f = [n \in DOMAIN f |-> f[n]]
    BY <2>2 DEF Over
  <2>. HIDE DEF f
  <2>4. DOMAIN f \subseteq Nat
    BY <2>3, <1>1, ComponentsAssumption
  <2>5. Maxima(DOMAIN f)
    <3>. SUFFICES ASSUME NEW T \in SUBSET (DOMAIN f), T # {}
                  PROVE  \E m \in T : \A n \in T : n <= m
      BY DEF Maxima
    <3>1. CASE c \in T
      <4>1. \A n \in T : n <= c
        <5>. SUFFICES ASSUME NEW n \in T PROVE n <= c
          OBVIOUS
        <5>1. n \in Nat /\ c \in Nat /\ (n = c \/ n \in DOMAIN g)
          BY <2>3, <2>4
        <5>2. n = c \/ n < c
          BY <5>1, <2>1, <1>1
        <5>. QED  BY <5>1, <5>2
      <4>. QED  BY <3>1, <4>1
    <3>2. CASE c \notin T
      <4>1. T \in SUBSET (DOMAIN g)
        BY <2>3, <3>2
      <4>. QED  BY <4>1, <1>1 DEF Maxima
    <3>. QED  BY <3>1, <3>2
  <2>6. rows = [components |-> f, attached |-> db.rows.attached,
                nulls |-> db.rows.nulls, noEmail |-> db.rows.noEmail]
    BY <1>1
  <2>7. \A pair \in db.rows.attached : pair[2] \in DOMAIN f
    BY <1>1, <2>3
  <2>8. WithRows(db, rows).rows = rows
    BY <1>1, WithRowsFields
  <2>. HIDE DEF rows
  <2>9. Filling(WithRows(db, rows))
    BY <1>1, <2>3, <2>4, <2>5, <2>6, <2>7, <2>8, FillingWith
  <2>. QED  BY <1>1, <2>1, <2>9, StepWrite
<1>3. ASSUME NEW j \in Jobs, NEW c \in Components, WriteJob(j, c)
      PROVE  MInv'
  <2>. DEFINE attached == db.rows.attached \cup {<<j, c>>}
              rows == [db.rows EXCEPT !.attached = attached]
  <2>1. c \in Rows(db) /\ Write(rows)
    BY <1>3 DEF WriteJob
  <2>2. \A pair \in attached : pair[2] \in DOMAIN g
    BY <1>1, <2>1
  <2>. HIDE DEF attached
  <2>3. rows = [components |-> g, attached |-> attached,
                nulls |-> db.rows.nulls, noEmail |-> db.rows.noEmail]
    BY <1>1
  <2>4. WithRows(db, rows).rows = rows
    BY <1>1, WithRowsFields
  <2>. HIDE DEF rows
  <2>5. Filling(WithRows(db, rows))
    BY <1>1, <2>2, <2>3, <2>4, FillingWith
  <2>. QED  BY <1>1, <2>1, <2>5, StepWrite
<1>4. ASSUME NEW column \in Unfilled, WriteJobNull(column)
      PROVE  MInv'
  <2>. DEFINE nulls == db.rows.nulls \cup {column}
              rows == [db.rows EXCEPT !.nulls = nulls]
  <2>1. Write(rows)
    BY <1>4 DEF WriteJobNull
  <2>2. nulls \subseteq JobStrings
    BY <1>1, UnfilledAssumption
  <2>. HIDE DEF nulls
  <2>3. rows = [components |-> g, attached |-> db.rows.attached,
                nulls |-> nulls, noEmail |-> db.rows.noEmail]
    BY <1>1
  <2>4. WithRows(db, rows).rows = rows
    BY <1>1, WithRowsFields
  <2>. HIDE DEF rows
  <2>5. Filling(WithRows(db, rows))
    BY <1>1, <2>2, <2>3, <2>4, FillingWith
  <2>. QED  BY <1>1, <2>1, <2>5, StepWrite
<1>5. ASSUME WriteUserWithoutEmail
      PROVE  MInv'
  <2>. DEFINE noEmail == TRUE
              rows == [db.rows EXCEPT !.noEmail = noEmail]
  <2>1. Write(rows)
    BY <1>5 DEF WriteUserWithoutEmail
  <2>. HIDE DEF noEmail
  <2>2. rows = [components |-> g, attached |-> db.rows.attached,
                nulls |-> db.rows.nulls, noEmail |-> noEmail]
    BY <1>1
  <2>3. WithRows(db, rows).rows = rows
    BY <1>1, WithRowsFields
  <2>. HIDE DEF rows
  <2>4. Filling(WithRows(db, rows))
    BY <1>1, <2>2, <2>3, FillingWith
  <2>. QED  BY <1>1, <2>1, <2>4, StepWrite
<1>. QED  BY <1>2, <1>3, <1>4, <1>5 DEF Served

(* Every step keeps the invariant.                                          *)
LEMMA StepMNext ==
  ASSUME MInv, MNext
  PROVE  MInv'
<1>1. ASSUME Killed PROVE MInv'
  BY <1>1, StepBack DEF Killed
<1>. QED  BY <1>1, StepDeploy, StepDowngrade, StepUpgrade, StepUndo, StepCommit,
             StepServed
          DEF MNext

(* Nor does a step that leaves the migrations alone.                        *)
LEMMA StepMUnchanged ==
  ASSUME MInv, UNCHANGED mvars
  PROVE  MInv'
BY DEF MInv, mvars, Left

(* So no step of the whole breaks it.                                       *)
LEMMA StepMInv ==
  ASSUME MInv, [Next]_svars
  PROVE  MInv'
<1>1. Next => MNext \/ UNCHANGED mvars
  BY DEF Next, Administer, Request, PostResource, PutResource, CreateSsoUser
<1>2. UNCHANGED svars => UNCHANGED mvars
  BY DEF svars
<1>. QED  BY <1>1, <1>2, StepMNext, StepMUnchanged

(* In every reachable state the tables, committed or at work, are those     *)
(* that follow from the revisions in effect and those once downgraded.      *)
THEOREM MigrationsInvariant == Spec => []MInv
<1>1. Init => MInv
  BY InitMInv DEF Init
<1>2. MInv /\ [Next]_svars => MInv'
  BY StepMInv
<1>. QED  BY <1>1, <1>2, PTL DEF Spec

-----------------------------------------------------------------------------
(* The newest revision.                                                     *)

(* There all revisions are in effect.                                       *)
LEMMA NewestUps == \A r \in Revisions : r \in Ups(Newest)
<1>1. Newest = Chain[17] /\ \A k \in 2..17 : k <= 17
  BY ChainFacts DEF Newest
<1>. QED  BY <1>1, InUps DEF Revisions

(* The tables that never change are those declared.                         *)
LEMMA SteadyDeclared == \A t \in Steady : Created[t] = Declared[t]
<1>1. Created["counter"] = Declared["counter"]
  BY DEF Created, Declared, counter, Counter
<1>2. Created["jobs_events"] = Declared["jobs_events"]
  BY DEF Created, Declared, jobs_events, JobEvent
<1>3. Created["logs"] = Declared["logs"]
  BY DEF Created, Declared, logs, Log
<1>4. Created["products"] = Declared["products"]
  BY DEF Created, Declared, products, Product
<1>5. Created["feeders"] = Declared["feeders"]
  BY DEF Created, Declared, feeders, Feeder
<1>6. Created["products_teams"] = Declared["products_teams"]
  BY DEF Created, Declared, products_teams, JoinProductsTeams
<1>7. Created["topics"] = Declared["topics"]
  BY DEF Created, Declared, topics, Topic, Table, Cascade, NoAction, Ref
<1>8. Created["users_teams"] = Declared["users_teams"]
  BY DEF Created, Declared, users_teams, UsersTeams, Table
<1>9. Created["user_remotecis"] = Declared["user_remotecis"]
  BY DEF Created, Declared, user_remotecis, UserRemotecis
<1>10. Created["users_topics"] = Declared["users_topics"]
  BY DEF Created, Declared, users_topics, UserTopic
<1>11. Created["component_files"] = Declared["component_files"]
  BY DEF Created, Declared, component_files, Componentfile
<1>12. Created["jobs_components"] = Declared["jobs_components"]
  BY DEF Created, Declared, jobs_components, JoinJobsComponents
<1>13. Created["jobstates"] = Declared["jobstates"]
  BY DEF Created, Declared, jobstates, Jobstate
<1>14. Created["files"] = Declared["files"]
  BY DEF Created, Declared, files, File, Table
<1>15. Created["tests_results"] = Declared["tests_results"]
  BY DEF Created, Declared, tests_results, TestsResult, Table
<1>. QED  BY <1>1, <1>2, <1>3, <1>4, <1>5, <1>6, <1>7, <1>8, <1>9, <1>10, <1>11, <1>12,
             <1>13, <1>14, <1>15 DEF Steady

(* The others become those declared.                                        *)
LEMMA ChangingDeclared ==
  ASSUME NEW ups, NEW left, Revisions \subseteq ups
  PROVE  \A t \in Changing : TableAt(t, ups, left) = Declared[t]
<1>. USE RevisionsAre
<1>1. UsersAt(ups) = User
  <2>1. UsersAt(ups).required = User.required
    BY DEF UsersAt, User, Table, When, Unless
  <2>2. UsersAt(ups).nullable = User.nullable
    BY DEF UsersAt, User, Table, When, Unless
  <2>3. UsersAt(ups).unique = User.unique
    BY DEF UsersAt, User, Table, When, Unless
  <2>. QED  BY <2>1, <2>2, <2>3 DEF UsersAt, User, Table
<1>2. TeamsAt(ups) = Team
  <2>1. TeamsAt(ups).required = Team.required
    BY DEF TeamsAt, Team, Table, When, Unless
  <2>. QED  BY <2>1 DEF TeamsAt, Team, Table
<1>3. RemotecisAt(ups) = Remoteci
  <2>1. RemotecisAt(ups).nullable = Remoteci.nullable
    BY DEF RemotecisAt, Remoteci, Table, When, Unless
  <2>. QED  BY <2>1 DEF RemotecisAt, Remoteci, Table
<1>4. ComponentsAt(ups, left) = Component
  <2>1. ComponentsAt(ups, left).required = Component.required
    BY DEF ComponentsAt, Component, Table, When, Unless, UniqueAt, NewUnique
  <2>2. ComponentsAt(ups, left).unique = NewUnique
    BY DEF ComponentsAt, UniqueAt, Table, When
  <2>. QED  BY <2>1, <2>2 DEF ComponentsAt, Component, Table, NewUnique
<1>5. JobsAt(ups, left) = Job
  <2>1. JobsAt(ups, left).required = Job.required
    BY DEF JobsAt, Job, Table, When, Unless, jobs, JobStrings
  <2>2. JobsAt(ups, left).nullable = Job.nullable
    BY DEF JobsAt, Job, Table, When, Unless, jobs, JobStrings
  <2>3. JobsAt(ups, left).refs = Job.refs
    BY DEF JobsAt, Job, Table, When, Unless, jobs, JobStrings
  <2>4. JobsAt(ups, left).index = Job.index
    BY DEF JobsAt, Job, Table, When, Unless, jobs, JobStrings
  <2>. QED  BY <2>1, <2>2, <2>3, <2>4 DEF JobsAt, Job, Table
<1>. QED  BY <1>1, <1>2, <1>3, <1>4, <1>5, TableAts DEF Changing, Declared

(* At the newest revision the tables are the declared ones.                 *)
LEMMA NewestTables ==
  ASSUME NEW d, NEW left, d.revision = Newest,
         Shape(d.tables, d.types, Ups(d.revision), left)
  PROVE  /\ d.tables = [t \in DOMAIN d.tables |-> d.tables[t]]
         /\ DOMAIN d.tables = DOMAIN Declared
         /\ \A t \in DOMAIN Declared \ {"jobs_keys_values"} : d.tables[t] = Declared[t]
         /\ d.tables["jobs_keys_values"] = KeyValues
<1>. DEFINE ups == Ups(Newest)
<1>1. Revisions \subseteq ups
  BY NewestUps
<1>. HIDE DEF ups
<1>2. /\ DOMAIN d.tables = Names(ups, left)
      /\ \A t \in DOMAIN d.tables : d.tables[t] = TableAt(t, ups, left)
      /\ d.tables = [t \in DOMAIN d.tables |-> d.tables[t]]
  BY DEF Shape, ups
<1>3. Names(ups, left) = Steady \cup Changing
        \cup {"pipelines", "jobs_keys_values", "teams_components_access"}
  BY <1>1, RevisionsAre DEF Names, When, Unless, Changing
<1>4. DOMAIN Declared = Steady \cup Changing
        \cup {"pipelines", "jobs_keys_values", "teams_components_access"}
  BY DEF Declared, Steady, Changing
<1>5. \A t \in Steady : TableAt(t, ups, left) = Declared[t]
  BY TableAts, SteadyDeclared
<1>6. \A t \in Changing : TableAt(t, ups, left) = Declared[t]
  BY <1>1, ChangingDeclared
<1>7. /\ TableAt("pipelines", ups, left) = Declared["pipelines"]
      /\ TableAt("teams_components_access", ups, left) =
           Declared["teams_components_access"]
      /\ TableAt("jobs_keys_values", ups, left) = KeyValues
  BY TableAts DEF Declared
<1>. QED  BY <1>2, <1>3, <1>4, <1>5, <1>6, <1>7

(* The key of the key values is the one column in which the tables differ.  *)
LEMMA RekeyedTable ==
  ASSUME NEW r, NEW n, NEW k, NEW u, NEW f, NEW i, NEW key
  PROVE  Rekeyed(Table(r, n, k, u, f, i), key) = Table(r, n, key, u, f, i)
BY DEF Rekeyed, Table

(* That of the first job key values, replaced.                              *)
LEMMA RekeyedKeyValues ==
  ASSUME NEW key
  PROVE  Rekeyed(KeyValues, key) =
           Table({"key", "value", "job_id"}, {}, key, {},
                 {Cascade("job_id", "jobs")}, {{"key"}, {"job_id"}})
BY RekeyedTable DEF KeyValues

(* A database at the newest revision has the tables the server declares,    *)
(* whatever releases, failed upgrades and downgrades it went through, and   *)
(* however many: what upgrades of the ORM's classes forget would show here. *)
THEOREM NewestIsDeclared == Spec => []HeadIsDeclared
<1>1. MInv => HeadIsDeclared
  <2>. SUFFICES ASSUME MInv, db.revision = Newest
                PROVE  ButKeyValues(db.tables) = Declared
    BY DEF HeadIsDeclared
  <2>. DEFINE T == db.tables
              kv == Rekeyed(T["jobs_keys_values"], {"job_id", "key"})
  <2>1. /\ T = [t \in DOMAIN T |-> T[t]]
        /\ DOMAIN T = DOMAIN Declared
        /\ \A t \in DOMAIN Declared \ {"jobs_keys_values"} : T[t] = Declared[t]
        /\ T["jobs_keys_values"] = KeyValues
    BY NewestTables DEF MInv
  <2>2. kv = JobKeyValue
    <3>1. kv = Table({"key", "value", "job_id"}, {}, {"job_id", "key"}, {},
                     {Cascade("job_id", "jobs")}, {{"key"}, {"job_id"}})
      BY <2>1, RekeyedKeyValues
    <3>2. {"key", "value", "job_id"} = {"job_id", "key", "value"}
      OBVIOUS
    <3>. QED  BY <3>1, <3>2 DEF JobKeyValue
  <2>3. Declared["jobs_keys_values"] = JobKeyValue
        /\ "jobs_keys_values" \in DOMAIN Declared
        /\ Declared = [t \in DOMAIN Declared |-> Declared[t]]
    BY DEF Declared
  <2>4. ButKeyValues(T) = [T EXCEPT !["jobs_keys_values"] = kv]
    BY DEF ButKeyValues, Rekeyed
  <2>. HIDE DEF kv, T
  <2>. QED  BY <2>1, <2>2, <2>3, <2>4 DEF T
<1>. QED  BY <1>1, MigrationsInvariant, PTL

-----------------------------------------------------------------------------
(* Failures and jobs.                                                       *)

(* Only the merge of components refuses the data of an installation that    *)
(* was never downgraded. The hypothesis: 36c753d31b62, which empties the    *)
(* null strings of jobs, was never the head of a release; a7d42b83e41e,     *)
(* which requires them, was written minutes later, the same day.            *)
THEOREM FailuresAreExplained ==
  ASSUME "36c753d31b62" \notin Releases
  PROVE  Spec => []FailureIsExplained
<1>1. Init => FailureIsExplained
  BY DEF Init, MInit, FailureIsExplained
<1>2. MInv /\ FailureIsExplained /\ [Next]_svars => FailureIsExplained'
  <2>. SUFFICES ASSUME MInv, FailureIsExplained, [Next]_svars
                PROVE  FailureIsExplained'
    OBVIOUS
  <2>1. CASE Upgrade /\ RollBack(After(work.revision))
    <3>. DEFINE i == Place(work.revision)
                r == After(work.revision)
    <3>1. /\ mode = "upgrading" /\ work.revision # target /\ target \in Releases
          /\ i \in 1..17 /\ Chain[i] = work.revision
          /\ Place(target) \in 2..17 /\ Chain[Place(target)] = target
          /\ i <= Place(target)
      BY <2>1, ChainOfPlace, ReleasesAre DEF Upgrade, MInv, Database
    <3>2. i # Place(target)
      BY <3>1
    <3>3. i \in 1..16 /\ i + 1 \in 1..17
      BY <3>1, <3>2
    <3>4. r = Chain[i + 1]
      BY DEF After
    <3>5. failed' = <<"upgrading", r>> /\ undone' = undone
      BY <2>1, <3>1 DEF RollBack
    <3>6. CASE ~Upgraded(r, work)[1]
      <4>1. /\ Database(work)
            /\ Shape(work.tables, work.types, Ups(work.revision), undone)
        BY <3>1 DEF MInv, Left
      <4>2. r = "a7d42b83e41e" => work.rows.nulls = {}
        <5>1. r = "a7d42b83e41e" => i + 1 = 15
          BY <3>3, <3>4, PlaceOfChain, Places
        <5>2. i + 1 = 15 => work.revision = "36c753d31b62"
          BY <3>1, <3>3, ChainFacts
        <5>. QED  BY <3>1, <5>1, <5>2 DEF MInv
      <4>. HIDE DEF i, r
      <4>3. \/ r = "46dff7ed04c2"
            \/ r \in undone \cap LeavesSomething
            \/ r = "a7d42b83e41e" /\ work.rows.nulls # {}
        BY <3>1, <3>3, <3>4, <3>6, <4>1, UpStep
      <4>. QED  BY <3>5, <4>2, <4>3 DEF FailureIsExplained
    <3>7. CASE Upgraded(r, work)[1]
      <4>1. UNCHANGED failed
        BY <2>1, <3>7 DEF Upgrade
      <4>. QED  BY <4>1, <3>5 DEF FailureIsExplained
    <3>. QED  BY <3>6, <3>7
  <2>2. ASSUME failed' = failed, undone \subseteq undone'
        PROVE  FailureIsExplained'
    BY <2>2 DEF FailureIsExplained
  <2>3. CASE Undo
    <3>1. undone' = undone /\ (failed' = failed \/ failed'[1] = "downgrading")
      BY <2>3 DEF Undo, RollBack
    <3>. QED  BY <3>1, <2>2 DEF FailureIsExplained
  <2>4. CASE Upgrade /\ ~RollBack(After(work.revision))
    BY <2>2, <2>4 DEF Upgrade
  <2>5. CASE Commit
    BY <2>2, <2>5 DEF Commit
  <2>6. ASSUME NEW release \in Releases, Deploy(release) PROVE FailureIsExplained'
    BY <2>2, <2>6 DEF Deploy
  <2>7. ASSUME NEW revision \in Releases \cup {Base}, Downgrade(revision)
        PROVE  FailureIsExplained'
    BY <2>2, <2>7 DEF Downgrade
  <2>8. CASE Killed
    BY <2>2, <2>8 DEF Killed
  <2>9. CASE Served
    <3>1. UNCHANGED <<failed, undone>>
      BY <2>9 DEF Served, WriteComponent, WriteJob, WriteJobNull, WriteUserWithoutEmail,
           Write
    <3>. QED  BY <3>1, <2>2
  <2>10. CASE UNCHANGED mvars
    BY <2>2, <2>10 DEF mvars
  <2>11. Next => MNext \/ UNCHANGED mvars
    BY DEF Next, Administer, Request, PostResource, PutResource, CreateSsoUser
  <2>12. UNCHANGED svars => UNCHANGED mvars
    BY DEF svars
  <2>. QED  BY <2>1, <2>3, <2>4, <2>5, <2>6, <2>7, <2>8, <2>9, <2>10, <2>11, <2>12
               DEF MNext
<1>. QED  BY <1>1, <1>2, MigrationsInvariant, PTL DEF Spec

(* An upgrade takes no component from a job, whatever was merged.           *)
THEOREM JobsKeepComponents == Spec => NoJobLosesAComponent
<1>1. ASSUME MInv, [Next]_svars, mode = "upgrading"
      PROVE  Kin(db, db')
  <2>1. Kin(db, db) /\ Kin(db, work)
    BY <1>1, KinSelf DEF MInv
  <2>2. db' = db \/ db' = work \/ db'.rows = db.rows
    <3>1. MNext => db' = db \/ db' = work
      BY <1>1 DEF MNext, Deploy, Downgrade, Upgrade, Undo, RollBack, Commit, Killed,
           Served, Serving
    <3>2. Next => MNext \/ UNCHANGED mvars
      BY DEF Next, Administer, Request, PostResource, PutResource, CreateSsoUser
    <3>3. UNCHANGED svars => UNCHANGED mvars
      BY DEF svars
    <3>. QED  BY <1>1, <3>1, <3>2, <3>3 DEF mvars
  <2>. QED  BY <2>1, <2>2, KinSame
<1>2. MInv /\ [Next]_svars =>
        [mode = "upgrading" =>
           \A pair \in db.rows.attached :
             \E kept \in db'.rows.attached :
               /\ kept[1] = pair[1]
               /\ kept[2] \in Rows(db')
               /\ kept[2] = pair[2]
                  \/ NewKey(Row(db', kept[2])) = NewKey(Filled(Row(db, pair[2])))]_mvars
  BY <1>1 DEF Kin
<1>. QED  BY <1>2, MigrationsInvariant, PTL DEF Spec, NoJobLosesAComponent
-----------------------------------------------------------------------------
(* The values of a request.                                                 *)

(* A body has the fields its schema wants and no other; a null or a value   *)
(* of no enum only where the schema does not look.                          *)
Fitting(endpoint, s, body) ==
  /\ s.required \subseteq DOMAIN body
  /\ DOMAIN body \subseteq Fields(s)
  /\ \A f \in DOMAIN body :
       \/ body[f] = "asked"
       \/ body[f] = "null" /\ f \in s.nullable
       \/ body[f] = "unlisted" /\ f \in Enumerated[TableOf(endpoint)] \ Listed(s)

Sure(values, columns) == \A c \in columns : Given(values, c)
NullIn(values, columns) == \A c \in DOMAIN values : values[c] = "null" => c \in columns
InEnums(values) == \A c \in DOMAIN values : values[c] # "unlisted"

(* The values have no columns but M, those of S are given.                  *)
Covers(values, S, M) ==
  DOMAIN values \subseteq M /\ Sure(values, S) /\ InEnums(values)

(* What a schema makes sure of.                                             *)
Surely(s) == (s.required \cup s.defaulted) \ (s.nullable \cup s.nulled)

(* The bodies of the model are such.                                        *)
LEMMA BodiesFit ==
  ASSUME NEW endpoint, NEW s, NEW body \in Bodies(endpoint, s)
  PROVE  Fitting(endpoint, s, body)
<1>. DEFINE loose(fields) == (Enumerated[TableOf(endpoint)] \cap fields) \ Listed(s)
            others == Fields(s) \ s.required
            Of(o) == LET fields == s.required \cup o
                         plain == [f \in fields |-> "asked"]
                     IN  {plain}
                     \cup {[plain EXCEPT ![f] = "null"] : f \in s.nullable \cap fields}
                           \cup {[plain EXCEPT ![f] = "unlisted"] : f \in loose(fields)}
<1>1. PICK o \in OptionalOf(s) : body \in Of(o)
  BY DEF Bodies
<1>2. o \subseteq others
  BY DEF OptionalOf, kSubset
<1>. DEFINE fields == s.required \cup o
            plain == [f \in fields |-> "asked"]
<1>3. /\ s.required \subseteq fields
      /\ fields \subseteq Fields(s)
  BY <1>2 DEF Fields
<1>4. \/ body = plain
      \/ \E f \in s.nullable \cap fields : body = [plain EXCEPT ![f] = "null"]
      \/ \E f \in loose(fields) : body = [plain EXCEPT ![f] = "unlisted"]
  BY <1>1
<1>5. DOMAIN body = fields
  BY <1>4
<1>6. \A f \in DOMAIN body :
        \/ body[f] = "asked"
        \/ body[f] = "null" /\ f \in s.nullable
        \/ body[f] = "unlisted" /\ f \in Enumerated[TableOf(endpoint)] \ Listed(s)
  BY <1>4, <1>5
<1>. QED  BY <1>3, <1>5, <1>6 DEF Fitting

(* What the schema makes of a body: its fields and those it has a default   *)
(* for.                                                                     *)
LEMMA CleanedIs ==
  ASSUME NEW endpoint, NEW s, NEW body, Fitting(endpoint, s, body)
  PROVE  LET v == Cleaned(s, body)
         IN  /\ DOMAIN v = DOMAIN body \cup s.defaulted \cup s.nulled
             /\ DOMAIN v \subseteq Fields(s)
             /\ Sure(v, Surely(s))
             /\ NullIn(v, s.nullable \cup s.nulled)
<1>. DEFINE v == Cleaned(s, body)
<1>1. DOMAIN v = DOMAIN body \cup s.defaulted \cup s.nulled
  BY DEF Cleaned, Over
<1>2. \A f \in DOMAIN v :
        v[f] = IF f \in DOMAIN body THEN body[f]
               ELSE IF f \in s.defaulted THEN "schema" ELSE "null"
  BY <1>1 DEF Cleaned, Over
<1>. HIDE DEF v
<1>3. DOMAIN v \subseteq Fields(s)
  BY <1>1 DEF Fitting, Fields
<1>4. NullIn(v, s.nullable \cup s.nulled)
  BY <1>1, <1>2 DEF Fitting, NullIn
<1>5. Sure(v, Surely(s))
  BY <1>1, <1>4 DEF Fitting, NullIn, Sure, Given, Surely
<1>. QED  BY <1>1, <1>3, <1>4, <1>5 DEF v

(* A field the body gives stays given.                                      *)
LEMMA CleanedKeeps ==
  ASSUME NEW s, NEW body, NEW f, Given(body, f)
  PROVE  Given(Cleaned(s, body), f)
<1>1. f \in DOMAIN Cleaned(s, body) /\ Cleaned(s, body)[f] = body[f]
  BY DEF Given, Cleaned, Over
<1>. QED  BY <1>1 DEF Given

(* Where the schema checks all enums, no value is unlisted.                 *)
LEMMA CleanedInEnums ==
  ASSUME NEW endpoint, NEW s, NEW body, Fitting(endpoint, s, body),
         Enumerated[TableOf(endpoint)] \cap Fields(s) \subseteq Listed(s)
  PROVE  InEnums(Cleaned(s, body))
<1>1. DOMAIN Cleaned(s, body) = DOMAIN body \cup s.defaulted \cup s.nulled
  BY DEF Cleaned, Over
<1>2. \A f \in DOMAIN Cleaned(s, body) :
        Cleaned(s, body)[f] = IF f \in DOMAIN body THEN body[f]
               ELSE IF f \in s.defaulted THEN "schema" ELSE "null"
  BY <1>1 DEF Cleaned, Over
<1>3. \A f \in DOMAIN body : body[f] # "unlisted"
  BY DEF Fitting
<1>. QED  BY <1>1, <1>2, <1>3 DEF InEnums

(* So the cleaned body holds what the schema makes sure of.                 *)
LEMMA CleanedCovers ==
  ASSUME NEW endpoint, NEW s, NEW body, Fitting(endpoint, s, body),
         Enumerated[TableOf(endpoint)] \cap Fields(s) \subseteq Listed(s)
  PROVE  Covers(Cleaned(s, body), Surely(s), Fields(s))
BY CleanedIs, CleanedInEnums DEF Covers

(* To give columns a value.                                                 *)
LEMMA GiveIs ==
  ASSUME NEW v, NEW C, NEW x
  PROVE  /\ DOMAIN Give(v, C, x) = DOMAIN v \cup C
         /\ \A c \in DOMAIN v \cup C : Give(v, C, x)[c] = IF c \in C THEN x ELSE v[c]
BY DEF Give

(* What is sure then: the columns that were, and those given.               *)
LEMMA GiveServer ==
  ASSUME NEW v, NEW C, NEW S, NEW M, Covers(v, S, M)
  PROVE  Covers(Give(v, C, "server"), S \cup C, M \cup C)
<1>. DEFINE w == Give(v, C, "server")
<1>1. DOMAIN w = DOMAIN v \cup C
  BY GiveIs
<1>2. \A c \in DOMAIN v \cup C : w[c] = IF c \in C THEN "server" ELSE v[c]
  BY GiveIs
<1>. HIDE DEF w
<1>3. DOMAIN w \subseteq M \cup C
  BY <1>1 DEF Covers
<1>4. Sure(w, S \cup C)
  BY <1>1, <1>2 DEF Covers, Sure, Given
<1>5. InEnums(w)
  BY <1>1, <1>2 DEF Covers, InEnums
<1>. QED  BY <1>3, <1>4, <1>5 DEF w, Covers

(* A header that may be missing is not sure.                                *)
LEMMA GiveHeaders ==
  ASSUME NEW v, NEW C, NEW x \in {"server", "null"}, NEW S, NEW M,
         Covers(v, S, M)
  PROVE  Covers(Give(v, C, x), S \ C, M \cup C)
<1>. DEFINE w == Give(v, C, x)
<1>1. DOMAIN w = DOMAIN v \cup C
  BY GiveIs
<1>2. \A c \in DOMAIN v \cup C : w[c] = IF c \in C THEN x ELSE v[c]
  BY GiveIs
<1>. HIDE DEF w
<1>3. DOMAIN w \subseteq M \cup C
  BY <1>1 DEF Covers
<1>4. Sure(w, S \ C)
  BY <1>1, <1>2 DEF Covers, Sure, Given
<1>5. InEnums(w)
  BY <1>1, <1>2 DEF Covers, InEnums
<1>. QED  BY <1>3, <1>4, <1>5 DEF w, Covers

(* A fallback makes its columns sure.                                       *)
LEMMA FallbackServer ==
  ASSUME NEW v, NEW C, NEW S, NEW M, Covers(v, S, M)
  PROVE  Covers(Fallback(v, C, "server"), S \cup C, M \cup C)
<1>. DEFINE D == {c \in C : ~Given(v, c)}
            w == Give(v, D, "server")
<1>1. /\ DOMAIN w \subseteq M \cup D
      /\ Sure(w, S \cup D)
      /\ InEnums(w)
  BY GiveServer DEF Covers
<1>2. /\ DOMAIN w = DOMAIN v \cup D
      /\ \A c \in DOMAIN v \cup D : w[c] = IF c \in D THEN "server" ELSE v[c]
  BY GiveIs
<1>3. Fallback(v, C, "server") = w
  BY DEF Fallback
<1>4. \A c \in C \ D : Given(v, c)
  OBVIOUS
<1>. HIDE DEF w, D
<1>5. \A c \in C \ D : Given(w, c)
  BY <1>2, <1>4 DEF Given
<1>6. Sure(w, S \cup C)
  BY <1>1, <1>5 DEF Sure
<1>7. DOMAIN w \subseteq M \cup C
  BY <1>1 DEF D
<1>. QED  BY <1>1, <1>3, <1>6, <1>7 DEF Covers

(* A fallback to None changes no column that is given.                      *)
LEMMA FallbackNull ==
  ASSUME NEW v, NEW C, NEW S, NEW M, Covers(v, S, M)
  PROVE  Covers(Fallback(v, C, "null"), S, M \cup C)
<1>. DEFINE D == {c \in C : ~Given(v, c)}
            w == Give(v, D, "null")
<1>1. /\ DOMAIN w = DOMAIN v \cup D
      /\ \A c \in DOMAIN v \cup D : w[c] = IF c \in D THEN "null" ELSE v[c]
  BY GiveIs
<1>2. Fallback(v, C, "null") = w
  BY DEF Fallback
<1>3. D \subseteq C /\ \A c \in D : ~Given(v, c)
  OBVIOUS
<1>. HIDE DEF w, D
<1>4. DOMAIN w \subseteq M \cup C
  BY <1>1, <1>3 DEF Covers
<1>5. \A c \in S : c \in DOMAIN w /\ w[c] # "null"
  BY <1>1, <1>3 DEF Covers, Sure, Given
<1>6. InEnums(w)
  BY <1>1 DEF Covers, InEnums
<1>. QED  BY <1>2, <1>4, <1>5, <1>6 DEF Covers, Sure, Given

(* Without some columns.                                                    *)
LEMMA WithoutIs ==
  ASSUME NEW v, NEW C, NEW S, NEW M, Covers(v, S, M)
  PROVE  Covers(Without(v, C), S \ C, M \ C)
BY DEF Covers, Without, Sure, Given, InEnums

(* The stamps.                                                              *)
LEMMA StampedCovers ==
  ASSUME NEW v, NEW S, NEW M, Covers(v, S, M)
  PROVE  Covers(common_values_dict(v), S \cup Stamps, M \cup Stamps)
BY GiveServer DEF common_values_dict

-----------------------------------------------------------------------------
(* The rows of a POST.                                                      *)

(* The columns of a table with a default, and those of them that an answer  *)
(* need not show.                                                           *)
HasDefault(t) ==
  Defaults[t] \cup (IF t \in DOMAIN ServerDefaults THEN ServerDefaults[t] ELSE {})
Unshown(t) == IF t \in DOMAIN LeftToOrm THEN LeftToOrm[t] ELSE {}

(* Values whose row is the one answered, and which the table takes.         *)
Shows(t, v) == Sure(v, (Columns(Declared[t]) \cap HasDefault(t)) \ Unshown(t))
Takes(t, v) ==
  /\ DOMAIN v \subseteq Columns(Declared[t])
  /\ Sure(v, Declared[t].required \ HasDefault(t))
  /\ InEnums(v)

(* Columns that a table has, wants and fills.                               *)
LEMMA CoversTakes ==
  ASSUME NEW t, NEW v, NEW S, NEW M, Covers(v, S, M),
         M \subseteq Columns(Declared[t]),
         Declared[t].required \ HasDefault(t) \subseteq S,
         (Columns(Declared[t]) \cap HasDefault(t)) \ Unshown(t) \subseteq S
  PROVE  Takes(t, v) /\ Shows(t, v)
<1>1. \A A : A \subseteq S => Sure(v, A)
  BY DEF Covers, Sure
<1>. QED  BY <1>1 DEF Covers, Takes, Shows

(* The columns with a list of values.                                       *)
LEMMA EnumsAre ==
  /\ \A t \in {"users", "teams", "topics", "remotecis", "products", "feeders",
                "pipelines", "components", "jobs_keys_values"} : Enumerated[t] = {"state"}
  /\ Enumerated["jobs"] = {"state", "status"}
BY DEF Enumerated, Over, Declared

(* Each schema lists its states, that of an update of a job the statuses.   *)
LEMMA ListedAre ==
  /\ \A s : "state" \in Listed(s)
  /\ Listed(update_job_schema) = {"state", "status"}
BY DEF Listed

Internal ==
  Stamps \cup {"status", "remoteci_id", "team_id", "product_id", "duration"}

(* A POST of a user.                                                        *)
LEMMA PostUsers ==
  ASSUME NEW body,
         Fitting("users", create_user_schema, body)
  PROVE  LET v == create_users(Cleaned(create_user_schema, body))
         IN  Takes("users", v) /\ Shows("users", v)
<1>. DEFINE s == create_user_schema
            v == Cleaned(s, body)
            v1 == Fallback(v, {"name", "fullname", "timezone"}, "server")
            v2 == Fallback(v1, {"password"}, "null")
            v3 == common_values_dict(v2)
            S == Surely(s)
            M == Fields(s)
            S1 == S \cup {"name", "fullname", "timezone"}
            M1 == M \cup {"name", "fullname", "timezone"}
            S2 == S1
            M2 == M1 \cup {"password"}
            S3 == S2 \cup Stamps
            M3 == M2 \cup Stamps
<1>. HIDE DEF v, v1, v2, v3, S, M, S1, M1, S2, M2, S3, M3
<1>1. Enumerated[TableOf("users")] \cap Fields(s) \subseteq Listed(s)
  BY EnumsAre, ListedAre DEF TableOf, Fields, Schema, create_user_schema
<1>2. Covers(v, S, M)
  BY <1>1, CleanedCovers DEF v, S, M
<1>3. Covers(v1, S1, M1)
  BY <1>2, FallbackServer DEF v1, S1, M1
<1>4. Covers(v2, S2, M2)
  BY <1>3, FallbackNull DEF v2, S2, M2
<1>5. Covers(v3, S3, M3)
  BY <1>4, StampedCovers DEF v3, S3, M3
<1>. USE DEF S, M, S1, M1, S2, M2, S3, M3,
             Surely, Fields, Schema, create_user_schema, Columns, Declared, User, Table,
             Stamps
<1>6. M3 \subseteq Columns(Declared["users"])
  OBVIOUS
<1>7. Declared["users"].required \ HasDefault("users") \subseteq S3
  BY DEF HasDefault, Defaults, ServerDefaults, StampedState
<1>8. (Columns(Declared["users"]) \cap HasDefault("users"))
        \ Unshown("users") \subseteq S3
  BY DEF HasDefault, Defaults, ServerDefaults, StampedState, Unshown, LeftToOrm
<1>. HIDE DEF S, M, S1, M1, S2, M2, S3, M3
<1>9. create_users(v) = v3
  BY DEF v, v1, v2, v3, create_users
<1>. QED  BY <1>5, <1>6, <1>7, <1>8, <1>9, CoversTakes DEF v

(* A POST of a team.                                                        *)
LEMMA PostTeams ==
  ASSUME NEW body,
         Fitting("teams", create_team_schema, body)
  PROVE  LET v == common_values_dict(Cleaned(create_team_schema, body))
         IN  Takes("teams", v) /\ Shows("teams", v)
<1>. DEFINE s == create_team_schema
            v == Cleaned(s, body)
            v1 == common_values_dict(v)
            S == Surely(s)
            M == Fields(s)
            S1 == S \cup Stamps
            M1 == M \cup Stamps
<1>. HIDE DEF v, v1, S, M, S1, M1
<1>1. Enumerated[TableOf("teams")] \cap Fields(s) \subseteq Listed(s)
  BY EnumsAre, ListedAre DEF TableOf, Fields, Schema, create_team_schema
<1>2. Covers(v, S, M)
  BY <1>1, CleanedCovers DEF v, S, M
<1>3. Covers(v1, S1, M1)
  BY <1>2, StampedCovers DEF v1, S1, M1
<1>. USE DEF S, M, S1, M1,
             Surely, Fields, Schema, create_team_schema, Columns, Declared, Team, Table,
             Stamps
<1>4. M1 \subseteq Columns(Declared["teams"])
  OBVIOUS
<1>5. Declared["teams"].required \ HasDefault("teams") \subseteq S1
  BY DEF HasDefault, Defaults, ServerDefaults, StampedState
<1>6. (Columns(Declared["teams"]) \cap HasDefault("teams"))
        \ Unshown("teams") \subseteq S1
  BY DEF HasDefault, Defaults, ServerDefaults, StampedState, Unshown, LeftToOrm
<1>. HIDE DEF S, M, S1, M1
<1>7. common_values_dict(v) = v1
  BY DEF v, v1, common_values_dict
<1>. QED  BY <1>3, <1>4, <1>5, <1>6, <1>7, CoversTakes DEF v

(* A POST of a topic.                                                       *)
LEMMA PostTopics ==
  ASSUME NEW body,
         Fitting("topics", create_topic_schema, body)
  PROVE  LET v == common_values_dict(Cleaned(create_topic_schema, body))
         IN  Takes("topics", v) /\ Shows("topics", v)
<1>. DEFINE s == create_topic_schema
            v == Cleaned(s, body)
            v1 == common_values_dict(v)
            S == Surely(s)
            M == Fields(s)
            S1 == S \cup Stamps
            M1 == M \cup Stamps
<1>. HIDE DEF v, v1, S, M, S1, M1
<1>1. Enumerated[TableOf("topics")] \cap Fields(s) \subseteq Listed(s)
  BY EnumsAre, ListedAre DEF TableOf, Fields, Schema, create_topic_schema
<1>2. Covers(v, S, M)
  BY <1>1, CleanedCovers DEF v, S, M
<1>3. Covers(v1, S1, M1)
  BY <1>2, StampedCovers DEF v1, S1, M1
<1>. USE DEF S, M, S1, M1,
             Surely, Fields, Schema, create_topic_schema, Columns, Declared, Topic,
             Table, Stamps
<1>4. M1 \subseteq Columns(Declared["topics"])
  OBVIOUS
<1>5. Declared["topics"].required \ HasDefault("topics") \subseteq S1
  BY DEF HasDefault, Defaults, ServerDefaults, StampedState
<1>6. (Columns(Declared["topics"]) \cap HasDefault("topics"))
        \ Unshown("topics") \subseteq S1
  BY DEF HasDefault, Defaults, ServerDefaults, StampedState, Unshown, LeftToOrm
<1>. HIDE DEF S, M, S1, M1
<1>7. common_values_dict(v) = v1
  BY DEF v, v1, common_values_dict
<1>. QED  BY <1>3, <1>4, <1>5, <1>6, <1>7, CoversTakes DEF v

(* A POST of a remoteci.                                                    *)
LEMMA PostRemotecis ==
  ASSUME NEW body,
         Fitting("remotecis", create_remoteci_schema, body)
  PROVE  LET v == create_remotecis(Cleaned(create_remoteci_schema, body))
         IN  Takes("remotecis", v) /\ Shows("remotecis", v)
<1>. DEFINE s == create_remoteci_schema
            v == Cleaned(s, body)
            v1 == Give(v, {"api_secret"}, "server")
            v2 == common_values_dict(v1)
            S == Surely(s)
            M == Fields(s)
            S1 == S \cup {"api_secret"}
            M1 == M \cup {"api_secret"}
            S2 == S1 \cup Stamps
            M2 == M1 \cup Stamps
<1>. HIDE DEF v, v1, v2, S, M, S1, M1, S2, M2
<1>1. Enumerated[TableOf("remotecis")] \cap Fields(s) \subseteq Listed(s)
  BY EnumsAre, ListedAre DEF TableOf, Fields, Schema, create_remoteci_schema
<1>2. Covers(v, S, M)
  BY <1>1, CleanedCovers DEF v, S, M
<1>3. Covers(v1, S1, M1)
  BY <1>2, GiveServer DEF v1, S1, M1
<1>4. Covers(v2, S2, M2)
  BY <1>3, StampedCovers DEF v2, S2, M2
<1>. USE DEF S, M, S1, M1, S2, M2,
             Surely, Fields, Schema, create_remoteci_schema, Columns, Declared, Remoteci,
             Table, Stamps
<1>5. M2 \subseteq Columns(Declared["remotecis"])
  OBVIOUS
<1>6. Declared["remotecis"].required \ HasDefault("remotecis") \subseteq S2
  BY DEF HasDefault, Defaults, ServerDefaults, StampedState
<1>7. (Columns(Declared["remotecis"]) \cap HasDefault("remotecis"))
        \ Unshown("remotecis") \subseteq S2
  BY DEF HasDefault, Defaults, ServerDefaults, StampedState, Unshown, LeftToOrm
<1>. HIDE DEF S, M, S1, M1, S2, M2
<1>8. create_remotecis(v) = v2
  BY DEF v, v1, v2, create_remotecis
<1>. QED  BY <1>4, <1>5, <1>6, <1>7, <1>8, CoversTakes DEF v

(* A POST of a product.                                                     *)
LEMMA PostProducts ==
  ASSUME NEW body,
         Fitting("products", create_product_schema, body)
  PROVE  LET v == create_product(Cleaned(create_product_schema, body))
         IN  Takes("products", v) /\ Shows("products", v)
<1>. DEFINE s == create_product_schema
            v == Cleaned(s, body)
            v1 == Fallback(v, {"label"}, "server")
            v2 == common_values_dict(v1)
            S == Surely(s)
            M == Fields(s)
            S1 == S \cup {"label"}
            M1 == M \cup {"label"}
            S2 == S1 \cup Stamps
            M2 == M1 \cup Stamps
<1>. HIDE DEF v, v1, v2, S, M, S1, M1, S2, M2
<1>1. Enumerated[TableOf("products")] \cap Fields(s) \subseteq Listed(s)
  BY EnumsAre, ListedAre DEF TableOf, Fields, Schema, create_product_schema
<1>2. Covers(v, S, M)
  BY <1>1, CleanedCovers DEF v, S, M
<1>3. Covers(v1, S1, M1)
  BY <1>2, FallbackServer DEF v1, S1, M1
<1>4. Covers(v2, S2, M2)
  BY <1>3, StampedCovers DEF v2, S2, M2
<1>. USE DEF S, M, S1, M1, S2, M2,
             Surely, Fields, Schema, create_product_schema, Columns, Declared, Product,
             Table, Stamps
<1>5. M2 \subseteq Columns(Declared["products"])
  OBVIOUS
<1>6. Declared["products"].required \ HasDefault("products") \subseteq S2
  BY DEF HasDefault, Defaults, ServerDefaults, StampedState
<1>7. (Columns(Declared["products"]) \cap HasDefault("products"))
        \ Unshown("products") \subseteq S2
  BY DEF HasDefault, Defaults, ServerDefaults, StampedState, Unshown, LeftToOrm
<1>. HIDE DEF S, M, S1, M1, S2, M2
<1>8. create_product(v) = v2
  BY DEF v, v1, v2, create_product
<1>. QED  BY <1>4, <1>5, <1>6, <1>7, <1>8, CoversTakes DEF v

(* A POST of a feeder.                                                      *)
LEMMA PostFeeders ==
  ASSUME NEW body,
         Fitting("feeders", create_feeder_schema, body)
  PROVE  LET v == create_feeders(Cleaned(create_feeder_schema, body))
         IN  Takes("feeders", v) /\ Shows("feeders", v)
<1>. DEFINE s == create_feeder_schema
            v == Cleaned(s, body)
            v1 == Give(v, {"api_secret"}, "server")
            v2 == common_values_dict(v1)
            S == Surely(s)
            M == Fields(s)
            S1 == S \cup {"api_secret"}
            M1 == M \cup {"api_secret"}
            S2 == S1 \cup Stamps
            M2 == M1 \cup Stamps
<1>. HIDE DEF v, v1, v2, S, M, S1, M1, S2, M2
<1>1. Enumerated[TableOf("feeders")] \cap Fields(s) \subseteq Listed(s)
  BY EnumsAre, ListedAre DEF TableOf, Fields, Schema, create_feeder_schema
<1>2. Covers(v, S, M)
  BY <1>1, CleanedCovers DEF v, S, M
<1>3. Covers(v1, S1, M1)
  BY <1>2, GiveServer DEF v1, S1, M1
<1>4. Covers(v2, S2, M2)
  BY <1>3, StampedCovers DEF v2, S2, M2
<1>. USE DEF S, M, S1, M1, S2, M2,
             Surely, Fields, Schema, create_feeder_schema, Columns, Declared, Feeder,
             Table, Stamps
<1>5. M2 \subseteq Columns(Declared["feeders"])
  OBVIOUS
<1>6. Declared["feeders"].required \ HasDefault("feeders") \subseteq S2
  BY DEF HasDefault, Defaults, ServerDefaults, StampedState
<1>7. (Columns(Declared["feeders"]) \cap HasDefault("feeders"))
        \ Unshown("feeders") \subseteq S2
  BY DEF HasDefault, Defaults, ServerDefaults, StampedState, Unshown, LeftToOrm
<1>. HIDE DEF S, M, S1, M1, S2, M2
<1>8. create_feeders(v) = v2
  BY DEF v, v1, v2, create_feeders
<1>. QED  BY <1>4, <1>5, <1>6, <1>7, <1>8, CoversTakes DEF v

(* A POST of a pipeline.                                                    *)
LEMMA PostPipelines ==
  ASSUME NEW body,
         Fitting("pipelines", create_pipeline_schema, body)
  PROVE  LET v == common_values_dict(Cleaned(create_pipeline_schema, body))
         IN  Takes("pipelines", v) /\ Shows("pipelines", v)
<1>. DEFINE s == create_pipeline_schema
            v == Cleaned(s, body)
            v1 == common_values_dict(v)
            S == Surely(s)
            M == Fields(s)
            S1 == S \cup Stamps
            M1 == M \cup Stamps
<1>. HIDE DEF v, v1, S, M, S1, M1
<1>1. Enumerated[TableOf("pipelines")] \cap Fields(s) \subseteq Listed(s)
  BY EnumsAre, ListedAre DEF TableOf, Fields, Schema, create_pipeline_schema
<1>2. Covers(v, S, M)
  BY <1>1, CleanedCovers DEF v, S, M
<1>3. Covers(v1, S1, M1)
  BY <1>2, StampedCovers DEF v1, S1, M1
<1>. USE DEF S, M, S1, M1,
             Surely, Fields, Schema, create_pipeline_schema, Columns, Declared, Pipeline,
             Table, Stamps
<1>4. M1 \subseteq Columns(Declared["pipelines"])
  OBVIOUS
<1>5. Declared["pipelines"].required \ HasDefault("pipelines") \subseteq S1
  BY DEF HasDefault, Defaults, ServerDefaults, StampedState
<1>6. (Columns(Declared["pipelines"]) \cap HasDefault("pipelines"))
        \ Unshown("pipelines") \subseteq S1
  BY DEF HasDefault, Defaults, ServerDefaults, StampedState, Unshown, LeftToOrm
<1>. HIDE DEF S, M, S1, M1
<1>7. common_values_dict(v) = v1
  BY DEF v, v1, common_values_dict
<1>. QED  BY <1>3, <1>4, <1>5, <1>6, <1>7, CoversTakes DEF v

(* A POST of a component.                                                   *)
LEMMA PostComponents ==
  ASSUME NEW body,
         Fitting("components", create_component_schema, body)
  PROVE  LET v == create_components(Cleaned(create_component_schema, body))
         IN  Takes("components", v) /\ Shows("components", v)
<1>. DEFINE s == create_component_schema
            v == Cleaned(s, body)
            v1 == Fallback(v, {"name", "display_name", "version", "uid"}, "server")
            v2 == common_values_dict(v1)
            S == Surely(s)
            M == Fields(s)
            S1 == S \cup {"name", "display_name", "version", "uid"}
            M1 == M \cup {"name", "display_name", "version", "uid"}
            S2 == S1 \cup Stamps
            M2 == M1 \cup Stamps
<1>. HIDE DEF v, v1, v2, S, M, S1, M1, S2, M2
<1>1. Enumerated[TableOf("components")] \cap Fields(s) \subseteq Listed(s)
  BY EnumsAre, ListedAre DEF TableOf, Fields, Schema, create_component_schema
<1>2. Covers(v, S, M)
  BY <1>1, CleanedCovers DEF v, S, M
<1>3. Covers(v1, S1, M1)
  BY <1>2, FallbackServer DEF v1, S1, M1
<1>4. Covers(v2, S2, M2)
  BY <1>3, StampedCovers DEF v2, S2, M2
<1>. USE DEF S, M, S1, M1, S2, M2,
             Surely, Fields, Schema, create_component_schema, Columns, Declared,
             Component, Table, Stamps
<1>5. M2 \subseteq Columns(Declared["components"])
  OBVIOUS
<1>6. Declared["components"].required \ HasDefault("components") \subseteq S2
  BY DEF HasDefault, Defaults, ServerDefaults, StampedState
<1>7. (Columns(Declared["components"]) \cap HasDefault("components"))
        \ Unshown("components") \subseteq S2
  BY DEF HasDefault, Defaults, ServerDefaults, StampedState, Unshown, LeftToOrm
<1>. HIDE DEF S, M, S1, M1, S2, M2
<1>8. create_components(v) = v2
  BY DEF v, v1, v2, create_components
<1>. QED  BY <1>4, <1>5, <1>6, <1>7, <1>8, CoversTakes DEF v

(* A POST of a job.                                                         *)
LEMMA PostJobs ==
  ASSUME NEW headers \in {"server", "null"}, NEW body,
         Given(body, "topic_id"),
         Fitting("jobs", create_job_schema, body)
  PROVE  LET v == create_jobs(Cleaned(create_job_schema, body), headers)
         IN  Takes("jobs", v) /\ Shows("jobs", v)
<1>. DEFINE s == create_job_schema
            v == Cleaned(s, body)
            v1 == Without(v, {"components"})
            v2 == common_values_dict(v1)
            v3 == Give(v2, Internal, "server")
            v4 == Give(v3, {"user_agent", "client_version"}, headers)
            S == Surely(s) \cup {"topic_id"}
            M == Fields(s)
            S1 == S \ {"components"}
            M1 == M \ {"components"}
            S2 == S1 \cup Stamps
            M2 == M1 \cup Stamps
            S3 == S2 \cup Internal
            M3 == M2 \cup Internal
            S4 == S3 \ {"user_agent", "client_version"}
            M4 == M3 \cup {"user_agent", "client_version"}
<1>. HIDE DEF v, v1, v2, v3, v4, S, M, S1, M1, S2, M2, S3, M3, S4, M4
<1>1. Enumerated[TableOf("jobs")] \cap Fields(s) \subseteq Listed(s)
  BY EnumsAre, ListedAre DEF TableOf, Fields, Schema, create_job_schema
<1>2. Covers(v, S, M)
  <2>1. Covers(v, Surely(s), M) /\ Given(v, "topic_id")
    BY <1>1, CleanedCovers, CleanedKeeps DEF v, M
  <2>. QED  BY <2>1 DEF Covers, Sure, S
<1>3. Covers(v1, S1, M1)
  BY <1>2, WithoutIs DEF v1, S1, M1
<1>4. Covers(v2, S2, M2)
  BY <1>3, StampedCovers DEF v2, S2, M2
<1>5. Covers(v3, S3, M3)
  BY <1>4, GiveServer DEF v3, S3, M3
<1>6. Covers(v4, S4, M4)
  BY <1>5, GiveHeaders DEF v4, S4, M4
<1>. USE DEF S, M, S1, M1, S2, M2, S3, M3, S4, M4, Internal,
             Surely, Fields, Schema, create_job_schema, Columns, Declared, Job, Table,
             Stamps
<1>7. M4 \subseteq Columns(Declared["jobs"])
  OBVIOUS
<1>8. Declared["jobs"].required \ HasDefault("jobs") \subseteq S4
  BY DEF HasDefault, Defaults, ServerDefaults, StampedState
<1>9. (Columns(Declared["jobs"]) \cap HasDefault("jobs"))
        \ Unshown("jobs") \subseteq S4
  BY DEF HasDefault, Defaults, ServerDefaults, StampedState, Unshown, LeftToOrm
<1>. HIDE DEF S, M, S1, M1, S2, M2, S3, M3, S4, M4
<1>10. create_jobs(v, headers) = v4
  BY DEF v, v1, v2, v3, v4, create_jobs, internal_create_jobs, Internal
<1>. QED  BY <1>6, <1>7, <1>8, <1>9, <1>10, CoversTakes DEF v

(* A POST of a scheduled job.                                               *)
LEMMA PostSchedule ==
  ASSUME NEW headers \in {"server", "null"}, NEW body,
         Fitting("schedule", schedule_job_schema, body)
  PROVE  LET v == schedule_jobs(Cleaned(schedule_job_schema, body), headers)
         IN  Takes("jobs", v) /\ Shows("jobs", v)
<1>. DEFINE s == schedule_job_schema
            v == Cleaned(s, body)
            v1 == Without(v, {"components_ids"})
            v2 == Give(v1, Internal, "server")
            v3 == Give(v2, {"user_agent", "client_version"}, headers)
            v4 == Give(v3, {"product_id", "topic_id", "team_id"}, "server")
            S == Surely(s)
            M == Fields(s)
            S1 == S \ {"components_ids"}
            M1 == M \ {"components_ids"}
            S2 == S1 \cup Internal
            M2 == M1 \cup Internal
            S3 == S2 \ {"user_agent", "client_version"}
            M3 == M2 \cup {"user_agent", "client_version"}
            S4 == S3 \cup {"product_id", "topic_id", "team_id"}
            M4 == M3 \cup {"product_id", "topic_id", "team_id"}
<1>. HIDE DEF v, v1, v2, v3, v4, S, M, S1, M1, S2, M2, S3, M3, S4, M4
<1>1. Enumerated[TableOf("schedule")] \cap Fields(s) \subseteq Listed(s)
  BY EnumsAre, ListedAre DEF TableOf, Fields, Schema, schedule_job_schema
<1>2. Covers(v, S, M)
  BY <1>1, CleanedCovers DEF v, S, M
<1>3. Covers(v1, S1, M1)
  BY <1>2, WithoutIs DEF v1, S1, M1
<1>4. Covers(v2, S2, M2)
  BY <1>3, GiveServer DEF v2, S2, M2
<1>5. Covers(v3, S3, M3)
  BY <1>4, GiveHeaders DEF v3, S3, M3
<1>6. Covers(v4, S4, M4)
  BY <1>5, GiveServer DEF v4, S4, M4
<1>. USE DEF S, M, S1, M1, S2, M2, S3, M3, S4, M4, Internal,
             Surely, Fields, Schema, schedule_job_schema, Columns, Declared, Job, Table,
             Stamps
<1>7. M4 \subseteq Columns(Declared["jobs"])
  OBVIOUS
<1>8. Declared["jobs"].required \ HasDefault("jobs") \subseteq S4
  BY DEF HasDefault, Defaults, ServerDefaults, StampedState
<1>9. (Columns(Declared["jobs"]) \cap HasDefault("jobs"))
        \ Unshown("jobs") \subseteq S4
  BY DEF HasDefault, Defaults, ServerDefaults, StampedState, Unshown, LeftToOrm
<1>. HIDE DEF S, M, S1, M1, S2, M2, S3, M3, S4, M4
<1>10. schedule_jobs(v, headers) = v4
  BY DEF v, v1, v2, v3, v4, internal_create_jobs, schedule_jobs, Internal
<1>. QED  BY <1>6, <1>7, <1>8, <1>9, <1>10, CoversTakes DEF v

(* A POST of a key value of a job.                                          *)
LEMMA PostKv ==
  ASSUME NEW body,
         Fitting("kv", create_job_kv_schema, body)
  PROVE  LET v == add_kv_to_job(Cleaned(create_job_kv_schema, body))
         IN  Takes("jobs_keys_values", v) /\ Shows("jobs_keys_values", v)
<1>. DEFINE s == create_job_kv_schema
            v == Cleaned(s, body)
            v1 == Give(v, {"job_id"}, "server")
            S == Surely(s)
            M == Fields(s)
            S1 == S \cup {"job_id"}
            M1 == M \cup {"job_id"}
<1>. HIDE DEF v, v1, S, M, S1, M1
<1>1. Enumerated[TableOf("kv")] \cap Fields(s) \subseteq Listed(s)
  BY EnumsAre, ListedAre DEF TableOf, Fields, Schema, create_job_kv_schema
<1>2. Covers(v, S, M)
  BY <1>1, CleanedCovers DEF v, S, M
<1>3. Covers(v1, S1, M1)
  BY <1>2, GiveServer DEF v1, S1, M1
<1>. USE DEF S, M, S1, M1,
             Surely, Fields, Schema, create_job_kv_schema, Columns, Declared,
             JobKeyValue, Table, Stamps
<1>4. M1 \subseteq Columns(Declared["jobs_keys_values"])
  OBVIOUS
<1>5. Declared["jobs_keys_values"].required \ HasDefault("jobs_keys_values") \subseteq S1
  BY DEF HasDefault, Defaults, ServerDefaults, StampedState
<1>6. (Columns(Declared["jobs_keys_values"]) \cap HasDefault("jobs_keys_values"))
        \ Unshown("jobs_keys_values") \subseteq S1
  BY DEF HasDefault, Defaults, ServerDefaults, StampedState, Unshown, LeftToOrm
<1>. HIDE DEF S, M, S1, M1
<1>7. add_kv_to_job(v) = v1
  BY DEF v, v1, add_kv_to_job
<1>. QED  BY <1>3, <1>4, <1>5, <1>6, <1>7, CoversTakes DEF v

(* A POST of a jobstate: what is stored is shown.                           *)
LEMMA PostJobstates ==
  ASSUME NEW values
  PROVE  Shows("jobstates", insert_jobstate(values))
<1>. DEFINE given == [c \in {"job_id", "status"} |-> values[c]]
            v == Give(given, {"id", "created_at"}, "server")
<1>. HIDE DEF given
<1>1. \A c \in {"id", "created_at"} : c \in DOMAIN v /\ v[c] = "server"
  BY DEF Give
<1>2. insert_jobstate(values) = v
  BY DEF insert_jobstate, given
<1>3. HasDefault("jobstates") = {"id", "created_at"}
  BY DEF HasDefault, Defaults, ServerDefaults
<1>. HIDE DEF v
<1>. QED  BY <1>1, <1>2, <1>3 DEF Shows, Sure, Given

(* What a POST makes of a body, for every resource.                         *)
LEMMA PostTakes ==
  ASSUME NEW endpoint \in DOMAIN Post, NEW body \in Bodies(endpoint, Post[endpoint]),
         NEW headers \in {"server", "null"}, Accepted(endpoint, body)
  PROVE  LET v == Created201(endpoint, Cleaned(Post[endpoint], body), headers)
         IN  /\ TableOf(endpoint) \in DOMAIN Declared
             /\ endpoint # "jobstates" => Takes(TableOf(endpoint), v)
             /\ Shows(TableOf(endpoint), v)
<1>. DEFINE v == Created201(endpoint, Cleaned(Post[endpoint], body), headers)
<1>1. Fitting(endpoint, Post[endpoint], body)
  BY BodiesFit
<1>2. CASE endpoint = "users"
  BY <1>1, <1>2, PostUsers DEF Post, TableOf, Created201, Declared
<1>3. CASE endpoint = "teams"
  BY <1>1, <1>3, PostTeams DEF Post, TableOf, Created201, Declared
<1>4. CASE endpoint = "topics"
  BY <1>1, <1>4, PostTopics DEF Post, TableOf, Created201, Declared
<1>5. CASE endpoint = "remotecis"
  BY <1>1, <1>5, PostRemotecis DEF Post, TableOf, Created201, Declared
<1>6. CASE endpoint = "products"
  BY <1>1, <1>6, PostProducts DEF Post, TableOf, Created201, Declared
<1>7. CASE endpoint = "feeders"
  BY <1>1, <1>7, PostFeeders DEF Post, TableOf, Created201, Declared
<1>8. CASE endpoint = "pipelines"
  BY <1>1, <1>8, PostPipelines DEF Post, TableOf, Created201, Declared
<1>9. CASE endpoint = "components"
  BY <1>1, <1>9, PostComponents DEF Post, TableOf, Created201, Declared
<1>10. CASE endpoint = "jobs"
  BY <1>1, <1>10, PostJobs DEF Post, TableOf, Created201, Declared, Accepted
<1>11. CASE endpoint = "schedule"
  BY <1>1, <1>11, PostSchedule DEF Post, TableOf, Created201, Declared
<1>12. CASE endpoint = "kv"
  BY <1>1, <1>12, PostKv DEF Post, TableOf, Created201, Declared
<1>13. CASE endpoint = "jobstates"
  BY <1>13, PostJobstates DEF TableOf, Created201, Declared
<1>14. DOMAIN Post = {"users", "teams", "topics", "remotecis", "products", "feeders",
                      "pipelines", "components", "jobs", "schedule", "kv", "jobstates"}
  BY DEF Post
<1>. QED
  BY <1>2, <1>3, <1>4, <1>5, <1>6, <1>7, <1>8, <1>9, <1>10, <1>11, <1>12, <1>13, <1>14

-----------------------------------------------------------------------------
(* The values of a PUT.                                                     *)

(* The columns a PUT may write without being asked to.                      *)
ResetOf(t) == IF t \in DOMAIN Reset THEN Reset[t] ELSE {}

(* The names that an UPDATE refuses: what users have no column for.         *)
NoColumn(endpoint) == IF endpoint = "users" THEN {"team_id"} ELSE {}

(* What the schema of a PUT is to its table.                                *)
PutFits(endpoint, s, t) ==
  /\ t \in DOMAIN Declared
  /\ Enumerated[t] \cap Fields(s) \subseteq Listed(s)
  /\ (s.nullable \cup s.nulled) \cap Declared[t].required = {}
  /\ s.defaulted \cup s.nulled \subseteq ResetOf(t)
  /\ endpoint \in {"users", "teams"} =>
       Fields(s) \subseteq Columns(Declared[t]) \cup NoColumn(endpoint)

(* Each schema of a PUT fits its table.                                     *)
LEMMA PutsFit ==
  \A endpoint \in DOMAIN Put : PutFits(endpoint, Put[endpoint], TableOf(endpoint))
<1>1. PutFits("users", update_user_schema, "users")
  <2>. DEFINE s == update_user_schema
  <2>1. Enumerated["users"] \cap Fields(s) \subseteq Listed(s)
    BY EnumsAre, ListedAre DEF Fields, Schema, update_user_schema
  <2>2. (s.nullable \cup s.nulled) \cap Declared["users"].required = {}
    BY DEF Schema, update_user_schema, Declared, User, Table, Stamps
  <2>3. s.defaulted \cup s.nulled \subseteq ResetOf("users")
    BY DEF Schema, update_user_schema, ResetOf, Reset
  <2>4. Fields(s) \subseteq Columns(Declared["users"]) \cup NoColumn("users")
    BY DEF Fields, Schema, update_user_schema, Columns, Declared, User, Table, Stamps,
         NoColumn
  <2>5. "users" \in DOMAIN Declared
    BY DEF Declared
  <2>. QED  BY <2>1, <2>2, <2>3, <2>4, <2>5 DEF PutFits
<1>2. PutFits("me", update_current_user_schema, "users")
  <2>. DEFINE s == update_current_user_schema
  <2>1. Enumerated["users"] \cap Fields(s) \subseteq Listed(s)
    BY EnumsAre, ListedAre DEF Fields, Schema, update_current_user_schema
  <2>2. (s.nullable \cup s.nulled) \cap Declared["users"].required = {}
    BY DEF Schema, update_current_user_schema, Declared, User, Table, Stamps
  <2>3. s.defaulted \cup s.nulled \subseteq ResetOf("users")
    BY DEF Schema, update_current_user_schema, ResetOf, Reset
  <2>5. "users" \in DOMAIN Declared
    BY DEF Declared
  <2>. QED  BY <2>1, <2>2, <2>3, <2>5 DEF PutFits
<1>3. PutFits("teams", update_team_schema, "teams")
  <2>. DEFINE s == update_team_schema
  <2>1. Enumerated["teams"] \cap Fields(s) \subseteq Listed(s)
    BY EnumsAre, ListedAre DEF Fields, Schema, update_team_schema
  <2>2. (s.nullable \cup s.nulled) \cap Declared["teams"].required = {}
    BY DEF Schema, update_team_schema, Declared, Team, Table, Stamps
  <2>3. s.defaulted \cup s.nulled \subseteq ResetOf("teams")
    BY DEF Schema, update_team_schema, ResetOf, Reset
  <2>4. Fields(s) \subseteq Columns(Declared["teams"]) \cup NoColumn("teams")
    BY DEF Fields, Schema, update_team_schema, Columns, Declared, Team, Table, Stamps,
         NoColumn
  <2>5. "teams" \in DOMAIN Declared
    BY DEF Declared
  <2>. QED  BY <2>1, <2>2, <2>3, <2>4, <2>5 DEF PutFits
<1>4. PutFits("topics", update_topic_schema, "topics")
  <2>. DEFINE s == update_topic_schema
  <2>1. Enumerated["topics"] \cap Fields(s) \subseteq Listed(s)
    BY EnumsAre, ListedAre DEF Fields, Schema, update_topic_schema
  <2>2. (s.nullable \cup s.nulled) \cap Declared["topics"].required = {}
    BY DEF Schema, update_topic_schema, Declared, Topic, Table, Stamps
  <2>3. s.defaulted \cup s.nulled \subseteq ResetOf("topics")
    BY DEF Schema, update_topic_schema, ResetOf, Reset
  <2>5. "topics" \in DOMAIN Declared
    BY DEF Declared
  <2>. QED  BY <2>1, <2>2, <2>3, <2>5 DEF PutFits
<1>5. PutFits("remotecis", update_remoteci_schema, "remotecis")
  <2>. DEFINE s == update_remoteci_schema
  <2>1. Enumerated["remotecis"] \cap Fields(s) \subseteq Listed(s)
    BY EnumsAre, ListedAre DEF Fields, Schema, update_remoteci_schema
  <2>2. (s.nullable \cup s.nulled) \cap Declared["remotecis"].required = {}
    BY DEF Schema, update_remoteci_schema, Declared, Remoteci, Table, Stamps
  <2>3. s.defaulted \cup s.nulled \subseteq ResetOf("remotecis")
    BY DEF Schema, update_remoteci_schema, ResetOf, Reset
  <2>5. "remotecis" \in DOMAIN Declared
    BY DEF Declared
  <2>. QED  BY <2>1, <2>2, <2>3, <2>5 DEF PutFits
<1>6. PutFits("products", update_product_schema, "products")
  <2>. DEFINE s == update_product_schema
  <2>1. Enumerated["products"] \cap Fields(s) \subseteq Listed(s)
    BY EnumsAre, ListedAre DEF Fields, Schema, update_product_schema
  <2>2. (s.nullable \cup s.nulled) \cap Declared["products"].required = {}
    BY DEF Schema, update_product_schema, Declared, Product, Table, Stamps
  <2>3. s.defaulted \cup s.nulled \subseteq ResetOf("products")
    BY DEF Schema, update_product_schema, ResetOf, Reset
  <2>5. "products" \in DOMAIN Declared
    BY DEF Declared
  <2>. QED  BY <2>1, <2>2, <2>3, <2>5 DEF PutFits
<1>7. PutFits("feeders", update_feeder_schema, "feeders")
  <2>. DEFINE s == update_feeder_schema
  <2>1. Enumerated["feeders"] \cap Fields(s) \subseteq Listed(s)
    BY EnumsAre, ListedAre DEF Fields, Schema, update_feeder_schema
  <2>2. (s.nullable \cup s.nulled) \cap Declared["feeders"].required = {}
    BY DEF Schema, update_feeder_schema, Declared, Feeder, Table, Stamps
  <2>3. s.defaulted \cup s.nulled \subseteq ResetOf("feeders")
    BY DEF Schema, update_feeder_schema, ResetOf, Reset
  <2>5. "feeders" \in DOMAIN Declared
    BY DEF Declared
  <2>. QED  BY <2>1, <2>2, <2>3, <2>5 DEF PutFits
<1>8. PutFits("pipelines", update_pipeline_schema, "pipelines")
  <2>. DEFINE s == update_pipeline_schema
  <2>1. Enumerated["pipelines"] \cap Fields(s) \subseteq Listed(s)
    BY EnumsAre, ListedAre DEF Fields, Schema, update_pipeline_schema
  <2>2. (s.nullable \cup s.nulled) \cap Declared["pipelines"].required = {}
    BY DEF Schema, update_pipeline_schema, Declared, Pipeline, Table, Stamps
  <2>3. s.defaulted \cup s.nulled \subseteq ResetOf("pipelines")
    BY DEF Schema, update_pipeline_schema, ResetOf, Reset
  <2>5. "pipelines" \in DOMAIN Declared
    BY DEF Declared
  <2>. QED  BY <2>1, <2>2, <2>3, <2>5 DEF PutFits
<1>9. PutFits("components", update_component_schema, "components")
  <2>. DEFINE s == update_component_schema
  <2>1. Enumerated["components"] \cap Fields(s) \subseteq Listed(s)
    BY EnumsAre, ListedAre DEF Fields, Schema, update_component_schema
  <2>2. (s.nullable \cup s.nulled) \cap Declared["components"].required = {}
    BY DEF Schema, update_component_schema, Declared, Component, Table, Stamps
  <2>3. s.defaulted \cup s.nulled \subseteq ResetOf("components")
    BY DEF Schema, update_component_schema, ResetOf, Reset
  <2>5. "components" \in DOMAIN Declared
    BY DEF Declared
  <2>. QED  BY <2>1, <2>2, <2>3, <2>5 DEF PutFits
<1>10. PutFits("jobs", update_job_schema, "jobs")
  <2>. DEFINE s == update_job_schema
  <2>1. Enumerated["jobs"] \cap Fields(s) \subseteq Listed(s)
    BY EnumsAre, ListedAre DEF Fields, Schema, update_job_schema
  <2>2. (s.nullable \cup s.nulled) \cap Declared["jobs"].required = {}
    BY DEF Schema, update_job_schema, Declared, Job, Table, Stamps
  <2>3. s.defaulted \cup s.nulled \subseteq ResetOf("jobs")
    BY DEF Schema, update_job_schema, ResetOf, Reset
  <2>5. "jobs" \in DOMAIN Declared
    BY DEF Declared
  <2>. QED  BY <2>1, <2>2, <2>3, <2>5 DEF PutFits
<1>11. ASSUME NEW endpoint, endpoint = "users"
      PROVE  PutFits(endpoint, Put[endpoint], TableOf(endpoint))
  BY <1>1, <1>11 DEF Put, TableOf
<1>12. ASSUME NEW endpoint, endpoint = "me"
      PROVE  PutFits(endpoint, Put[endpoint], TableOf(endpoint))
  BY <1>2, <1>12 DEF Put, TableOf
<1>13. ASSUME NEW endpoint, endpoint = "teams"
      PROVE  PutFits(endpoint, Put[endpoint], TableOf(endpoint))
  BY <1>3, <1>13 DEF Put, TableOf
<1>14. ASSUME NEW endpoint, endpoint = "topics"
      PROVE  PutFits(endpoint, Put[endpoint], TableOf(endpoint))
  BY <1>4, <1>14 DEF Put, TableOf
<1>15. ASSUME NEW endpoint, endpoint = "remotecis"
      PROVE  PutFits(endpoint, Put[endpoint], TableOf(endpoint))
  BY <1>5, <1>15 DEF Put, TableOf
<1>16. ASSUME NEW endpoint, endpoint = "products"
      PROVE  PutFits(endpoint, Put[endpoint], TableOf(endpoint))
  BY <1>6, <1>16 DEF Put, TableOf
<1>17. ASSUME NEW endpoint, endpoint = "feeders"
      PROVE  PutFits(endpoint, Put[endpoint], TableOf(endpoint))
  BY <1>7, <1>17 DEF Put, TableOf
<1>18. ASSUME NEW endpoint, endpoint = "pipelines"
      PROVE  PutFits(endpoint, Put[endpoint], TableOf(endpoint))
  BY <1>8, <1>18 DEF Put, TableOf
<1>19. ASSUME NEW endpoint, endpoint = "components"
      PROVE  PutFits(endpoint, Put[endpoint], TableOf(endpoint))
  BY <1>9, <1>19 DEF Put, TableOf
<1>20. ASSUME NEW endpoint, endpoint = "jobs"
      PROVE  PutFits(endpoint, Put[endpoint], TableOf(endpoint))
  BY <1>10, <1>20 DEF Put, TableOf
<1>21. DOMAIN Put = {"users", "me", "teams", "topics", "remotecis", "products",
         "feeders", "pipelines", "components", "jobs"}
  BY DEF Put
<1>. QED
  BY <1>11, <1>12, <1>13, <1>14, <1>15, <1>16, <1>17, <1>18, <1>19, <1>20, <1>21

PutValues(endpoint, cleaned) ==
  IF endpoint = "me" THEN put_current_user(cleaned) ELSE cleaned

(* A PUT that changes its user renames one value and drops another.         *)
LEMMA PutCurrentUser ==
  ASSUME NEW v, NEW S, NullIn(v, S), InEnums(v), "new_password" \notin S
  PROVE  LET w == put_current_user(v)
         IN  /\ NullIn(w, S) /\ InEnums(w)
             /\ DOMAIN w = (DOMAIN v \ {"current_password", "new_password"})
                  \cup (IF "new_password" \in DOMAIN v THEN {"password"} ELSE {})
<1>. DEFINE u == Without(v, {"current_password"})
            w == put_current_user(v)
<1>1. /\ DOMAIN u = DOMAIN v \ {"current_password"}
      /\ \A c \in DOMAIN u : u[c] = v[c]
  BY DEF Without
<1>2. w = Rename(u, "new_password", "password")
  BY DEF put_current_user
<1>. HIDE DEF u, w
<1>3. CASE "new_password" \notin DOMAIN v
  <2>1. w = u
    BY <1>1, <1>2, <1>3 DEF Rename
  <2>. QED  BY <2>1, <1>1, <1>3 DEF NullIn, InEnums, w
<1>4. CASE "new_password" \in DOMAIN v
  <2>. DEFINE o == Without(u, {"new_password"})
  <2>1. /\ DOMAIN o = DOMAIN u \ {"new_password"}
        /\ \A c \in DOMAIN o : o[c] = u[c]
    BY DEF Without
  <2>2. "new_password" \in DOMAIN u
    BY <1>1, <1>4
  <2>. HIDE DEF o
  <2>3. w = Over([c \in {"password"} |-> u["new_password"]], o)
    BY <1>2, <2>2 DEF Rename, o
  <2>4. /\ DOMAIN w = {"password"} \cup DOMAIN o
        /\ \A c \in DOMAIN w : w[c] = IF c = "password" THEN u["new_password"] ELSE o[c]
    BY <2>3 DEF Over
  <2>5. \A c \in DOMAIN w \ {"password"} : c \in DOMAIN v /\ w[c] = v[c]
    BY <1>1, <2>1, <2>4
  <2>6. "password" \in DOMAIN w => w["password"] = v["new_password"]
    BY <1>1, <2>2, <2>4
  <2>7. NullIn(w, S)
    BY <1>4, <2>5, <2>6 DEF NullIn
  <2>8. InEnums(w)
    BY <1>4, <2>5, <2>6 DEF InEnums
  <2>9. DOMAIN w = (DOMAIN v \ {"current_password", "new_password"}) \cup {"password"}
    BY <1>1, <2>1, <2>4
  <2>. QED  BY <1>4, <2>7, <2>8, <2>9 DEF w
<1>. QED  BY <1>3, <1>4

(* The values of a PUT: None only where the table takes it, none that is    *)
(* not in its enum, and none but what the body names or the schema resets.  *)
LEMMA PutWrites ==
  ASSUME NEW endpoint \in DOMAIN Put, NEW body \in Bodies(endpoint, Put[endpoint])
  PROVE  LET t == TableOf(endpoint)
             v == PutValues(endpoint, Renewed(Cleaned(Put[endpoint], body)))
         IN  /\ t \in DOMAIN Declared
             /\ \A c \in Declared[t].required \cap DOMAIN v : v[c] # "null"
             /\ InEnums(v)
             /\ \A c \in DOMAIN v :
                  \/ c \in DOMAIN body
                  \/ c = "password" /\ "new_password" \in DOMAIN body
                  \/ c \in ResetOf(t)
             /\ endpoint \in {"users", "teams"} =>
                  DOMAIN v \subseteq Columns(Declared[t])
                  \cup (DOMAIN body \cap NoColumn(endpoint))
             /\ endpoint = "me" => DOMAIN v \subseteq Columns(Declared[t])
<1>. DEFINE s == Put[endpoint]
            t == TableOf(endpoint)
            cleaned == Cleaned(s, body)
            renewed == Renewed(cleaned)
            N == s.nullable \cup s.nulled
            v == PutValues(endpoint, renewed)
<1>1. Fitting(endpoint, s, body)
  BY BodiesFit
<1>2. PutFits(endpoint, s, t)
  BY PutsFit
<1>3. /\ DOMAIN cleaned = DOMAIN body \cup s.defaulted \cup s.nulled
      /\ DOMAIN cleaned \subseteq Fields(s)
      /\ NullIn(cleaned, N)
  BY <1>1, CleanedIs
<1>4. InEnums(cleaned)
  BY <1>1, <1>2, CleanedInEnums DEF PutFits
<1>. HIDE DEF cleaned
<1>5. /\ DOMAIN renewed = DOMAIN cleaned
      /\ NullIn(renewed, N)
      /\ InEnums(renewed)
  BY <1>3, <1>4 DEF Renewed, NullIn, InEnums
<1>. HIDE DEF renewed, N
<1>6. CASE endpoint # "me"
  <2>1. v = renewed
    BY <1>6 DEF PutValues
  <2>. HIDE DEF v
  <2>2. \A c \in Declared[t].required \cap DOMAIN v : v[c] # "null"
    BY <2>1, <1>2, <1>5 DEF PutFits, NullIn, N
  <2>3. \A c \in DOMAIN v : c \in DOMAIN body \/ c \in ResetOf(t)
    BY <2>1, <1>2, <1>3, <1>5 DEF PutFits
  <2>4. endpoint \in {"users", "teams"} =>
          DOMAIN v \subseteq Columns(Declared[t])
          \cup (DOMAIN body \cap NoColumn(endpoint))
    <3>. SUFFICES ASSUME endpoint \in {"users", "teams"}
                  PROVE  DOMAIN v \subseteq Columns(Declared[t])
                           \cup (DOMAIN body \cap NoColumn(endpoint))
      OBVIOUS
    <3>1. DOMAIN v \subseteq Columns(Declared[t]) \cup NoColumn(endpoint)
      BY <2>1, <1>2, <1>3, <1>5 DEF PutFits
    <3>2. ResetOf(t) \cap NoColumn(endpoint) = {}
      BY DEF ResetOf, Reset, NoColumn, TableOf
    <3>. QED  BY <2>3, <3>1, <3>2
  <2>. QED  BY <1>2, <1>5, <1>6, <2>1, <2>2, <2>3, <2>4
            DEF PutFits, v, renewed, cleaned
<1>7. CASE endpoint = "me"
  <2>. DEFINE A == {"current_password", "new_password", "fullname", "email", "timezone"}
  <2>1. /\ s = update_current_user_schema /\ t = "users"
        /\ s.defaulted \cup s.nulled = {}
        /\ N = {}
        /\ Fields(s) = A
    BY <1>7 DEF Put, TableOf, update_current_user_schema, Schema, Fields, N
  <2>2. v = put_current_user(renewed)
    BY <1>7 DEF PutValues
  <2>3. /\ NullIn(v, {}) /\ InEnums(v)
        /\ DOMAIN v = (DOMAIN renewed \ {"current_password", "new_password"})
             \cup (IF "new_password" \in DOMAIN renewed THEN {"password"} ELSE {})
    <3>1. NullIn(renewed, {}) /\ InEnums(renewed) /\ "new_password" \notin {}
      BY <1>5, <2>1
    <3>. HIDE DEF v
    <3>. QED  BY <3>1, <2>2, PutCurrentUser
  <2>. HIDE DEF v, s, t
  <2>4. DOMAIN renewed = DOMAIN body /\ DOMAIN body \subseteq A
    BY <1>3, <1>5, <2>1
  <2>5. \A c \in DOMAIN v :
          \/ c \in DOMAIN body
          \/ c = "password" /\ "new_password" \in DOMAIN body
    <3>1. CASE "new_password" \in DOMAIN renewed
      <4>1. DOMAIN v = (DOMAIN renewed \ {"current_password", "new_password"})
                         \cup {"password"}
        BY <2>3, <3>1
      <4>. QED  BY <4>1, <3>1, <2>4
    <3>2. CASE "new_password" \notin DOMAIN renewed
      <4>1. DOMAIN v = DOMAIN renewed \ {"current_password", "new_password"}
        BY <2>3, <3>2
      <4>2. DOMAIN v \subseteq DOMAIN body
        BY <4>1, <2>4
      <4>. QED  BY <4>2
    <3>. QED  BY <3>1, <3>2
  <2>6. {"fullname", "email", "timezone", "password"} \subseteq Columns(Declared["users"])
    BY DEF Columns, Declared, User, Table
  <2>7. DOMAIN v \subseteq Columns(Declared[t])
    BY <2>1, <2>3, <2>4, <2>6
  <2>8. \A c \in DOMAIN v : v[c] # "null"
    BY <2>3 DEF NullIn
  <2>. QED  BY <1>2, <1>7, <2>3, <2>5, <2>7, <2>8
            DEF PutFits, v, renewed, cleaned, s, t
<1>. QED  BY <1>6, <1>7

-----------------------------------------------------------------------------
(* The rows of the requests.                                                *)

(* A server at the newest revision finds the columns that it declares.      *)
LEMMA ColumnsAtNewest ==
  ASSUME MInv, db.revision = Newest, NEW t \in DOMAIN Declared
  PROVE  /\ db.tables[t].required = Declared[t].required
         /\ Columns(db.tables[t]) = Columns(Declared[t])
<1>1. /\ t # "jobs_keys_values" => db.tables[t] = Declared[t]
      /\ db.tables["jobs_keys_values"] = KeyValues
  BY NewestTables DEF MInv
<1>2. KeyValues.required = {"key", "value", "job_id"} /\ KeyValues.nullable = {}
  BY DEF KeyValues, Table
<1>3. Declared["jobs_keys_values"].required = {"key", "value", "job_id"}
      /\ Declared["jobs_keys_values"].nullable = {}
  BY DEF Declared, JobKeyValue, Table
<1>. QED  BY <1>1, <1>2, <1>3 DEF Columns

(* The row of an INSERT.                                                    *)
LEMMA StoredIs ==
  ASSUME MInv, db.revision = Newest, NEW t \in DOMAIN Declared, NEW v
  PROVE  /\ DOMAIN Stored(t, v) = Columns(Declared[t])
         /\ \A c \in Columns(Declared[t]) :
              /\ Given(v, c) => Stored(t, v)[c] = v[c]
              /\ ~Given(v, c) /\ c \in HasDefault(t) => Stored(t, v)[c] \in {"orm", "db"}
              /\ ~Given(v, c) /\ c \notin HasDefault(t) => Stored(t, v)[c] = "null"
<1>. DEFINE C == Columns(Declared[t])
            filled(c) == t \in DOMAIN ServerDefaults /\ c \in ServerDefaults[t]
<1>1. Stored(t, v) =
        [c \in C |-> IF Given(v, c) THEN v[c]
                     ELSE IF c \in Defaults[t] THEN "orm"
                     ELSE IF filled(c) THEN "db" ELSE "null"]
  BY ColumnsAtNewest DEF Stored
<1>2. \A c : c \in HasDefault(t) <=> c \in Defaults[t] \/ filled(c)
  BY DEF HasDefault
<1>. HIDE DEF C, filled
<1>3. DOMAIN Stored(t, v) = C
  BY <1>1
<1>4. \A c \in C :
        Stored(t, v)[c] = IF Given(v, c) THEN v[c]
                          ELSE IF c \in Defaults[t] THEN "orm"
                          ELSE IF filled(c) THEN "db" ELSE "null"
  BY <1>1
<1>. QED  BY <1>2, <1>3, <1>4 DEF C

(* The table takes it when it has and gets its columns.                     *)
LEMMA StoredTaken ==
  ASSUME MInv, db.revision = Newest, NEW t \in DOMAIN Declared, NEW v, Takes(t, v)
  PROVE  ~Refused(t, Stored(t, v)) /\ DOMAIN v \subseteq DOMAIN Stored(t, v)
<1>. DEFINE stored == Stored(t, v)
<1>1. /\ DOMAIN stored = Columns(Declared[t])
      /\ \A c \in Columns(Declared[t]) :
           /\ Given(v, c) => stored[c] = v[c]
           /\ ~Given(v, c) /\ c \in HasDefault(t) => stored[c] \in {"orm", "db"}
           /\ ~Given(v, c) /\ c \notin HasDefault(t) => stored[c] = "null"
  BY StoredIs
<1>. HIDE DEF stored
<1>2. db.tables[t].required = Declared[t].required
  BY ColumnsAtNewest
<1>3. \A c \in Declared[t].required : stored[c] # "null"
  BY <1>1 DEF Takes, Sure, Given, Columns
<1>4. \A c \in DOMAIN stored : stored[c] # "unlisted"
  BY <1>1 DEF Takes, InEnums, Given
<1>. QED  BY <1>1, <1>2, <1>3, <1>4 DEF Refused, Takes, stored

(* And the answer shows it.                                                 *)
LEMMA StoredShown ==
  ASSUME MInv, db.revision = Newest, NEW t \in DOMAIN Declared, NEW v, Shows(t, v)
  PROVE  \A c \in DOMAIN Stored(t, v) :
           \/ Stored(t, v)[c] = IF c \in DOMAIN v THEN v[c] ELSE "null"
           \/ t \in DOMAIN LeftToOrm /\ c \in LeftToOrm[t]
<1>. DEFINE stored == Stored(t, v)
<1>1. /\ DOMAIN stored = Columns(Declared[t])
      /\ \A c \in Columns(Declared[t]) :
           /\ Given(v, c) => stored[c] = v[c]
           /\ ~Given(v, c) /\ c \in HasDefault(t) => stored[c] \in {"orm", "db"}
           /\ ~Given(v, c) /\ c \notin HasDefault(t) => stored[c] = "null"
  BY StoredIs
<1>. HIDE DEF stored
<1>2. \A c \in DOMAIN stored : c \in HasDefault(t) \ Unshown(t) => Given(v, c)
  BY <1>1 DEF Shows, Sure
<1>3. \A c \in Unshown(t) : t \in DOMAIN LeftToOrm /\ c \in LeftToOrm[t]
  BY DEF Unshown
<1>. QED  BY <1>1, <1>2, <1>3 DEF Given, stored

(* The row a request leaves fits the table it was for.                      *)
Sound(r) ==
  /\ DOMAIN r.values = Columns(db.tables[r.table])
  /\ ~Refused(r.table, r.values)

(* What SInv says of it after a step that leaves the database alone.        *)
LEMMA SoundStays ==
  ASSUME UNCHANGED mvars, db.revision = Newest, Sound(row'), row' # NoRow,
         row' = [table |-> row'.table, values |-> row'.values]
  PROVE  SInv'
BY DEF SInv, Sound, Refused, Columns, mvars

(* No table has the name NoRow has in place of one.                         *)
LEMMA NoRowNamed == NoRow.table \notin DOMAIN Declared
BY DEF NoRow, Declared, None

(* A POST keeps SInv, is answered what it stores and refused only where the *)
(* schema takes any string.                                                 *)
LEMMA StepPost ==
  ASSUME MInv, SInv, NEW endpoint \in DOMAIN Post,
         NEW body \in Bodies(endpoint, Post[endpoint]),
         NEW headers \in {"server", "null"},
         PostResource(endpoint, body, headers)
  PROVE  /\ SInv' /\ AcceptedIsStored' /\ AnswerShowsRow'
         /\ row = NoRow /\ last'.method = "POST"
<1>. DEFINE t == TableOf(endpoint)
            v == Created201(endpoint, Cleaned(Post[endpoint], body), headers)
            stored == Stored(t, v)
            refused == Refused(t, stored) \/ ~(DOMAIN v \subseteq DOMAIN stored)
<1>1. /\ db.revision = Newest /\ row = NoRow /\ UNCHANGED mvars
      /\ Accepted(endpoint, body)
      /\ last' = [method |-> "POST", endpoint |-> endpoint, fields |-> DOMAIN body,
                  answer |-> IF refused THEN "error" ELSE "201"]
      /\ row' = IF refused THEN row ELSE [table |-> t, values |-> stored]
      /\ shown' = IF refused THEN shown ELSE v
  BY DEF PostResource, ServesRequests
<1>2. /\ t \in DOMAIN Declared
      /\ endpoint # "jobstates" => Takes(t, v)
      /\ Shows(t, v)
  BY <1>1, PostTakes
<1>3. endpoint # "jobstates" => ~refused
  BY <1>1, <1>2, StoredTaken
<1>4. \A c \in DOMAIN stored :
        \/ stored[c] = IF c \in DOMAIN v THEN v[c] ELSE "null"
        \/ t \in DOMAIN LeftToOrm /\ c \in LeftToOrm[t]
  BY <1>1, <1>2, StoredShown
<1>5. DOMAIN stored = Columns(db.tables[t])
  BY DEF Stored
<1>6. ~refused => ~Refused(t, stored)
  OBVIOUS
<1>. HIDE DEF t, v, stored, refused
<1>7. last'.method = "POST" /\ last'.endpoint = endpoint
  BY <1>1
<1>8. CASE refused
  <2>1. row' = NoRow /\ last'.answer = "error"
    BY <1>1, <1>8
  <2>2. endpoint = "jobstates"
    BY <1>3, <1>8
  <2>. QED  BY <1>1, <1>7, <2>1, <2>2 DEF SInv, AcceptedIsStored, AnswerShowsRow
<1>9. CASE ~refused
  <2>1. /\ row' = [table |-> t, values |-> stored] /\ shown' = v
        /\ last'.answer = "201"
    BY <1>1, <1>9
  <2>2. row'.table = t /\ row'.values = stored
    BY <2>1
  <2>3. row' # NoRow
    BY <1>2, <2>2, NoRowNamed
  <2>4. SInv'
    BY <1>1, <1>5, <1>6, <1>9, <2>2, <2>3, SoundStays DEF Sound
  <2>5. AcceptedIsStored'
    BY <2>1 DEF AcceptedIsStored
  <2>6. AnswerShowsRow'
    BY <1>4, <2>1, <2>2 DEF AnswerShowsRow
  <2>. QED  BY <1>1, <1>7, <2>4, <2>5, <2>6
<1>. QED  BY <1>8, <1>9

(* A PUT keeps SInv, is refused only for the team_id of a user, and writes  *)
(* the columns its body names, the stamps and those its schema resets.      *)
LEMMA StepPut ==
  ASSUME MInv, SInv, NEW endpoint \in DOMAIN Put,
         NEW body \in Bodies(endpoint, Put[endpoint]), PutResource(endpoint, body)
  PROVE  /\ SInv' /\ AcceptedIsStored' /\ AnswerShowsRow'
         /\ \A c \in DOMAIN row.values :
              \/ row'.values[c] = row.values[c]
              \/ c \in Named(last') \cup {"etag", "updated_at"}
              \/ row.table \in DOMAIN Reset /\ c \in Reset[row.table]
<1>. DEFINE t == TableOf(endpoint)
            v == PutValues(endpoint, Renewed(Cleaned(Put[endpoint], body)))
            updated == [c \in DOMAIN row.values |->
                          IF c \in {"etag", "updated_at"} THEN "new"
                          ELSE IF c \in DOMAIN v THEN v[c] ELSE row.values[c]]
            unknown == endpoint \in {"users", "me", "teams"}
                       /\ ~(DOMAIN v \subseteq DOMAIN row.values)
            refused == unknown \/ Refused(t, updated)
<1>1. /\ db.revision = Newest /\ row.table = t /\ UNCHANGED mvars
      /\ last' = [method |-> "PUT", endpoint |-> endpoint, fields |-> DOMAIN body,
                  answer |-> IF refused THEN "error" ELSE "200"]
      /\ row' = IF refused THEN row ELSE [row EXCEPT !.values = updated]
  BY DEF PutResource, ServesRequests, PutValues
<1>2. /\ t \in DOMAIN Declared
      /\ \A c \in Declared[t].required \cap DOMAIN v : v[c] # "null"
      /\ InEnums(v)
      /\ \A c \in DOMAIN v :
           \/ c \in DOMAIN body
           \/ c = "password" /\ "new_password" \in DOMAIN body
           \/ c \in ResetOf(t)
      /\ endpoint \in {"users", "teams"} =>
           DOMAIN v \subseteq Columns(Declared[t])
           \cup (DOMAIN body \cap NoColumn(endpoint))
      /\ endpoint = "me" => DOMAIN v \subseteq Columns(Declared[t])
  BY PutWrites
<1>. HIDE DEF t, v
<1>3. row # NoRow
  BY <1>1, <1>2, NoRowNamed
<1>4. /\ DOMAIN row.values = Columns(db.tables[t])
      /\ ~Refused(t, row.values)
      /\ db.tables[t].required = Declared[t].required
      /\ Columns(db.tables[t]) = Columns(Declared[t])
  BY <1>1, <1>2, <1>3, ColumnsAtNewest DEF SInv
<1>5. /\ DOMAIN updated = DOMAIN row.values
      /\ \A c \in DOMAIN row.values :
           updated[c] = IF c \in {"etag", "updated_at"} THEN "new"
                        ELSE IF c \in DOMAIN v THEN v[c] ELSE row.values[c]
  OBVIOUS
<1>. HIDE DEF updated
<1>6. ~Refused(t, updated)
  <2>1. \A c \in db.tables[t].required : updated[c] # "null"
    BY <1>2, <1>4, <1>5 DEF Refused, Columns
  <2>2. \A c \in DOMAIN updated : updated[c] # "unlisted"
    BY <1>2, <1>4, <1>5 DEF Refused, InEnums
  <2>. QED  BY <2>1, <2>2 DEF Refused
<1>7. unknown => endpoint = "users" /\ "team_id" \in DOMAIN body
  <2>1. CASE endpoint = "users"
    BY <1>2, <1>4, <2>1 DEF NoColumn
  <2>2. CASE endpoint = "teams"
    BY <1>2, <1>4, <2>2 DEF NoColumn
  <2>3. CASE endpoint = "me"
    BY <1>2, <1>4, <2>3
  <2>. QED  BY <2>1, <2>2, <2>3
<1>. HIDE DEF unknown
<1>8. /\ last'.method = "PUT" /\ last'.endpoint = endpoint /\ last'.fields = DOMAIN body
      /\ last'.answer # "201"
  BY <1>1
<1>9. AcceptedIsStored'
  BY <1>1, <1>6, <1>7, <1>8 DEF AcceptedIsStored
<1>10. AnswerShowsRow'
  BY <1>8 DEF AnswerShowsRow
<1>11. CASE refused
  <2>1. row' = row
    BY <1>1, <1>11
  <2>2. row' = [table |-> row'.table, values |-> row'.values]
    BY <2>1 DEF SInv
  <2>3. SInv'
    BY <1>1, <1>3, <1>4, <2>1, <2>2, SoundStays DEF Sound
  <2>. QED  BY <1>9, <1>10, <2>1, <2>3
<1>12. CASE ~refused
  <2>1. row' = [table |-> row.table, values |-> updated]
    BY <1>1, <1>12 DEF SInv
  <2>2. row'.table = t /\ row'.values = updated
    BY <1>1, <2>1
  <2>3. row' # NoRow
    BY <1>1, <1>3, <2>2, <1>2, NoRowNamed
  <2>4. SInv'
    BY <1>1, <1>4, <1>5, <1>6, <2>1, <2>2, <2>3, SoundStays DEF Sound
  <2>5. \A c \in DOMAIN row.values :
          \/ row'.values[c] = row.values[c]
          \/ c \in Named(last') \cup {"etag", "updated_at"}
          \/ c \in ResetOf(t)
    BY <1>2, <1>5, <1>8, <2>2 DEF Named
  <2>. QED  BY <1>1, <1>9, <1>10, <2>4, <2>5 DEF ResetOf
<1>. QED  BY <1>11, <1>12

(* The first row of a user that comes through SSO.                          *)
LEMMA StepSso ==
  ASSUME MInv, SInv, CreateSsoUser
  PROVE  SInv' /\ last' = last /\ row = NoRow
<1>. DEFINE C == {"name", "fullname", "sso_username", "sso_sub", "email", "timezone"}
            v == [c \in C |-> "server"]
            stored == Stored("users", v)
<1>1. /\ db.revision = Newest /\ row = NoRow /\ UNCHANGED mvars /\ last' = last
      /\ row' = [table |-> "users", values |-> stored]
  BY DEF CreateSsoUser, ServesRequests
<1>2. Takes("users", v)
  <2>1. C \subseteq Columns(Declared["users"])
    BY DEF Columns, Declared, User, Table
  <2>2. Declared["users"].required \ HasDefault("users") \subseteq C
    BY DEF Declared, User, Table, HasDefault, Defaults, ServerDefaults, StampedState,
         Stamps
  <2>3. InEnums(v) /\ \A c \in C : Given(v, c)
    BY DEF InEnums, Given
  <2>. HIDE DEF C
  <2>4. DOMAIN v = C
    OBVIOUS
  <2>. HIDE DEF v
  <2>. QED  BY <2>1, <2>2, <2>3, <2>4 DEF Takes, Sure
<1>. HIDE DEF v
<1>3. "users" \in DOMAIN Declared
  BY DEF Declared
<1>4. ~Refused("users", stored)
  BY <1>1, <1>2, <1>3, StoredTaken
<1>5. DOMAIN stored = Columns(db.tables["users"])
  BY DEF Stored
<1>. HIDE DEF stored
<1>6. row'.table = "users" /\ row'.values = stored
  BY <1>1
<1>7. row' # NoRow
  BY <1>3, <1>6, NoRowNamed
<1>. QED  BY <1>1, <1>4, <1>5, <1>6, <1>7, SoundStays DEF Sound

(* At first there is no row.                                                *)
LEMMA InitSInv == Init => SInv
BY DEF Init, SInv, NoRow, NoRequest, None

(* A request, or none: no step breaks the three.                            *)
LEMMA StepSInv ==
  ASSUME MInv, SInv, AcceptedIsStored, AnswerShowsRow, [Next]_svars
  PROVE  SInv' /\ AcceptedIsStored' /\ AnswerShowsRow'
<1>1. ASSUME Administer
      PROVE  SInv' /\ AcceptedIsStored' /\ AnswerShowsRow'
  <2>1. row = NoRow /\ row' = row /\ shown' = shown /\ last' = last
    BY <1>1 DEF Administer
  <2>. QED  BY <2>1 DEF SInv, AcceptedIsStored, AnswerShowsRow
<1>2. ASSUME CreateSsoUser
      PROVE  SInv' /\ AcceptedIsStored' /\ AnswerShowsRow'
  <2>1. SInv' /\ last' = last /\ row = NoRow
    BY <1>2, StepSso
  <2>. QED  BY <2>1 DEF SInv, AcceptedIsStored, AnswerShowsRow
<1>3. ASSUME UNCHANGED svars
      PROVE  SInv' /\ AcceptedIsStored' /\ AnswerShowsRow'
  BY <1>3 DEF svars, mvars, SInv, AcceptedIsStored, AnswerShowsRow, Refused, Columns
<1>. QED  BY <1>1, <1>2, <1>3, StepPost, StepPut DEF Next, Request

(* What the schemas accept the tables take, and the answer of a POST shows  *)
(* the row that was stored, for every body of every resource: also those of *)
(* more optional fields than a run gives.                                   *)
LEMMA RequestsHold == Spec => [](SInv /\ AcceptedIsStored /\ AnswerShowsRow)
<1>. DEFINE I == SInv /\ AcceptedIsStored /\ AnswerShowsRow
<1>1. Init => I
  BY InitSInv DEF Init, NoRequest, AcceptedIsStored, AnswerShowsRow, None
<1>2. MInv /\ I /\ [Next]_svars => I'
  BY StepSInv
<1>. QED  BY <1>1, <1>2, MigrationsInvariant, PTL DEF Spec

(* A body that its schema accepts is not refused by the database for a      *)
(* column it lacks, names, or cannot hold, but for the two exceptions.      *)
THEOREM AcceptedBodiesAreStored == Spec => []AcceptedIsStored
BY RequestsHold, PTL

(* What a POST answers is what it stored, but for the columns of LeftToOrm. *)
THEOREM AnswersShowRows == Spec => []AnswerShowsRow
BY RequestsHold, PTL

(* A PUT writes the columns its body names, the stamps, and the two columns *)
(* whose defaults the schemas of updates fill in.                           *)
THEOREM UpdatesChangeTheNamed == Spec => UpdateChangesOnlyNamed
<1>. DEFINE Only ==
       \A c \in DOMAIN row.values :
         \/ row'.values[c] = row.values[c]
         \/ c \in Named(last') \cup {"etag", "updated_at"}
         \/ row.table \in DOMAIN Reset /\ c \in Reset[row.table]
<1>1. MInv /\ SInv /\ [Next]_svars => [last'.method = "PUT" => Only]_svars
  <2>. SUFFICES ASSUME MInv, SInv, Next, last'.method = "PUT"
                PROVE  Only
    BY DEF svars
  <2>1. CASE row = NoRow
    BY <2>1 DEF NoRow
  <2>2. CASE row # NoRow
    <3>1. PICK endpoint \in DOMAIN Put : \E body \in Bodies(endpoint, Put[endpoint]) :
            PutResource(endpoint, body)
      BY <2>2, StepPost, StepSso DEF Next, Administer, Request
    <3>. QED  BY <3>1, StepPut
  <2>. QED  BY <2>1, <2>2
<1>. QED  BY <1>1, MigrationsInvariant, RequestsHold, PTL DEF Spec, UpdateChangesOnlyNamed
=============================================================================
