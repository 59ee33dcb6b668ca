--------------------------- MODULE Archive_proofs ---------------------------
(* Proofs about deletions and purges. The keys of models2.py that cascade    *)
(* form no cycle: a table has a Height, a key that cascades goes to a higher *)
(* one, and so Removed(S), which follows keys five times, is closed under    *)
(* them. ShapeInv says that rows are what their tables declare, that no key  *)
(* dangles and that ids are used once: it gives TypeOK. RowsInv says of each *)
(* row, stored or about to be inserted, that it was written consistently     *)
(* (Written), that what it is under is live or its deletion is on its way or *)
(* one of the recorded exceptions (Attended, Settled), and of each purge in  *)
(* flight what it has listed. Both are about a View of the state, so that    *)
(* one lemma, RowsStep, carries RowsInv over every step that only archives   *)
(* or removes; insertions and PUTs come apart. The properties of purges      *)
(* follow from the invariant and from what Removed takes with a row.         *)
EXTENDS Archive, FiniteSetTheorems, TLAPS

(* How many foreign keys with ON DELETE CASCADE can follow one another from  *)
(* a table, and which tables keys without a rule name.                       *)
Height(table) ==
  CASE table = "teams" -> 5
    [] table \in {"topics", "products", "remotecis", "pipelines"} -> 4
    [] table = "jobs" -> 3
    [] table = "jobstates" -> 2
    [] table \in {"files", "components", "users"} -> 1
    [] OTHER -> 0

KeyDeclared(table, ref) ==
  \/ ref[3] = "CASCADE" /\ Height(table) < Height(ref[2])
  \/ /\ ref[3] = "NO_ACTION"
     /\ ref[2] \in {"topics", "products", "jobs"} /\ table \in {"topics", "jobs"}

LEMMA RefFields ==
  \A column, table :
    /\ Cascade(column, table)[1] = column /\ NoAction(column, table)[1] = column
    /\ Cascade(column, table)[2] = table /\ NoAction(column, table)[2] = table
    /\ Cascade(column, table)[3] = "CASCADE" /\ NoAction(column, table)[3] = "NO_ACTION"
BY DEF Cascade, NoAction, Ref

LEMMA Tables ==
  DOMAIN Declared =
    {"users_teams", "user_remotecis", "users", "products_teams",
     "teams_components_access", "teams", "users_topics", "topics", "remotecis",
     "products", "feeders", "logs", "jobs_components", "component_files",
     "components", "jobs", "jobs_keys_values", "jobstates", "tests_results",
     "files", "jobs_events", "counter", "pipelines"}
BY DEF Declared

LEMMA JobKeys ==
  /\ Declared["jobs"].refs =
       {Cascade("topic_id", "topics"), Cascade("remoteci_id", "remotecis"),
        Cascade("team_id", "teams"), Cascade("product_id", "products"),
        Cascade("pipeline_id", "pipelines"), NoAction("previous_job_id", "jobs"),
        NoAction("update_previous_job_id", "jobs")}
  /\ \A c \in {"remoteci_id", "team_id"} : c \in Declared["jobs"].required
  /\ \A c \in {"topic_id", "product_id", "pipeline_id", "previous_job_id",
               "update_previous_job_id"} : c \notin Declared["jobs"].required
<1>1. Declared["jobs"] = Job
  BY DEF Declared
<1>2. Job.refs =
        {Cascade("topic_id", "topics"), Cascade("remoteci_id", "remotecis"),
         Cascade("team_id", "teams"), Cascade("product_id", "products"),
         Cascade("pipeline_id", "pipelines"), NoAction("previous_job_id", "jobs"),
         NoAction("update_previous_job_id", "jobs")}
  BY DEF Job, Table
<1>3. /\ \A c \in {"remoteci_id", "team_id"} : c \in Job.required
      /\ \A c \in {"topic_id", "product_id", "pipeline_id", "previous_job_id",
                   "update_previous_job_id"} : c \notin Job.required
  BY DEF Job, Table, Stamps
<1> QED
  BY <1>1, <1>2, <1>3

LEMMA FileKeys ==
  /\ Declared["files"].refs =
       {Cascade("jobstate_id", "jobstates"), Cascade("team_id", "teams"),
        Cascade("job_id", "jobs")}
  /\ "team_id" \in Declared["files"].required
  /\ \A c \in {"job_id", "jobstate_id"} : c \notin Declared["files"].required
<1>1. Declared["files"] = File
  BY DEF Declared
<1>2. /\ File.refs = {Cascade("jobstate_id", "jobstates"), Cascade("team_id", "teams"),
                      Cascade("job_id", "jobs")}
      /\ "team_id" \in File.required
      /\ \A c \in {"job_id", "jobstate_id"} : c \notin File.required
  BY DEF File, Table, Stamps
<1> QED
  BY <1>1, <1>2

LEMMA OtherKeys ==
  /\ Declared["remotecis"].refs = {Cascade("team_id", "teams")}
  /\ "team_id" \in Declared["remotecis"].required
  /\ Declared["pipelines"].refs = {Cascade("team_id", "teams")}
  /\ Declared["topics"].refs = {NoAction("product_id", "products"),
                                NoAction("next_topic_id", "topics")}
  /\ Declared["jobstates"].refs = {Cascade("job_id", "jobs")}
  /\ "job_id" \in Declared["jobstates"].required
  /\ \A t \in {"teams", "products", "users", "logs", "jobs_events", "counter"} :
       Declared[t].refs = {}
<1>1. /\ Declared["remotecis"] = Remoteci /\ Declared["pipelines"] = Pipeline
      /\ Declared["topics"] = Topic /\ Declared["jobstates"] = Jobstate
      /\ Declared["teams"] = Team /\ Declared["products"] = Product
      /\ Declared["users"] = User /\ Declared["logs"] = Log
      /\ Declared["jobs_events"] = JobEvent /\ Declared["counter"] = Counter
  BY DEF Declared
<1>2. Remoteci.refs = {Cascade("team_id", "teams")} /\ "team_id" \in Remoteci.required
  BY DEF Remoteci, Table
<1>3. Pipeline.refs = {Cascade("team_id", "teams")}
  BY DEF Pipeline, Table
<1>4. Topic.refs = {NoAction("product_id", "products"), NoAction("next_topic_id", "topics")}
  BY DEF Topic, Table
<1>5. Jobstate.refs = {Cascade("job_id", "jobs")} /\ "job_id" \in Jobstate.required
  BY DEF Jobstate, Table
<1>6. /\ Team.refs = {} /\ Product.refs = {} /\ User.refs = {} /\ Log.refs = {}
      /\ JobEvent.refs = {} /\ Counter.refs = {}
  BY DEF Team, Product, User, Log, JobEvent, Counter, Table
<1> QED
  BY <1>1, <1>2, <1>3, <1>4, <1>5, <1>6

LEMMA LinkKeys ==
  ASSUME NEW a, NEW at, NEW b, NEW bt
  PROVE  Link(a, at, b, bt).refs = {Cascade(a, at), Cascade(b, bt)}
BY DEF Link, Table

LEMMA Heights ==
  /\ Height("teams") = 5 /\ Height("topics") = 4 /\ Height("products") = 4
  /\ Height("remotecis") = 4 /\ Height("pipelines") = 4 /\ Height("jobs") = 3
  /\ Height("jobstates") = 2 /\ Height("files") = 1 /\ Height("components") = 1
  /\ Height("users") = 1 /\ Height("users_teams") = 0 /\ Height("feeders") = 0
  /\ Height("component_files") = 0 /\ Height("jobs_keys_values") = 0
  /\ Height("tests_results") = 0
BY DEF Height

(* Each key of each table is one of the two kinds.                           *)
LEMMA AllKeys ==
  ASSUME NEW table \in DOMAIN Declared, NEW ref \in Declared[table].refs
  PROVE  KeyDeclared(table, ref)
<1>1. CASE table = "jobs"
  <2>1. \/ /\ ref[3] = "CASCADE"
           /\ ref[2] \in {"topics", "remotecis", "teams", "products", "pipelines"}
        \/ ref[3] = "NO_ACTION" /\ ref[2] = "jobs"
    BY <1>1, JobKeys, RefFields
  <2> QED
    BY <1>1, <2>1, Heights DEF KeyDeclared
<1>2. CASE table = "files"
  BY <1>2, FileKeys, RefFields, Heights DEF KeyDeclared
<1>3. CASE table \in {"remotecis", "pipelines", "topics", "jobstates", "teams", "products",
                      "users", "logs", "jobs_events", "counter"}
  <2>1. \/ table \in {"remotecis", "pipelines"} /\ ref = Cascade("team_id", "teams")
        \/ table = "jobstates" /\ ref = Cascade("job_id", "jobs")
        \/ table = "topics" /\ ref = NoAction("product_id", "products")
        \/ table = "topics" /\ ref = NoAction("next_topic_id", "topics")
    BY <1>3, OtherKeys
  <2> QED
    BY <2>1, Heights, RefFields DEF KeyDeclared
<1>4. CASE table \in {"user_remotecis", "products_teams", "teams_components_access",
                      "users_topics", "jobs_components"}
  <2>1. /\ Declared["user_remotecis"] = UserRemotecis
        /\ Declared["products_teams"] = JoinProductsTeams
        /\ Declared["teams_components_access"] = JoinTeamsComponentsAccess
        /\ Declared["users_topics"] = UserTopic
        /\ Declared["jobs_components"] = JoinJobsComponents
    BY DEF Declared
  <2>2. \E a, at, b, bt : /\ Declared[table] = Link(a, at, b, bt)
                          /\ {at, bt} \subseteq {"users", "remotecis", "products", "teams",
                                                 "topics", "jobs", "components"}
    BY <1>4, <2>1 DEF UserRemotecis, JoinProductsTeams, JoinTeamsComponentsAccess,
       UserTopic, JoinJobsComponents
  <2>3. PICK a, at, b, bt : /\ Declared[table] = Link(a, at, b, bt)
                            /\ {at, bt} \subseteq {"users", "remotecis", "products", "teams",
                                                   "topics", "jobs", "components"}
    BY <2>2
  <2>4. ref = Cascade(a, at) \/ ref = Cascade(b, bt)
    BY <2>3, LinkKeys
  <2>5. ref[3] = "CASCADE" /\ ref[2] \in {"users", "remotecis", "products", "teams",
                                          "topics", "jobs", "components"}
    BY <2>3, <2>4, RefFields
  <2> QED
    BY <1>4, <2>5 DEF KeyDeclared, Height
<1>5. CASE table \in {"users_teams", "feeders", "component_files", "components",
                      "jobs_keys_values", "tests_results"}
  <2>1. /\ Declared["users_teams"] = UsersTeams /\ Declared["feeders"] = Feeder
        /\ Declared["component_files"] = Componentfile /\ Declared["components"] = Component
        /\ Declared["jobs_keys_values"] = JobKeyValue
        /\ Declared["tests_results"] = TestsResult
    BY DEF Declared
  <2>2. /\ UsersTeams.refs = {Cascade("user_id", "users"), Cascade("team_id", "teams")}
        /\ Feeder.refs = {Cascade("team_id", "teams")}
        /\ Componentfile.refs = {Cascade("component_id", "components")}
        /\ Component.refs = {Cascade("topic_id", "topics"), Cascade("team_id", "teams")}
        /\ JobKeyValue.refs = {Cascade("job_id", "jobs")}
        /\ TestsResult.refs = {Cascade("job_id", "jobs"), Cascade("file_id", "files")}
    BY DEF UsersTeams, Feeder, Componentfile, Component, JobKeyValue, TestsResult, Table
  <2>3. \E column : \E target \in {"users", "teams", "components", "topics", "jobs", "files"} :
          /\ ref = Cascade(column, target)
          /\ table = "components" => target \in {"topics", "teams"}
    BY <1>5, <2>1, <2>2
  <2> QED
    BY <1>5, <2>3, Heights, RefFields DEF KeyDeclared
<1> QED
  BY <1>1, <1>2, <1>3, <1>4, <1>5, Tables

-----------------------------------------------------------------------------
(* Cascades. A row whose key names a row of S with ON DELETE CASCADE is of a *)
(* lower table, so five steps reach every row that goes.                     *)
KeysInv ==
  \A i \in DOMAIN rows : rows[i].table \in DOMAIN Declared /\ KeysHold(rows[i], rows)

NoneIsNoRow == None \notin DOMAIN rows

HeightOf(i) == Height(rows[i].table)

LEMMA HeightRange == \A i : HeightOf(i) \in 0..5
<1>1. \A t : Height(t) \in 0..5
  BY DEF Height
<1> QED
  BY <1>1 DEF HeightOf

LEMMA PointingNames ==
  ASSUME KeysInv, NoneIsNoRow, NEW S \in SUBSET DOMAIN rows, NEW rule,
         NEW k \in Pointing(S, rule)
  PROVE  /\ k \in DOMAIN rows
         /\ \E ref \in Declared[rows[k].table].refs :
              /\ ref[3] = rule /\ Named(k, ref[1]) \in S
              /\ rows[Named(k, ref[1])].table = ref[2]
<1>1. k \in DOMAIN rows
  BY DEF Pointing
<1>2. PICK ref \in Declared[rows[k].table].refs : ref[3] = rule /\ Named(k, ref[1]) \in S
  BY DEF Pointing
<1>3. KeysHold(rows[k], rows) /\ Named(k, ref[1]) # None
  BY <1>1, <1>2 DEF KeysInv, NoneIsNoRow
<1>4. rows[Named(k, ref[1])].table = ref[2]
  BY <1>2, <1>3 DEF KeysHold, Named
<1> QED
  BY <1>1, <1>2, <1>4

LEMMA CascadeDescends ==
  ASSUME KeysInv, NoneIsNoRow, NEW S \in SUBSET DOMAIN rows,
         NEW k \in Pointing(S, "CASCADE")
  PROVE  k \in DOMAIN rows /\ \E v \in S : HeightOf(k) < HeightOf(v) /\ k \in Pointing({v}, "CASCADE")
<1>1. k \in DOMAIN rows
  BY PointingNames
<1>2. PICK ref \in Declared[rows[k].table].refs :
        /\ ref[3] = "CASCADE" /\ Named(k, ref[1]) \in S
        /\ rows[Named(k, ref[1])].table = ref[2]
  BY PointingNames
<1>3. KeyDeclared(rows[k].table, ref)
  BY <1>1, AllKeys DEF KeysInv
<1>4. HeightOf(k) < HeightOf(Named(k, ref[1]))
  BY <1>2, <1>3 DEF KeyDeclared, HeightOf
<1>5. k \in Pointing({Named(k, ref[1])}, "CASCADE")
  BY <1>1, <1>2 DEF Pointing
<1> QED
  BY <1>1, <1>2, <1>4, <1>5

LEMMA PointingMonotone ==
  ASSUME NEW S, NEW T, S \subseteq T, NEW rule
  PROVE  Pointing(S, rule) \subseteq Pointing(T, rule)
BY DEF Pointing

LEMMA CascadeLevel ==
  ASSUME KeysInv, NoneIsNoRow, NEW S \in SUBSET DOMAIN rows, NEW n \in Int,
         \A v \in Cascaded(S) \ S : HeightOf(v) <= n
  PROVE  /\ Cascaded(S) \in SUBSET DOMAIN rows /\ S \subseteq Cascaded(S)
         /\ \A k \in Cascaded(Cascaded(S)) \ Cascaded(S) : HeightOf(k) <= n - 1
<1>1. Cascaded(S) \in SUBSET DOMAIN rows /\ S \subseteq Cascaded(S)
  BY DEF Cascaded, Pointing
<1>2. ASSUME NEW k \in Cascaded(Cascaded(S)) \ Cascaded(S)
      PROVE  HeightOf(k) <= n - 1
  <2>1. k \in Pointing(Cascaded(S), "CASCADE")
    BY <1>2 DEF Cascaded
  <2>2. PICK v \in Cascaded(S) : HeightOf(k) < HeightOf(v) /\ k \in Pointing({v}, "CASCADE")
    BY <1>1, <2>1, CascadeDescends
  <2>3. v \notin S
    BY <1>2, <2>2, PointingMonotone DEF Cascaded
  <2>4. HeightOf(v) <= n
    BY <2>3
  <2> QED
    BY <2>2, <2>4, HeightRange
<1> QED
  BY <1>1, <1>2

(* The rows that go are those of S and all that cascade from them.           *)
LEMMA RemovedClosed ==
  ASSUME KeysInv, NoneIsNoRow, NEW S \in SUBSET DOMAIN rows
  PROVE  /\ Removed(S) \in SUBSET DOMAIN rows
         /\ S \subseteq Removed(S)
         /\ Pointing(Removed(S), "CASCADE") \subseteq Removed(S)
         /\ \A k \in Removed(S) : k \in S \/ k \in Pointing(Removed(S), "CASCADE")
<1> DEFINE C1 == Cascaded(S)
           C2 == Cascaded(C1)
           C3 == Cascaded(C2)
           C4 == Cascaded(C3)
           C5 == Cascaded(C4)
<1>0. Removed(S) = C5
  BY DEF Removed
<1>1. C1 \in SUBSET DOMAIN rows /\ S \subseteq C1 /\ \A v \in C1 \ S : HeightOf(v) <= 4
  <2>1. ASSUME NEW v \in C1 \ S PROVE HeightOf(v) <= 4
    <3>1. v \in Pointing(S, "CASCADE")
      BY <2>1 DEF C1, Cascaded
    <3>2. PICK u \in S : HeightOf(v) < HeightOf(u)
      BY <3>1, CascadeDescends
    <3> QED
      BY <3>2, HeightRange
  <2> QED
    BY <2>1 DEF Cascaded, Pointing
<1> HIDE DEF C1
<1>2. C2 \in SUBSET DOMAIN rows /\ C1 \subseteq C2 /\ \A v \in C2 \ C1 : HeightOf(v) <= 3
  <2>1. /\ C1 \in SUBSET DOMAIN rows /\ S \subseteq C1
        /\ \A k \in Cascaded(C1) \ C1 : HeightOf(k) <= 4 - 1
    BY <1>1, CascadeLevel DEF C1
  <2>2. C2 \in SUBSET DOMAIN rows /\ C1 \subseteq C2
    BY <2>1 DEF Cascaded, Pointing
  <2> QED
    BY <2>1, <2>2
<1> HIDE DEF C2
<1>3. C3 \in SUBSET DOMAIN rows /\ C2 \subseteq C3 /\ \A v \in C3 \ C2 : HeightOf(v) <= 2
  <2>1. \A k \in Cascaded(C2) \ C2 : HeightOf(k) <= 3 - 1
    BY <1>1, <1>2, CascadeLevel DEF C2
  <2>2. C3 \in SUBSET DOMAIN rows /\ C2 \subseteq C3
    BY <1>2 DEF Cascaded, Pointing
  <2> QED
    BY <2>1, <2>2
<1> HIDE DEF C3
<1>4. C4 \in SUBSET DOMAIN rows /\ C3 \subseteq C4 /\ \A v \in C4 \ C3 : HeightOf(v) <= 1
  <2>1. \A k \in Cascaded(C3) \ C3 : HeightOf(k) <= 2 - 1
    BY <1>2, <1>3, CascadeLevel DEF C3
  <2>2. C4 \in SUBSET DOMAIN rows /\ C3 \subseteq C4
    BY <1>3 DEF Cascaded, Pointing
  <2> QED
    BY <2>1, <2>2
<1> HIDE DEF C4
<1>5. C5 \in SUBSET DOMAIN rows /\ C4 \subseteq C5 /\ \A v \in C5 \ C4 : HeightOf(v) <= 0
  <2>1. \A k \in Cascaded(C4) \ C4 : HeightOf(k) <= 1 - 1
    BY <1>3, <1>4, CascadeLevel DEF C4
  <2>2. C5 \in SUBSET DOMAIN rows /\ C4 \subseteq C5
    BY <1>4 DEF Cascaded, Pointing
  <2> QED
    BY <2>1, <2>2
<1> HIDE DEF C5
<1>6. Cascaded(C5) \subseteq C5
  <2>1. \A k \in Cascaded(C5) \ C5 : HeightOf(k) <= 0 - 1
    BY <1>4, <1>5, CascadeLevel DEF C5
  <2> QED
    BY <2>1, HeightRange
<1>7. S \subseteq C5 /\ C1 \subseteq C5 /\ C2 \subseteq C5 /\ C3 \subseteq C5 /\ C4 \subseteq C5
  BY <1>1, <1>2, <1>3, <1>4, <1>5
<1>8. Pointing(C5, "CASCADE") \subseteq C5
  BY <1>6 DEF Cascaded
<1>9. ASSUME NEW k \in C5, k \notin S PROVE k \in Pointing(C5, "CASCADE")
  <2>1. \E T : T \subseteq C5 /\ k \in Pointing(T, "CASCADE")
    <3>1. CASE k \in C1
      BY <1>7, <1>9, <3>1 DEF C1, Cascaded
    <3>2. CASE k \in C2 \ C1
      BY <1>7, <3>2 DEF C2, Cascaded
    <3>3. CASE k \in C3 \ C2
      BY <1>7, <3>3 DEF C3, Cascaded
    <3>4. CASE k \in C4 \ C3
      BY <1>7, <3>4 DEF C4, Cascaded
    <3>5. CASE k \in C5 \ C4
      BY <1>7, <3>5 DEF C5, Cascaded
    <3> QED
      BY <1>9, <3>1, <3>2, <3>3, <3>4, <3>5
  <2> QED
    BY <2>1, PointingMonotone
<1> QED
  BY <1>0, <1>5, <1>7, <1>8, <1>9

(* No row that goes is of a higher table than the rows it cascades from.     *)
LEMMA RemovedHeight ==
  ASSUME KeysInv, NoneIsNoRow, NEW S \in SUBSET DOMAIN rows, NEW n \in Nat,
         \A i \in S : HeightOf(i) <= n
  PROVE  \A k \in Removed(S) : HeightOf(k) <= n
<1>1. ASSUME NEW T \in SUBSET DOMAIN rows, \A i \in T : HeightOf(i) <= n
      PROVE  Cascaded(T) \in SUBSET DOMAIN rows /\ \A k \in Cascaded(T) : HeightOf(k) <= n
  <2>1. Cascaded(T) \in SUBSET DOMAIN rows
    BY DEF Cascaded, Pointing
  <2>2. ASSUME NEW k \in Pointing(T, "CASCADE") PROVE HeightOf(k) <= n
    <3>1. PICK v \in T : HeightOf(k) < HeightOf(v)
      BY CascadeDescends
    <3> QED
      BY <1>1, <3>1, HeightRange
  <2> QED
    BY <1>1, <2>1, <2>2 DEF Cascaded
<1> DEFINE C1 == Cascaded(S)
           C2 == Cascaded(C1)
           C3 == Cascaded(C2)
           C4 == Cascaded(C3)
<1>2. Removed(S) = Cascaded(C4)
  BY DEF Removed
<1>3. C1 \in SUBSET DOMAIN rows /\ \A k \in C1 : HeightOf(k) <= n
  BY <1>1
<1> HIDE DEF C1
<1>4. C2 \in SUBSET DOMAIN rows /\ \A k \in C2 : HeightOf(k) <= n
  BY <1>1, <1>3
<1> HIDE DEF C2
<1>5. C3 \in SUBSET DOMAIN rows /\ \A k \in C3 : HeightOf(k) <= n
  BY <1>1, <1>4
<1> HIDE DEF C3
<1>6. C4 \in SUBSET DOMAIN rows /\ \A k \in C4 : HeightOf(k) <= n
  BY <1>1, <1>5
<1> HIDE DEF C4
<1> QED
  BY <1>1, <1>2, <1>6

-----------------------------------------------------------------------------
(* The rows keep their shape and no key dangles, whatever is marked, taken,  *)
(* added or written.                                                         *)
RowShape ==
  \A i \in DOMAIN rows :
    /\ i \in DOMAIN Unborn => rows[i].table = Unborn[i]
    /\ IsRow(rows[i]) /\ rows[i].state \in {"active", "archived"}
    /\ KeysHold(rows[i], rows)

LEMMA RowShapeKeys == RowShape => KeysInv
BY DEF RowShape, KeysInv, IsRow

LEMMA KeysStay ==
  ASSUME NEW row, NEW row2, NEW db, NEW db2, KeysHold(row, db),
         row2.table = row.table, row2.refs = row.refs,
         \A ref \in Declared[row.table].refs :
           KeyOf(row, ref[1]) # None =>
             /\ KeyOf(row, ref[1]) \in DOMAIN db2
             /\ db2[KeyOf(row, ref[1])].table = db[KeyOf(row, ref[1])].table
  PROVE  KeysHold(row2, db2)
<1>1. \A c : KeyOf(row2, c) = KeyOf(row, c)
  BY DEF KeyOf
<1> QED
  BY <1>1 DEF KeysHold

LEMMA KeysSame ==
  ASSUME NEW row, NEW row2, NEW db, KeysHold(row, db),
         row2.table = row.table, row2.refs = row.refs
  PROVE  KeysHold(row2, db)
<1>1. \A c : KeyOf(row2, c) = KeyOf(row, c)
  BY DEF KeyOf
<1> QED
  BY <1>1 DEF KeysHold

LEMMA KeyInDb ==
  ASSUME NEW row, NEW db, KeysHold(row, db), NEW ref \in Declared[row.table].refs,
         KeyOf(row, ref[1]) # None
  PROVE  KeyOf(row, ref[1]) \in DOMAIN db /\ db[KeyOf(row, ref[1])].table = ref[2]
BY DEF KeysHold

LEMMA Marked ==
  ASSUME RowShape, NEW S
  PROVE  /\ DOMAIN Archived(S) = DOMAIN rows
         /\ \A i \in DOMAIN rows :
              /\ Archived(S)[i].table = rows[i].table /\ Archived(S)[i].refs = rows[i].refs
              /\ Archived(S)[i].state = IF i \in S THEN "archived" ELSE rows[i].state
              /\ IsRow(Archived(S)[i])
<1>1. ASSUME NEW i \in DOMAIN rows
      PROVE  /\ Archived(S)[i].table = rows[i].table /\ Archived(S)[i].refs = rows[i].refs
             /\ Archived(S)[i].state = IF i \in S THEN "archived" ELSE rows[i].state
             /\ IsRow(Archived(S)[i])
  <2>1. IsRow(rows[i])
    BY DEF RowShape
  <2>2. Archived(S)[i] = IF i \in S THEN [rows[i] EXCEPT !.state = "archived"] ELSE rows[i]
    BY DEF Archived
  <2>3. CASE i \in S
    <3> DEFINE r == rows[i]
               r2 == [table |-> r.table, state |-> "archived", refs |-> r.refs]
    <3>1. r = [table |-> r.table, state |-> r.state,
               refs |-> [c \in DOMAIN r.refs |-> r.refs[c]]]
      BY <2>1 DEF IsRow
    <3>2. r.refs = [c \in DOMAIN r.refs |-> r.refs[c]]
      BY <3>1
    <3>3. r = [table |-> r.table, state |-> r.state, refs |-> r.refs]
      BY <3>1, <3>2
    <3>4. [r EXCEPT !.state = "archived"] = r2
      BY <3>3
    <3>5. r2.table = r.table /\ r2.refs = r.refs /\ r2.state = "archived"
      OBVIOUS
    <3>6. r2 = [table |-> r2.table, state |-> r2.state,
                refs |-> [c \in DOMAIN r2.refs |-> r2.refs[c]]]
      BY <3>2
    <3> HIDE DEF r2
    <3>7. Archived(S)[i] = r2
      BY <2>2, <2>3, <3>4
    <3> QED
      BY <2>1, <2>3, <3>5, <3>6, <3>7 DEF IsRow
  <2>4. CASE i \notin S
    BY <2>1, <2>2, <2>4
  <2> QED
    BY <2>3, <2>4
<1> QED
  BY <1>1 DEF Archived

(* A DELETE marks the rows S and takes rows that no key names.               *)
LEMMA MarkShape ==
  ASSUME RowShape, NoneIsNoRow, NEW S, NEW D \in SUBSET Of("users_teams"),
         DOMAIN rows' = DOMAIN rows \ D, \A k \in DOMAIN rows' : rows'[k] = Archived(S)[k]
  PROVE  /\ RowShape' /\ DOMAIN rows' = DOMAIN rows \ D
         /\ \A i \in DOMAIN rows' :
              /\ rows'[i].table = rows[i].table /\ rows'[i].refs = rows[i].refs
              /\ rows'[i].state = IF i \in S THEN "archived" ELSE rows[i].state
<1>1. /\ DOMAIN rows' = DOMAIN rows \ D
      /\ \A i \in DOMAIN rows' :
           /\ rows'[i].table = rows[i].table /\ rows'[i].refs = rows[i].refs
           /\ rows'[i].state = IF i \in S THEN "archived" ELSE rows[i].state
           /\ IsRow(rows'[i])
  BY Marked
<1>2. ASSUME NEW i \in DOMAIN rows' PROVE KeysHold(rows'[i], rows')
  <2>1. KeysHold(rows[i], rows) /\ rows[i].table \in DOMAIN Declared
    BY <1>1 DEF RowShape, IsRow
  <2>2. ASSUME NEW ref \in Declared[rows[i].table].refs, KeyOf(rows[i], ref[1]) # None
        PROVE  /\ KeyOf(rows[i], ref[1]) \in DOMAIN rows'
               /\ rows'[KeyOf(rows[i], ref[1])].table = rows[KeyOf(rows[i], ref[1])].table
    <3>1. KeyOf(rows[i], ref[1]) \in DOMAIN rows /\ rows[KeyOf(rows[i], ref[1])].table = ref[2]
      BY <2>1, <2>2, KeyInDb
    <3>2. KeyDeclared(rows[i].table, ref)
      BY <2>1, AllKeys
    <3>3. \A t : Height(t) \in 0..5
      BY DEF Height
    <3>4. ref[2] # "users_teams"
      BY <3>2, <3>3, Heights DEF KeyDeclared
    <3> QED
      BY <1>1, <3>1, <3>4 DEF Of
  <2>3. KeysHold(rows[i], rows')
    BY <2>1, <2>2, KeysStay
  <2> QED
    BY <1>1, <2>3, KeysSame
<1> QED
  BY <1>1, <1>2 DEF RowShape

LEMMA TakeShape ==
  ASSUME RowShape, NoneIsNoRow, NEW D, rows' = Without(D),
         Pointing(D, "CASCADE") \subseteq D, Pointing(D, "NO_ACTION") \subseteq D
  PROVE  /\ RowShape' /\ DOMAIN rows' = DOMAIN rows \ D
         /\ \A i \in DOMAIN rows' : rows'[i] = rows[i]
<1>1. /\ DOMAIN rows' = DOMAIN rows \ D
      /\ \A i \in DOMAIN rows' : rows'[i] = rows[i]
  BY DEF Without
<1>2. ASSUME NEW i \in DOMAIN rows' PROVE KeysHold(rows'[i], rows')
  <2>1. KeysHold(rows[i], rows) /\ rows[i].table \in DOMAIN Declared /\ i \in DOMAIN rows
    BY <1>1 DEF RowShape, IsRow
  <2>2. ASSUME NEW ref \in Declared[rows[i].table].refs, KeyOf(rows[i], ref[1]) # None
        PROVE  /\ KeyOf(rows[i], ref[1]) \in DOMAIN rows'
               /\ rows'[KeyOf(rows[i], ref[1])].table = rows[KeyOf(rows[i], ref[1])].table
    <3>1. KeyOf(rows[i], ref[1]) \in DOMAIN rows
      BY <2>1, <2>2, KeyInDb
    <3>2. ref[3] = "CASCADE" \/ ref[3] = "NO_ACTION"
      BY <2>1, AllKeys DEF KeyDeclared
    <3>3. KeyOf(rows[i], ref[1]) \notin D
      BY <1>1, <2>1, <3>2 DEF Pointing, Named
    <3> QED
      BY <1>1, <3>1, <3>3
  <2> QED
    BY <1>1, <2>1, <2>2, KeysStay
<1> QED
  BY <1>1, <1>2 DEF RowShape

LEMMA AddShape ==
  ASSUME RowShape, NEW i, NEW row, i \notin DOMAIN rows, rows' = With(i, row),
         i \in DOMAIN Unborn => row.table = Unborn[i],
         IsRow(row), row.state = "active", KeysHold(row, rows)
  PROVE  /\ RowShape' /\ DOMAIN rows' = DOMAIN rows \cup {i} /\ rows'[i] = row
         /\ \A k \in DOMAIN rows : rows'[k] = rows[k]
<1>1. /\ DOMAIN rows' = DOMAIN rows \cup {i} /\ rows'[i] = row
      /\ \A k \in DOMAIN rows : rows'[k] = rows[k]
  BY DEF With
<1>2. ASSUME NEW k, NEW r, KeysHold(r, rows)
      PROVE  KeysHold(r, rows')
  <2>1. ASSUME NEW ref \in Declared[r.table].refs, KeyOf(r, ref[1]) # None
        PROVE  /\ KeyOf(r, ref[1]) \in DOMAIN rows'
               /\ rows'[KeyOf(r, ref[1])].table = rows[KeyOf(r, ref[1])].table
    BY <1>1, <1>2, <2>1, KeyInDb
  <2> QED
    BY <1>2, <2>1, KeysStay
<1> QED
  BY <1>1, <1>2 DEF RowShape

(* A PUT writes one row, which keeps its table.                              *)
LEMMA WriteShape ==
  ASSUME RowShape, NEW i \in DOMAIN rows, NEW r2, rows' = [rows EXCEPT ![i] = r2],
         r2.table = rows[i].table, r2.state \in {"active", "archived"},
         IsRow(r2), KeysHold(r2, rows)
  PROVE  /\ RowShape' /\ DOMAIN rows' = DOMAIN rows /\ rows'[i] = r2
         /\ \A k \in DOMAIN rows : /\ k # i => rows'[k] = rows[k]
                                   /\ rows'[k].table = rows[k].table
<1>1. /\ DOMAIN rows' = DOMAIN rows /\ rows'[i] = r2
      /\ \A k \in DOMAIN rows : k # i => rows'[k] = rows[k]
  OBVIOUS
<1>2. \A k \in DOMAIN rows : rows'[k].table = rows[k].table
  BY <1>1
<1>3. ASSUME NEW row, KeysHold(row, rows) PROVE KeysHold(row, rows')
  <2>1. ASSUME NEW ref \in Declared[row.table].refs, KeyOf(row, ref[1]) # None
        PROVE  /\ KeyOf(row, ref[1]) \in DOMAIN rows'
               /\ rows'[KeyOf(row, ref[1])].table = rows[KeyOf(row, ref[1])].table
    BY <1>1, <1>2, <1>3, <2>1, KeyInDb
  <2> QED
    BY <1>3, <2>1, KeysStay
<1>4. ASSUME NEW k \in DOMAIN rows'
      PROVE  /\ k \in DOMAIN Unborn => rows'[k].table = Unborn[k]
             /\ IsRow(rows'[k]) /\ rows'[k].state \in {"active", "archived"}
             /\ KeysHold(rows'[k], rows')
  <2>1. CASE k = i
    BY <1>1, <1>3, <2>1 DEF RowShape
  <2>2. CASE k # i
    BY <1>1, <1>3, <2>2 DEF RowShape
  <2> QED
    BY <2>1, <2>2
<1> QED
  BY <1>1, <1>2, <1>4 DEF RowShape

(* What a PUT of the state writes.                                           *)
Toggled(i) == [rows[i] EXCEPT !.state = IF @ = "archived" THEN "active" ELSE "archived"]

LEMMA ToggledRow ==
  ASSUME RowShape, NEW i \in DOMAIN rows, NEW r2, r2 = Toggled(i)
  PROVE  /\ r2.table = rows[i].table /\ r2.refs = rows[i].refs
         /\ r2.state \in {"active", "archived"} /\ IsRow(r2) /\ KeysHold(r2, rows)
<1> DEFINE r == rows[i]
           state == IF r.state = "archived" THEN "active" ELSE "archived"
<1>1. IsRow(r) /\ KeysHold(r, rows)
  BY DEF RowShape
<1>2. r.refs = [c \in DOMAIN r.refs |-> r.refs[c]]
  BY <1>1 DEF IsRow
<1>3. r = [table |-> r.table, state |-> r.state, refs |-> r.refs]
  BY <1>1, <1>2 DEF IsRow
<1>4. r2 = [table |-> r.table, state |-> state, refs |-> r.refs]
  BY <1>3 DEF Toggled
<1>5. r2.table = r.table /\ r2.refs = r.refs /\ r2.state = state
  BY <1>4
<1>6. IsRow(r2)
  BY <1>1, <1>2, <1>4, <1>5 DEF IsRow
<1> QED
  BY <1>1, <1>5, <1>6, KeysSame

LEMMA WithKeyRow ==
  ASSUME RowShape, NEW i \in DOMAIN rows, NEW column, NEW v,
         \E ref \in Declared[rows[i].table].refs : ref[1] = column,
         NEW r2, r2 = WithKey(rows[i], column, v)
  PROVE  r2.table = rows[i].table /\ r2.state = rows[i].state /\ IsRow(r2)
<1> DEFINE r == rows[i]
           refs2 == [c \in DOMAIN r.refs \cup {column} |->
                       IF c = column THEN v ELSE r.refs[c]]
<1>1. IsRow(r)
  BY DEF RowShape
<1>2. r = [table |-> r.table, state |-> r.state, refs |-> r.refs]
  BY <1>1 DEF IsRow
<1>3. DOMAIN refs2 = DOMAIN r.refs \cup {column} /\ refs2 = [c \in DOMAIN refs2 |-> refs2[c]]
  OBVIOUS
<1>4. r2 = [r EXCEPT !.refs = refs2]
  BY DEF WithKey
<1> HIDE DEF refs2
<1>5. r2 = [table |-> r.table, state |-> r.state, refs |-> refs2]
  BY <1>2, <1>4
<1>6. r2.table = r.table /\ r2.state = r.state /\ r2.refs = refs2
  BY <1>5
<1> QED
  BY <1>1, <1>3, <1>5, <1>6 DEF IsRow

LEMMA MovableKeys ==
  ASSUME NEW key \in Movable
  PROVE  /\ \E ref \in Declared[key[1]].refs : ref[1] = key[2]
         /\ key[1] \notin {"jobs", "files", "jobstates"}
<1>1. Declared["feeders"] = Feeder /\ Declared["components"] = Component
  BY DEF Declared
<1>2. /\ Cascade("team_id", "teams") \in Declared["feeders"].refs
      /\ Cascade("topic_id", "topics") \in Declared["components"].refs
  BY <1>1 DEF Feeder, Component, Table
<1>3. /\ Cascade("team_id", "teams") \in Declared["remotecis"].refs
      /\ NoAction("product_id", "products") \in Declared["topics"].refs
      /\ NoAction("next_topic_id", "topics") \in Declared["topics"].refs
  BY OtherKeys
<1>4. \/ key[1] = "remotecis" /\ key[2] = "team_id"
      \/ key[1] = "feeders" /\ key[2] = "team_id"
      \/ key[1] = "components" /\ key[2] = "topic_id"
      \/ key[1] = "topics" /\ key[2] = "product_id"
      \/ key[1] = "topics" /\ key[2] = "next_topic_id"
  BY DEF Movable
<1> QED
  BY <1>2, <1>3, <1>4, RefFields

(* A PUT writes one row, and what it writes is a row again: it is archived   *)
(* or brought back, or names another parent.                                 *)
LEMMA PutShape ==
  ASSUME RowShape, NEW i \in DOMAIN rows,
         PutState(i) \/ \E key \in Movable : \E to : PutParent(i, key[2], to)
  PROVE  /\ RowShape' /\ DOMAIN rows' = DOMAIN rows
         /\ \A k \in DOMAIN rows : /\ k # i => rows'[k] = rows[k]
                                   /\ rows'[k].table = rows[k].table
         /\ rows[i].table \in {"jobs", "files", "jobstates"} => rows'[i].refs = rows[i].refs
         /\ put' = put \cup {i} /\ requests' = Overlapping /\ Change
         /\ UNCHANGED <<store, born, halfway, overlapped>>
<1>1. CASE PutState(i)
  <2>1. PICK r2 : r2 = Toggled(i)
    OBVIOUS
  <2>2. rows' = [rows EXCEPT ![i] = r2]
    BY <1>1, <2>1 DEF PutState, Toggled
  <2>3. /\ r2.table = rows[i].table /\ r2.refs = rows[i].refs
        /\ r2.state \in {"active", "archived"} /\ IsRow(r2) /\ KeysHold(r2, rows)
    BY <2>1, ToggledRow
  <2>4. /\ RowShape' /\ DOMAIN rows' = DOMAIN rows /\ rows'[i] = r2
        /\ \A k \in DOMAIN rows : /\ k # i => rows'[k] = rows[k]
                                  /\ rows'[k].table = rows[k].table
    BY <2>2, <2>3, WriteShape
  <2> QED
    BY <1>1, <2>3, <2>4 DEF PutState
<1>2. ASSUME NEW key \in Movable, NEW to, PutParent(i, key[2], to)
      PROVE  /\ RowShape' /\ DOMAIN rows' = DOMAIN rows
             /\ \A k \in DOMAIN rows : /\ k # i => rows'[k] = rows[k]
                                       /\ rows'[k].table = rows[k].table
             /\ rows[i].table \notin {"jobs", "files", "jobstates"}
  <2>1. PICK column : column = key[2]
    OBVIOUS
  <2>2. <<rows[i].table, column>> \in Movable
    BY <1>2, <2>1 DEF PutParent
  <2>3. /\ \E ref \in Declared[rows[i].table].refs : ref[1] = column
        /\ rows[i].table \notin {"jobs", "files", "jobstates"}
    BY <2>2, MovableKeys
  <2>4. PICK r2 : r2 = WithKey(rows[i], column, to)
    OBVIOUS
  <2>5. rows' = [rows EXCEPT ![i] = r2] /\ KeysHold(r2, rows)
    BY <1>2, <2>1, <2>4 DEF PutParent
  <2>6. r2.table = rows[i].table /\ r2.state = rows[i].state /\ IsRow(r2)
    BY <2>3, <2>4, WithKeyRow
  <2>7. r2.state \in {"active", "archived"}
    BY <2>6 DEF RowShape
  <2> QED
    BY <2>3, <2>5, <2>6, <2>7, WriteShape
<1>3. CASE \E key \in Movable : \E to : PutParent(i, key[2], to)
  BY <1>2, <1>3 DEF PutParent
<1> QED
  BY <1>1, <1>3

-----------------------------------------------------------------------------
(* The ids of rows still to come: an id that is gone never comes back.       *)
Pending == {q \in Requests : requests[q].op = "create"}
Fresh == (DOMAIN Unborn \ born) \cup {requests[q].id : q \in Pending}

(* A pending row whose parents are all there. Once one is gone, the INSERT   *)
(* will fail.                                                                *)
Present(row) == \A c \in DOMAIN row.refs : row.refs[c] \in DOMAIN rows \cup {None}

IsRequest(r) ==
  \/ r \in [op : {"none", "purge_jobs"}]
  \/ r \in [op : {"delete_team", "delete_remoteci"}, id : Ids]
  \/ /\ r = [op |-> "create", id |-> r.id, row |-> r.row, overlaps |-> r.overlaps]
     /\ r.overlaps \in BOOLEAN

(* A DELETE between its transactions has archived its row, unless a PUT has  *)
(* brought it back.                                                          *)
DeleteShape(r) ==
  r.op \in {"delete_team", "delete_remoteci"} =>
    /\ r.id \notin Fresh
    /\ r.id \in DOMAIN rows =>
         /\ rows[r.id].table = IF r.op = "delete_team" THEN "teams" ELSE "remotecis"
         /\ rows[r.id].state = "archived" \/ r.id \in put

(* A creation between its statements has an id of its own, and a row of      *)
(* which the keys hold as long as its parents are there.                     *)
CreateShape(r) ==
  r.op = "create" =>
    /\ r.id \in born /\ r.row.table = Unborn[r.id]
    /\ r.row.table \in {"jobs", "files"} /\ r.row.state = "active" /\ IsRow(r.row)
    /\ \A c \in DOMAIN r.row.refs : r.row.refs[c] \notin Fresh
    /\ Present(r.row) => KeysHold(r.row, rows)

RequestShape(q) ==
  /\ IsRequest(requests[q]) /\ DeleteShape(requests[q]) /\ CreateShape(requests[q])

IdsDiffer == \A p, q \in Pending : requests[p].id = requests[q].id => p = q

Bounds ==
  /\ store \subseteq Ids
  /\ born \subseteq DOMAIN Unborn
  /\ requests = [q \in Requests |-> requests[q]]
  /\ changes \in 0..MaxChanges
  /\ halfway \subseteq Ids /\ put \subseteq Ids /\ overlapped \subseteq Ids

HalfwayShape ==
  \A i \in halfway :
    /\ i \notin Fresh
    /\ i \in DOMAIN rows => rows[i].state = "archived" \/ i \in put

ShapeInv ==
  /\ RowShape
  /\ DOMAIN rows \subseteq Ids /\ DOMAIN rows \cap Fresh = {}
  /\ \A q \in Requests : RequestShape(q)
  /\ IdsDiffer /\ Bounds /\ HalfwayShape

LEMMA ShapeNone == ShapeInv => NoneIsNoRow /\ KeysInv
BY NoneAssumption, RowShapeKeys DEF ShapeInv, NoneIsNoRow

(* Requests that a step leaves alone, or only finds overlapping.             *)
SameRequest(q) ==
  \/ requests'[q] = requests[q]
  \/ requests[q].op = "create" /\ requests'[q] = [requests[q] EXCEPT !.overlaps = TRUE]

LEMMA SameFields ==
  ASSUME NEW q, IsRequest(requests[q]), SameRequest(q)
  PROVE  /\ IsRequest(requests'[q]) /\ requests'[q].op = requests[q].op
         /\ requests[q].op # "none" /\ requests[q].op # "purge_jobs" =>
              requests'[q].id = requests[q].id
         /\ requests[q].op = "create" =>
              /\ requests'[q].row = requests[q].row
              /\ requests'[q].overlaps = requests[q].overlaps \/ requests'[q].overlaps = TRUE
<1>1. CASE requests'[q] = requests[q]
  BY <1>1
<1>2. CASE /\ requests[q].op = "create"
           /\ requests'[q] = [requests[q] EXCEPT !.overlaps = TRUE]
  <2> DEFINE r == requests[q]
             r2 == [op |-> "create", id |-> r.id, row |-> r.row, overlaps |-> TRUE]
  <2>1. r = [op |-> "create", id |-> r.id, row |-> r.row, overlaps |-> r.overlaps]
    BY <1>2 DEF IsRequest
  <2>2. requests'[q] = r2
    BY <1>2, <2>1
  <2>3. r2.op = "create" /\ r2.id = r.id /\ r2.row = r.row /\ r2.overlaps = TRUE
    OBVIOUS
  <2>4. IsRequest(r2)
    BY DEF IsRequest
  <2> HIDE DEF r2
  <2> QED
    BY <1>2, <2>2, <2>3, <2>4
<1> QED
  BY <1>1, <1>2 DEF SameRequest

LEMMA OverlappingSame ==
  ASSUME Bounds, requests' = Overlapping \/ requests' = requests
  PROVE  /\ requests' = [q \in Requests |-> requests'[q]]
         /\ \A q \in Requests : SameRequest(q)
BY DEF Bounds, Overlapping, SameRequest

LEMMA OverlappingExcept ==
  ASSUME Bounds, NEW q \in Requests, NEW r,
         requests' = [Overlapping EXCEPT ![q] = r] \/ requests' = [requests EXCEPT ![q] = r]
  PROVE  /\ requests' = [p \in Requests |-> requests'[p]] /\ requests'[q] = r
         /\ \A p \in Requests \ {q} : SameRequest(p)
BY DEF Bounds, Overlapping, SameRequest

(* The rows go on: what stays keeps its table, and stays archived but for a  *)
(* PUT; and what comes was to come.                                          *)
Evolves ==
  /\ put \subseteq put'
  /\ \A i \in DOMAIN rows' :
       \/ /\ i \in DOMAIN rows /\ rows'[i].table = rows[i].table
          /\ rows[i].state = "archived" => rows'[i].state = "archived" \/ i \in put'
       \/ i \in Fresh \ DOMAIN rows
  /\ born \subseteq born' /\ Fresh' \subseteq Fresh

LEMMA RequestKept ==
  ASSUME ShapeInv, Evolves, NEW q \in Requests, SameRequest(q)
  PROVE  RequestShape(q)'
<1>1. RequestShape(q)
  BY DEF ShapeInv
<1>2. /\ IsRequest(requests'[q]) /\ requests'[q].op = requests[q].op
      /\ requests[q].op # "none" /\ requests[q].op # "purge_jobs" =>
           requests'[q].id = requests[q].id
      /\ requests[q].op = "create" => requests'[q].row = requests[q].row
  BY <1>1, SameFields DEF RequestShape
<1>3. DeleteShape(requests[q])'
  BY <1>1, <1>2 DEF RequestShape, DeleteShape, Evolves
<1>4. CreateShape(requests[q])'
  <2> SUFFICES ASSUME requests[q].op = "create" PROVE CreateShape(requests[q])'
    BY <1>2 DEF CreateShape
  <2> DEFINE row == requests[q].row
  <2>0. requests'[q].row = row /\ requests'[q].id = requests[q].id
    BY <1>2
  <2>1. /\ requests[q].id \in born /\ row.table = Unborn[requests[q].id]
        /\ row.table \in {"jobs", "files"} /\ row.state = "active" /\ IsRow(row)
        /\ \A c \in DOMAIN row.refs : row.refs[c] \notin Fresh
        /\ Present(row) => KeysHold(row, rows)
    BY <1>1 DEF RequestShape, CreateShape
  <2> HIDE DEF row
  <2>2. ASSUME \A c \in DOMAIN row.refs : row.refs[c] \in DOMAIN rows' \cup {None}
        PROVE  KeysHold(row, rows')
    <3>1. Present(row)
      BY <2>1, <2>2 DEF Present, Evolves
    <3>2. ASSUME NEW ref \in Declared[row.table].refs, KeyOf(row, ref[1]) # None
          PROVE  /\ KeyOf(row, ref[1]) \in DOMAIN rows'
                 /\ rows'[KeyOf(row, ref[1])].table = rows[KeyOf(row, ref[1])].table
      <4>1. ref[1] \in DOMAIN row.refs /\ KeyOf(row, ref[1]) = row.refs[ref[1]]
        BY <3>2 DEF KeyOf
      <4> QED
        BY <2>1, <2>2, <3>2, <4>1 DEF Evolves
    <3> QED
      BY <2>1, <3>1, <3>2, KeysStay
  <2> QED
    BY <2>0, <2>1, <2>2 DEF CreateShape, Present, Evolves
<1> QED
  BY <1>2, <1>3, <1>4 DEF RequestShape

(* A request starts to delete or to purge, or ends.                          *)
Begins(q) ==
  \/ requests'[q] = Idle \/ requests'[q] = [op |-> "purge_jobs"]
  \/ \E op \in {"delete_team", "delete_remoteci"}, i \in DOMAIN rows :
       /\ requests'[q] = [op |-> op, id |-> i]
       /\ rows[i].table = IF op = "delete_team" THEN "teams" ELSE "remotecis"
       /\ i \in DOMAIN rows' => rows'[i].state = "archived"

LEMMA ShapeQuiet ==
  ASSUME ShapeInv, RowShape', Bounds', born' = born, put \subseteq put',
         DOMAIN rows' \subseteq DOMAIN rows,
         \A i \in DOMAIN rows' :
           /\ rows'[i].table = rows[i].table
           /\ rows[i].state = "archived" => rows'[i].state = "archived" \/ i \in put',
         \A q \in Requests : SameRequest(q) \/ Begins(q),
         \A i \in halfway' : \/ i \in halfway
                             \/ \E q \in Requests :
                                  /\ requests[q].op \in {"delete_team", "delete_remoteci"}
                                  /\ requests[q].id = i
  PROVE  ShapeInv' /\ Evolves
<1>1. \A q \in Requests : IsRequest(requests[q])
  BY DEF ShapeInv, RequestShape
<1>2. ASSUME NEW q \in Pending'
      PROVE  q \in Pending /\ requests'[q].id = requests[q].id
  <2>1. ~Begins(q)
    <3>1. requests'[q].op = "create"
      BY <1>2 DEF Pending
    <3>2. requests'[q] # Idle /\ requests'[q] # [op |-> "purge_jobs"]
      BY <3>1 DEF Idle
    <3>3. ASSUME NEW op \in {"delete_team", "delete_remoteci"}, NEW i
          PROVE  requests'[q] # [op |-> op, id |-> i]
      BY <3>1
    <3> QED
      BY <3>2, <3>3 DEF Begins
  <2> QED
    BY <1>1, <1>2, <2>1, SameFields DEF Pending
<1>3. Fresh' \subseteq Fresh
  BY <1>2 DEF Fresh
<1>4. Evolves
  BY <1>3 DEF Evolves
<1>5. ASSUME NEW q \in Requests PROVE RequestShape(q)'
  <2>1. CASE SameRequest(q)
    BY <1>4, <2>1, RequestKept
  <2>2. CASE requests'[q] = Idle \/ requests'[q] = [op |-> "purge_jobs"]
    BY <2>2 DEF RequestShape, IsRequest, DeleteShape, CreateShape, Idle
  <2>3. ASSUME NEW op \in {"delete_team", "delete_remoteci"}, NEW i \in DOMAIN rows,
               requests'[q] = [op |-> op, id |-> i],
               rows[i].table = IF op = "delete_team" THEN "teams" ELSE "remotecis",
               i \in DOMAIN rows' => rows'[i].state = "archived"
        PROVE  RequestShape(q)'
    <3>1. i \in Ids /\ i \notin Fresh'
      BY <1>3 DEF ShapeInv
    <3>2. requests'[q].op = op /\ requests'[q].id = i
      BY <2>3
    <3>3. IsRequest(requests'[q])
      BY <2>3, <3>1 DEF IsRequest
    <3>4. DeleteShape(requests[q])'
      BY <2>3, <3>1, <3>2 DEF DeleteShape
    <3> QED
      BY <3>2, <3>3, <3>4 DEF RequestShape, CreateShape
  <2> QED
    BY <2>1, <2>2, <2>3 DEF Begins
<1>6. IdsDiffer'
  BY <1>2 DEF ShapeInv, IdsDiffer
<1>7. HalfwayShape'
  <2>1. ASSUME NEW i \in halfway'
        PROVE  /\ i \notin Fresh
               /\ i \in DOMAIN rows => rows[i].state = "archived" \/ i \in put
    BY <2>1 DEF ShapeInv, HalfwayShape, RequestShape, DeleteShape
  <2> QED
    BY <1>3, <2>1 DEF HalfwayShape
<1>8. DOMAIN rows' \subseteq Ids /\ DOMAIN rows' \cap Fresh' = {}
  BY <1>3 DEF ShapeInv
<1> QED
  BY <1>4, <1>5, <1>6, <1>7, <1>8 DEF ShapeInv

LEMMA ShapeMark ==
  ASSUME ShapeInv, NEW S, rows' = Archived(S), Bounds', UNCHANGED <<born, halfway, put>>,
         \A q \in Requests : SameRequest(q) \/ Begins(q)
  PROVE  ShapeInv' /\ Evolves
<1>1. DOMAIN rows' = DOMAIN rows \ {} /\ \A k \in DOMAIN rows' : rows'[k] = Archived(S)[k]
  BY DEF Archived
<1>2. /\ RowShape' /\ DOMAIN rows' = DOMAIN rows \ {}
      /\ \A i \in DOMAIN rows' :
           /\ rows'[i].table = rows[i].table
           /\ rows'[i].state = IF i \in S THEN "archived" ELSE rows[i].state
  <2>1. RowShape /\ NoneIsNoRow /\ {} \in SUBSET Of("users_teams")
    BY ShapeNone DEF ShapeInv
  <2> QED
    BY <1>1, <2>1, MarkShape
<1> QED
  BY <1>2, ShapeQuiet

LEMMA ShapeTake ==
  ASSUME ShapeInv, NEW S \in SUBSET DOMAIN rows, rows' = Without(Removed(S)),
         Pointing(Removed(S), "NO_ACTION") \subseteq Removed(S),
         Bounds', UNCHANGED <<born, halfway, put>>,
         \A q \in Requests : SameRequest(q) \/ Begins(q)
  PROVE  ShapeInv' /\ Evolves
<1>1. Pointing(Removed(S), "CASCADE") \subseteq Removed(S)
  BY ShapeNone, RemovedClosed
<1>2. /\ RowShape' /\ DOMAIN rows' = DOMAIN rows \ Removed(S)
      /\ \A i \in DOMAIN rows' : rows'[i] = rows[i]
  BY <1>1, TakeShape, ShapeNone DEF ShapeInv
<1> QED
  BY <1>2, ShapeQuiet

LEMMA ShapeSame ==
  ASSUME ShapeInv, rows' = rows, Bounds', UNCHANGED <<born, halfway, put>>,
         \A q \in Requests : SameRequest(q) \/ Begins(q)
  PROVE  ShapeInv' /\ Evolves
<1>1. RowShape'
  BY DEF ShapeInv, RowShape
<1> QED
  BY <1>1, ShapeQuiet

LEMMA ChangeBound ==
  ASSUME Bounds, Change
  PROVE  changes' \in 0..MaxChanges
BY MaxChangesAssumption DEF Bounds, Change

LEMMA ShapeNextDelete ==
  ASSUME ShapeInv, NextDelete
  PROVE  ShapeInv' /\ Evolves
<1>0. Bounds /\ DOMAIN rows \subseteq Ids
  BY DEF ShapeInv
<1>1. ASSUME NEW S \in SUBSET DOMAIN rows PROVE Missed(S) \subseteq Ids
  BY <1>0 DEF Missed
<1>2. ASSUME NEW i \in DOMAIN rows, DeleteOne(i) \/ DeleteTopic(i)
      PROVE  ShapeInv' /\ Evolves
  <2>1. \E S : rows' = Archived(S)
    BY <1>2 DEF DeleteOne, DeleteTopic
  <2>2. Bounds'
    BY <1>0, <1>2, ChangeBound, OverlappingSame DEF DeleteOne, DeleteTopic, Bounds
  <2>3. UNCHANGED <<born, halfway, put>> /\ \A q \in Requests : SameRequest(q)
    BY <1>0, <1>2, OverlappingSame DEF DeleteOne, DeleteTopic
  <2> QED
    BY <2>1, <2>2, <2>3, ShapeMark
<1>3. ASSUME NEW i \in DOMAIN rows, DeleteJob(i) \/ DeleteFile(i)
      PROVE  ShapeInv' /\ Evolves
  <2>1. \E S : rows' = Archived(S)
    BY <1>3 DEF DeleteJob, DeleteFile
  <2>2. Naming("files", "job_id", i) \in SUBSET DOMAIN rows
    BY DEF Naming, Of
  <2>3. Bounds'
    BY <1>0, <1>1, <1>3, <2>2, ChangeBound, OverlappingSame DEF DeleteJob, DeleteFile, Bounds
  <2>4. UNCHANGED <<born, halfway, put>> /\ \A q \in Requests : SameRequest(q)
    BY <1>0, <1>3, OverlappingSame DEF DeleteJob, DeleteFile
  <2> QED
    BY <2>1, <2>3, <2>4, ShapeMark
<1>4. ASSUME NEW q \in Requests, NEW i \in DOMAIN rows, DeleteRemoteci(q, i)
      PROVE  ShapeInv' /\ Evolves
  <2>1. /\ rows' = Archived({i}) /\ rows[i].table = "remotecis"
        /\ requests' = [Overlapping EXCEPT ![q] = [op |-> "delete_remoteci", id |-> i]]
        /\ born' = born /\ halfway' = halfway
        /\ UNCHANGED <<store, put, overlapped>> /\ changes' \in 0..MaxChanges
    BY <1>0, <1>4, ChangeBound DEF DeleteRemoteci
  <2>2. /\ requests' = [p \in Requests |-> requests'[p]]
        /\ requests'[q] = [op |-> "delete_remoteci", id |-> i]
        /\ \A p \in Requests \ {q} : SameRequest(p)
    BY <1>0, <2>1, OverlappingExcept
  <2>3. Bounds'
    BY <1>0, <2>1, <2>2 DEF Bounds
  <2>4. rows'[i].state = "archived"
    BY <2>1, Marked DEF ShapeInv
  <2>5. Begins(q)
    BY <2>1, <2>2, <2>4 DEF Begins
  <2> QED
    BY <2>1, <2>2, <2>3, <2>5, ShapeMark
<1>5. ASSUME NEW q \in Requests, NEW i \in DOMAIN rows, DeleteTeam(q, i)
      PROVE  ShapeInv' /\ Evolves
  <2>1. PICK D \in RemovedMembers(i) :
          rows' = [k \in DOMAIN rows \ D |-> Archived({i})[k]]
    BY <1>5 DEF DeleteTeam
  <2>2. D \in SUBSET Of("users_teams")
    BY DEF RemovedMembers, Members, Naming
  <2>3. /\ rows[i].table = "teams"
        /\ requests' = [Overlapping EXCEPT ![q] = [op |-> "delete_team", id |-> i]]
        /\ born' = born /\ halfway' = halfway
        /\ UNCHANGED <<store, put, overlapped>> /\ changes' \in 0..MaxChanges
    BY <1>0, <1>5, ChangeBound DEF DeleteTeam
  <2>4. /\ requests' = [p \in Requests |-> requests'[p]]
        /\ requests'[q] = [op |-> "delete_team", id |-> i]
        /\ \A p \in Requests \ {q} : SameRequest(p)
    BY <1>0, <2>3, OverlappingExcept
  <2>5. Bounds'
    BY <1>0, <2>3, <2>4 DEF Bounds
  <2>6. /\ RowShape' /\ DOMAIN rows' = DOMAIN rows \ D
        /\ \A k \in DOMAIN rows' :
              /\ rows'[k].table = rows[k].table
              /\ rows'[k].state = IF k \in {i} THEN "archived" ELSE rows[k].state
    <3>1. RowShape /\ NoneIsNoRow
      BY ShapeNone DEF ShapeInv
    <3>2. PICK S : S = {i}
      OBVIOUS
    <3>3. DOMAIN rows' = DOMAIN rows \ D /\ \A k \in DOMAIN rows' : rows'[k] = Archived(S)[k]
      BY <2>1, <3>2
    <3>4. /\ RowShape' /\ DOMAIN rows' = DOMAIN rows \ D
          /\ \A k \in DOMAIN rows' :
              /\ rows'[k].table = rows[k].table
              /\ rows'[k].state = IF k \in S THEN "archived" ELSE rows[k].state
      BY <2>2, <3>1, <3>3, MarkShape
    <3> QED
      BY <3>2, <3>4
  <2>7. Begins(q)
    BY <2>3, <2>4, <2>6 DEF Begins
  <2> QED
    BY <2>3, <2>4, <2>5, <2>6, <2>7, ShapeQuiet
<1>6. ASSUME NEW q \in Requests, FinishDeleteTeam(q) \/ FinishDeleteRemoteci(q)
      PROVE  ShapeInv' /\ Evolves
  <2>1. \E S : rows' = Archived(S)
    BY <1>6 DEF FinishDeleteTeam, FinishDeleteRemoteci
  <2>2. /\ requests' = [Overlapping EXCEPT ![q] = Idle]
        /\ born' = born /\ halfway' = halfway /\ UNCHANGED <<store, put, changes>>
        /\ overlapped' \subseteq Ids
    BY <1>0, <1>1, <1>6 DEF FinishDeleteTeam, FinishDeleteRemoteci, Bounds, Of
  <2>3. /\ requests' = [p \in Requests |-> requests'[p]] /\ requests'[q] = Idle
        /\ \A p \in Requests \ {q} : SameRequest(p)
    BY <1>0, <2>2, OverlappingExcept
  <2>4. Bounds'
    BY <1>0, <2>2, <2>3 DEF Bounds
  <2>5. Begins(q)
    BY <2>3 DEF Begins
  <2> QED
    BY <2>1, <2>2, <2>3, <2>4, <2>5, ShapeMark
<1>7. ASSUME NEW q \in Requests, DieHalfway(q)
      PROVE  ShapeInv' /\ Evolves
  <2>1. /\ requests[q].op \in {"delete_team", "delete_remoteci"}
        /\ halfway' = halfway \cup {requests[q].id}
        /\ requests' = [requests EXCEPT ![q] = Idle]
        /\ UNCHANGED <<rows, store, born, changes, put, overlapped>>
    BY <1>7 DEF DieHalfway
  <2>2. requests[q].id \in Ids
    <3>1. IsRequest(requests[q]) /\ requests[q].op # "create"
      BY <2>1 DEF ShapeInv, RequestShape
    <3> QED
      BY <2>1, <3>1 DEF IsRequest
  <2>3. /\ requests' = [p \in Requests |-> requests'[p]] /\ requests'[q] = Idle
        /\ \A p \in Requests \ {q} : SameRequest(p)
    BY <1>0, <2>1, OverlappingExcept
  <2>4. Bounds' /\ Begins(q)
    BY <1>0, <2>1, <2>2, <2>3 DEF Bounds, Begins
  <2>5. RowShape'
    BY <2>1 DEF ShapeInv, RowShape
  <2> QED
    BY <2>1, <2>3, <2>4, <2>5, ShapeQuiet
<1> QED
  BY <1>2, <1>3, <1>4, <1>5, <1>6, <1>7 DEF NextDelete

(* Files and components are of too low a table for a key without a rule.     *)
LEMMA LowRows ==
  ASSUME KeysInv, NoneIsNoRow, NEW S \in SUBSET DOMAIN rows,
         \A i \in S : HeightOf(i) <= 1
  PROVE  Pointing(Removed(S), "NO_ACTION") = {}
<1>1. Removed(S) \in SUBSET DOMAIN rows /\ \A i \in Removed(S) : HeightOf(i) <= 1
  BY RemovedClosed, RemovedHeight
<1>2. ASSUME NEW k \in Pointing(Removed(S), "NO_ACTION") PROVE FALSE
  <2>1. k \in DOMAIN rows /\ rows[k].table \in DOMAIN Declared
    BY DEF Pointing, KeysInv
  <2>2. PICK ref \in Declared[rows[k].table].refs :
          /\ ref[3] = "NO_ACTION" /\ Named(k, ref[1]) \in Removed(S)
          /\ rows[Named(k, ref[1])].table = ref[2]
    BY <1>1, PointingNames
  <2>3. ref[2] \in {"topics", "products", "jobs"}
    BY <2>1, <2>2, AllKeys DEF KeyDeclared
  <2>4. HeightOf(Named(k, ref[1])) >= 3
    BY <2>2, <2>3, Heights DEF HeightOf
  <2> QED
    BY <1>1, <2>2, <2>4, HeightRange
<1> QED
  BY <1>2

LEMMA ShapeNextPurge ==
  ASSUME ShapeInv, NextPurge
  PROVE  ShapeInv' /\ Evolves
<1>0. Bounds /\ DOMAIN rows \subseteq Ids /\ KeysInv /\ NoneIsNoRow
  BY ShapeNone DEF ShapeInv
<1>1. \A t : ArchivedIn(t) \in SUBSET DOMAIN rows
  BY DEF ArchivedIn, Of
<1>2. ASSUME NEW t \in {"files", "components"}
      PROVE  Pointing(Removed(ArchivedIn(t)), "NO_ACTION") \subseteq Removed(ArchivedIn(t))
  <2>1. \A i \in ArchivedIn(t) : HeightOf(i) <= 1
    BY Heights DEF ArchivedIn, Of, HeightOf
  <2> QED
    BY <1>0, <1>1, <2>1, LowRows
<1>3. CASE PurgeComponents
  <2>1. Bounds'
    BY <1>0, <1>3 DEF PurgeComponents, Bounds
  <2>2. \A q \in Requests : SameRequest(q)
    BY <1>3 DEF PurgeComponents, SameRequest
  <2>3. PICK S \in SUBSET DOMAIN rows : S = ArchivedIn("components")
    BY <1>1
  <2>4. /\ rows' = Without(Removed(S)) /\ UNCHANGED <<born, halfway, put>>
        /\ Pointing(Removed(S), "NO_ACTION") \subseteq Removed(S)
    BY <1>2, <1>3, <2>3 DEF PurgeComponents
  <2> QED
    BY <2>1, <2>2, <2>4, ShapeTake
<1>4. ASSUME NEW q \in Requests, NEW whole \in BOOLEAN, PurgeFiles(q, whole)
      PROVE  ShapeInv' /\ Evolves
  <2> DEFINE r == IF whole THEN [op |-> "purge_jobs"] ELSE Idle
  <2>1. /\ requests' = [requests EXCEPT ![q] = r] /\ store' \subseteq store
        /\ UNCHANGED <<born, changes, halfway, put, overlapped>>
    BY <1>4 DEF PurgeFiles
  <2>2. /\ requests' = [p \in Requests |-> requests'[p]] /\ requests'[q] = r
        /\ \A p \in Requests \ {q} : SameRequest(p)
    BY <1>0, <2>1, OverlappingExcept
  <2>3. Bounds' /\ Begins(q)
    BY <1>0, <2>1, <2>2 DEF Bounds, Begins
  <2>4. PICK S \in SUBSET DOMAIN rows : S = ArchivedIn("files")
    BY <1>1
  <2>5. /\ rows' = Without(Removed(S))
        /\ Pointing(Removed(S), "NO_ACTION") \subseteq Removed(S)
    BY <1>2, <1>4, <2>4 DEF PurgeFiles
  <2> QED
    BY <2>1, <2>2, <2>3, <2>5, ShapeTake
<1>5. ASSUME NEW t, PurgeRows(t), requests' = [p \in Requests |-> requests'[p]],
             \A q \in Requests : SameRequest(q) \/ Begins(q)
      PROVE  ShapeInv' /\ Evolves
  <2>1. Bounds' /\ UNCHANGED <<born, halfway, put>>
    BY <1>0, <1>5 DEF PurgeRows, Bounds
  <2>2. PICK S \in SUBSET DOMAIN rows : S = ArchivedIn(t)
    BY <1>1
  <2>3. CASE rows' = rows
    BY <1>5, <2>1, <2>3, ShapeSame
  <2>4. CASE rows' # rows
    <3>1. rows' = Without(Removed(S)) /\ ~IsRefused(S)
      BY <1>5, <2>2, <2>4 DEF PurgeRows
    <3>2. Pointing(Removed(S), "NO_ACTION") \subseteq Removed(S)
      BY <3>1 DEF IsRefused
    <3> QED
      BY <1>5, <2>1, <3>1, <3>2, ShapeTake
  <2> QED
    BY <2>3, <2>4
<1>6. ASSUME NEW t \in DOMAIN Declared, PurgeTable(t)
      PROVE  ShapeInv' /\ Evolves
  <2>1. PurgeRows(t) /\ requests' = requests
    BY <1>6 DEF PurgeTable
  <2>2. requests' = [p \in Requests |-> requests'[p]] /\ \A q \in Requests : SameRequest(q)
    BY <1>0, <2>1 DEF Bounds, SameRequest
  <2> QED
    BY <1>5, <2>1, <2>2
<1>7. ASSUME NEW q \in Requests, PurgeJobs(q)
      PROVE  ShapeInv' /\ Evolves
  <2>1. requests' = [requests EXCEPT ![q] = Idle]
    BY <1>7 DEF PurgeJobs
  <2>2. /\ requests' = [p \in Requests |-> requests'[p]] /\ requests'[q] = Idle
        /\ \A p \in Requests \ {q} : SameRequest(p)
    BY <1>0, <2>1, OverlappingExcept
  <2>3. \A p \in Requests : SameRequest(p) \/ Begins(p)
    BY <2>2 DEF Begins
  <2>4. CASE PurgeRows("jobs")
    BY <1>5, <2>2, <2>3, <2>4
  <2>5. CASE UNCHANGED <<rows, store, born, changes, halfway, put, overlapped>>
    <3>1. Bounds'
      BY <1>0, <2>2, <2>5 DEF Bounds
    <3> QED
      BY <2>3, <2>5, <3>1, ShapeSame
  <2> QED
    BY <1>7, <2>4, <2>5 DEF PurgeJobs
<1> QED
  BY <1>3, <1>4, <1>6, <1>7 DEF NextPurge

-----------------------------------------------------------------------------
(* Inserts.                                                                  *)
LEMMA RowFields ==
  ASSUME NEW table, NEW refs
  PROVE  /\ Row(table, refs).table = table /\ Row(table, refs).state = "active"
         /\ Row(table, refs).refs = refs
BY DEF Row

LEMMA RemoteciTeam ==
  ASSUME RowShape, NEW i \in Of("remotecis")
  PROVE  Named(i, "team_id") \in Of("teams")
<1>1. KeysHold(rows[i], rows) /\ rows[i].table = "remotecis"
  BY DEF RowShape, Of
<1>2. Cascade("team_id", "teams") \in Declared["remotecis"].refs
      /\ "team_id" \in Declared["remotecis"].required
  BY OtherKeys
<1> QED
  BY <1>1, <1>2, RefFields DEF KeysHold, Named, Of

LEMMA JobParents ==
  ASSUME RowShape, NEW i \in Of("jobs")
  PROVE  /\ Named(i, "remoteci_id") \in Of("remotecis") /\ Named(i, "team_id") \in Of("teams")
         /\ Named(i, "topic_id") # None => Named(i, "topic_id") \in Of("topics")
         /\ Named(i, "product_id") # None => Named(i, "product_id") \in Of("products")
         /\ Named(i, "pipeline_id") # None => Named(i, "pipeline_id") \in Of("pipelines")
<1>1. KeysHold(rows[i], rows) /\ rows[i].table = "jobs"
  BY DEF RowShape, Of
<1>2. /\ Cascade("remoteci_id", "remotecis") \in Declared["jobs"].refs
      /\ Cascade("team_id", "teams") \in Declared["jobs"].refs
      /\ Cascade("topic_id", "topics") \in Declared["jobs"].refs
      /\ Cascade("product_id", "products") \in Declared["jobs"].refs
      /\ Cascade("pipeline_id", "pipelines") \in Declared["jobs"].refs
      /\ "remoteci_id" \in Declared["jobs"].required /\ "team_id" \in Declared["jobs"].required
  BY JobKeys
<1> QED
  BY <1>1, <1>2, RefFields DEF KeysHold, Named, Of

LEMMA TopicParents ==
  ASSUME RowShape, NEW i \in Of("topics"), Named(i, "product_id") # None
  PROVE  Named(i, "product_id") \in Of("products")
<1>1. KeysHold(rows[i], rows) /\ rows[i].table = "topics"
  BY DEF RowShape, Of
<1>2. NoAction("product_id", "products") \in Declared["topics"].refs
  BY OtherKeys
<1> QED
  BY <1>1, <1>2, RefFields DEF KeysHold, Named, Of

(* The rows the handlers make.                                               *)
JobRefs(remoteci, topic, previous, updated, pipeline) ==
  [remoteci_id |-> remoteci, team_id |-> Named(remoteci, "team_id"),
   topic_id |-> topic, product_id |-> Named(topic, "product_id"),
   previous_job_id |-> previous, update_previous_job_id |-> updated,
   pipeline_id |-> pipeline]

LEMMA JobRowKeys ==
  ASSUME NEW remoteci, NEW topic, NEW previous, NEW updated, NEW pipeline, NEW row,
         row = Row("jobs", JobRefs(remoteci, topic, previous, updated, pipeline))
  PROVE  /\ KeyOf(row, "remoteci_id") = remoteci
         /\ KeyOf(row, "team_id") = Named(remoteci, "team_id")
         /\ KeyOf(row, "topic_id") = topic
         /\ KeyOf(row, "product_id") = Named(topic, "product_id")
         /\ KeyOf(row, "previous_job_id") = previous
         /\ KeyOf(row, "update_previous_job_id") = updated
         /\ KeyOf(row, "pipeline_id") = pipeline
BY RowFields DEF KeyOf, JobRefs

LEMMA JobRow ==
  ASSUME RowShape, NoneIsNoRow,
         NEW remoteci \in Of("remotecis"), NEW topic \in Of("topics"),
         NEW previous \in Of("jobs") \cup {None}, NEW updated \in Of("jobs") \cup {None},
         NEW pipeline \in Of("pipelines") \cup {None},
         NEW row, row = Row("jobs", JobRefs(remoteci, topic, previous, updated, pipeline))
  PROVE  IsRow(row) /\ KeysHold(row, rows) /\ Present(row)
<1> DEFINE refs == JobRefs(remoteci, topic, previous, updated, pipeline)
<1>1. row.table = "jobs" /\ row.state = "active" /\ row.refs = refs
  BY RowFields
<1>2. DOMAIN refs = {"remoteci_id", "team_id", "topic_id", "product_id", "previous_job_id",
                     "update_previous_job_id", "pipeline_id"}
  BY DEF JobRefs
<1>3. /\ refs.remoteci_id = remoteci /\ refs.team_id = Named(remoteci, "team_id")
      /\ refs.topic_id = topic /\ refs.product_id = Named(topic, "product_id")
      /\ refs.previous_job_id = previous /\ refs.update_previous_job_id = updated
      /\ refs.pipeline_id = pipeline /\ refs = [c \in DOMAIN refs |-> refs[c]]
  BY DEF JobRefs
<1> HIDE DEF refs
<1>4. Named(remoteci, "team_id") \in Of("teams")
  BY RemoteciTeam
<1>5. Named(topic, "product_id") \in Of("products") \cup {None}
  BY TopicParents
<1>6. /\ KeyOf(row, "remoteci_id") = remoteci
      /\ KeyOf(row, "team_id") = Named(remoteci, "team_id")
      /\ KeyOf(row, "topic_id") = topic
      /\ KeyOf(row, "product_id") = Named(topic, "product_id")
      /\ KeyOf(row, "previous_job_id") = previous
      /\ KeyOf(row, "update_previous_job_id") = updated
      /\ KeyOf(row, "pipeline_id") = pipeline
  BY JobRowKeys
<1>7. IsRow(row)
  <2>1. row = [table |-> row.table, state |-> row.state, refs |-> row.refs]
    BY DEF Row
  <2>2. row.table \in DOMAIN Declared
    BY <1>1, Tables
  <2>3. ASSUME NEW c \in DOMAIN refs PROVE \E ref \in Declared["jobs"].refs : ref[1] = c
    <3>1. /\ Cascade("remoteci_id", "remotecis") \in Declared["jobs"].refs
          /\ Cascade("team_id", "teams") \in Declared["jobs"].refs
          /\ Cascade("topic_id", "topics") \in Declared["jobs"].refs
          /\ Cascade("product_id", "products") \in Declared["jobs"].refs
          /\ Cascade("pipeline_id", "pipelines") \in Declared["jobs"].refs
          /\ NoAction("previous_job_id", "jobs") \in Declared["jobs"].refs
          /\ NoAction("update_previous_job_id", "jobs") \in Declared["jobs"].refs
      BY JobKeys
    <3> QED
      BY <1>2, <3>1, RefFields
  <2> QED
    BY <1>1, <1>3, <2>1, <2>2, <2>3 DEF IsRow
<1>8. KeysHold(row, rows)
  <2>1. ASSUME NEW ref \in Declared["jobs"].refs
        PROVE  LET v == KeyOf(row, ref[1]) IN
               IF v = None THEN ref[1] \notin Declared["jobs"].required
               ELSE v \in DOMAIN rows /\ rows[v].table = ref[2]
    <3>1. CASE ref = Cascade("remoteci_id", "remotecis") \/ ref = Cascade("team_id", "teams")
      BY <1>4, <1>6, <3>1, RefFields DEF Of, NoneIsNoRow
    <3>2. CASE ref = Cascade("topic_id", "topics") \/ ref = Cascade("product_id", "products")
      BY <1>5, <1>6, <3>2, RefFields, JobKeys DEF Of
    <3>3. CASE ref \in {Cascade("pipeline_id", "pipelines"),
                        NoAction("previous_job_id", "jobs"),
                        NoAction("update_previous_job_id", "jobs")}
      BY <1>6, <3>3, RefFields, JobKeys DEF Of
    <3> QED
      BY <3>1, <3>2, <3>3, JobKeys
  <2> QED
    BY <1>1, <2>1 DEF KeysHold
<1>9. Present(row)
  BY <1>1, <1>2, <1>3, <1>4, <1>5 DEF Present, Of
<1> QED
  BY <1>7, <1>8, <1>9

LEMMA FileRow ==
  ASSUME RowShape, NoneIsNoRow, NEW job \in Of("jobs"), NEW row,
         row = Row("files", [job_id |-> job, team_id |-> Named(job, "team_id")])
  PROVE  /\ IsRow(row) /\ KeysHold(row, rows) /\ Present(row)
         /\ KeyOf(row, "job_id") = job /\ KeyOf(row, "team_id") = Named(job, "team_id")
         /\ KeyOf(row, "jobstate_id") = None
<1> DEFINE refs == [job_id |-> job, team_id |-> Named(job, "team_id")]
<1>1. row.table = "files" /\ row.state = "active" /\ row.refs = refs
  BY RowFields
<1>2. /\ DOMAIN refs = {"job_id", "team_id"} /\ refs = [c \in DOMAIN refs |-> refs[c]]
      /\ refs.job_id = job /\ refs.team_id = Named(job, "team_id")
  OBVIOUS
<1>3. row = [table |-> row.table, state |-> row.state, refs |-> row.refs]
  BY DEF Row
<1> HIDE DEF refs
<1>4. Named(job, "team_id") \in Of("teams")
  BY JobParents
<1>5. /\ KeyOf(row, "job_id") = job /\ KeyOf(row, "team_id") = Named(job, "team_id")
      /\ KeyOf(row, "jobstate_id") = None
  BY <1>1, <1>2 DEF KeyOf
<1>6. IsRow(row)
  <2>1. /\ Cascade("team_id", "teams") \in Declared["files"].refs
        /\ Cascade("job_id", "jobs") \in Declared["files"].refs
    BY FileKeys
  <2>2. \A c \in DOMAIN refs : \E ref \in Declared["files"].refs : ref[1] = c
    BY <1>2, <2>1, RefFields
  <2>3. row.table \in DOMAIN Declared
    BY <1>1, Tables
  <2> QED
    BY <1>1, <1>2, <1>3, <2>2, <2>3 DEF IsRow
<1>7. KeysHold(row, rows)
  <2>1. ASSUME NEW ref \in Declared["files"].refs
        PROVE  LET v == KeyOf(row, ref[1]) IN
               IF v = None THEN ref[1] \notin Declared["files"].required
               ELSE v \in DOMAIN rows /\ rows[v].table = ref[2]
    <3>1. CASE ref = Cascade("jobstate_id", "jobstates")
      BY <1>5, <3>1, RefFields, FileKeys
    <3>2. CASE ref = Cascade("team_id", "teams") \/ ref = Cascade("job_id", "jobs")
      BY <1>4, <1>5, <3>2, RefFields DEF Of, NoneIsNoRow
    <3> QED
      BY <3>1, <3>2, FileKeys
  <2> QED
    BY <1>1, <2>1 DEF KeysHold
<1>8. Present(row)
  BY <1>1, <1>2, <1>4 DEF Present, Of
<1> QED
  BY <1>5, <1>6, <1>7, <1>8

LEMMA UnbornIds == DOMAIN Unborn \subseteq Ids
<1> SUFFICES ASSUME NEW i \in DOMAIN Unborn PROVE i \in Ids
  OBVIOUS
<1> QED
  BY DEF Ids

LEMMA FreshInIds ==
  ASSUME ShapeInv
  PROVE  /\ Fresh \subseteq DOMAIN Unborn /\ Fresh \subseteq Ids /\ None \notin Fresh
         /\ \A q \in Pending : requests[q].id \in born
<1>1. \A q \in Pending : requests[q].id \in born
  BY DEF ShapeInv, RequestShape, CreateShape, Pending
<1>2. Fresh \subseteq DOMAIN Unborn
  BY <1>1 DEF ShapeInv, Bounds, Fresh
<1>3. None \notin Fresh
  BY <1>2, UnbornIds, NoneAssumption
<1> QED
  BY <1>1, <1>2, <1>3, UnbornIds

LEMMA ShapeStep ==
  ASSUME ShapeInv, RowShape', Bounds', Evolves, IdsDiffer', halfway' = halfway,
         put' = put, DOMAIN rows' \subseteq Ids, DOMAIN rows' \cap Fresh' = {},
         \A q \in Requests : \/ SameRequest(q) \/ RequestShape(q)'
                             \/ requests'[q] = Idle
  PROVE  ShapeInv'
<1>1. ASSUME NEW q \in Requests PROVE RequestShape(q)'
  <2>1. CASE SameRequest(q)
    BY <2>1, RequestKept
  <2>2. CASE requests'[q] = Idle
    BY <2>2 DEF RequestShape, IsRequest, DeleteShape, CreateShape, Idle
  <2> QED
    BY <2>1, <2>2
<1>2. HalfwayShape'
  BY DEF ShapeInv, HalfwayShape, Evolves
<1> QED
  BY <1>1, <1>2 DEF ShapeInv

LEMMA BeginFacts ==
  ASSUME ShapeInv, NEW q \in Requests, NEW i \in DOMAIN Unborn, NEW table, NEW refs,
         Begin(q, i, table, refs)
  PROVE  /\ requests'[q] = [op |-> "create", id |-> i, row |-> Row(table, refs),
                            overlaps |-> SomeDelete]
         /\ requests' = [p \in Requests |-> requests'[p]]
         /\ \A p \in Requests \ {q} : requests'[p] = requests[p]
         /\ Pending' = Pending \cup {q} /\ q \notin Pending
         /\ Fresh' = Fresh /\ i \in Fresh /\ i \notin born
<1>0. requests = [p \in Requests |-> requests[p]] /\ born \subseteq DOMAIN Unborn
  BY DEF ShapeInv, Bounds
<1>1. /\ requests[q] = Idle /\ i \notin born /\ born' = born \cup {i}
      /\ requests'[q] = [op |-> "create", id |-> i, row |-> Row(table, refs),
                         overlaps |-> SomeDelete]
      /\ requests' = [p \in Requests |-> requests'[p]]
      /\ \A p \in Requests \ {q} : requests'[p] = requests[p]
  BY <1>0 DEF Begin
<1>2. requests'[q].op = "create" /\ requests'[q].id = i /\ requests[q].op = "none"
  BY <1>1 DEF Idle
<1>3. Pending' = Pending \cup {q} /\ q \notin Pending
  BY <1>1, <1>2 DEF Pending
<1>4. \A p \in Pending : requests'[p] = requests[p]
  BY <1>1, <1>3 DEF Pending
<1>5. Fresh' = Fresh
  <2>1. {requests'[p].id : p \in Pending'} = {requests[p].id : p \in Pending} \cup {i}
    BY <1>2, <1>3, <1>4
  <2> QED
    BY <1>1, <2>1 DEF Fresh
<1> QED
  BY <1>1, <1>3, <1>5 DEF Fresh

LEMMA ShapeBegin ==
  ASSUME ShapeInv, NEW q \in Requests, NEW i \in DOMAIN Unborn, NEW table, NEW refs,
         Begin(q, i, table, refs), store' \subseteq Ids, table \in {"jobs", "files"},
         IsRow(Row(table, refs)), KeysHold(Row(table, refs), rows), Present(Row(table, refs))
  PROVE  ShapeInv' /\ Evolves
<1> DEFINE row == Row(table, refs)
<1>1. /\ requests'[q] = [op |-> "create", id |-> i, row |-> row, overlaps |-> SomeDelete]
      /\ requests' = [p \in Requests |-> requests'[p]]
      /\ \A p \in Requests \ {q} : requests'[p] = requests[p]
      /\ Pending' = Pending \cup {q} /\ q \notin Pending
      /\ Fresh' = Fresh /\ i \in Fresh /\ i \notin born
  BY BeginFacts
<1>2. /\ born' = born \cup {i} /\ Unborn[i] = table
      /\ UNCHANGED <<rows, changes, halfway, put, overlapped>>
  BY DEF Begin
<1>3. /\ requests'[q].op = "create" /\ requests'[q].id = i /\ requests'[q].row = row
      /\ requests'[q].overlaps = SomeDelete /\ SomeDelete \in BOOLEAN
  BY <1>1 DEF SomeDelete
<1>4. row.table = table /\ row.state = "active"
  BY RowFields
<1>5. RowShape' /\ Evolves
  BY <1>1, <1>2 DEF ShapeInv, RowShape, Evolves
<1>6. Bounds'
  BY <1>1, <1>2 DEF ShapeInv, Bounds
<1>7. \A p \in Pending : requests[p].id \in born
  BY FreshInIds
<1>8. IdsDiffer'
  BY <1>1, <1>3, <1>7 DEF ShapeInv, IdsDiffer, Pending
<1>9. RequestShape(q)'
  <2>1. IsRequest(requests'[q])
    BY <1>1, <1>3 DEF IsRequest
  <2>2. \A c \in DOMAIN row.refs : row.refs[c] \notin Fresh
    BY FreshInIds DEF ShapeInv, Present
  <2> HIDE DEF row
  <2>3. DeleteShape(requests[q])'
    BY <1>3 DEF DeleteShape
  <2>4. KeysHold(row, rows') /\ IsRow(row)
    BY <1>2 DEF row
  <2>5. CreateShape(requests[q])'
    BY <1>1, <1>2, <1>3, <1>4, <2>2, <2>4 DEF CreateShape
  <2> QED
    BY <2>1, <2>3, <2>5 DEF RequestShape
<1>10. DOMAIN rows' \subseteq Ids /\ DOMAIN rows' \cap Fresh' = {}
  BY <1>1, <1>2 DEF ShapeInv
<1> QED
  BY <1>1, <1>2, <1>5, <1>6, <1>8, <1>9, <1>10, ShapeStep DEF SameRequest

LEMMA ShapeInsert ==
  ASSUME ShapeInv, NEW q \in Requests, Insert(q)
  PROVE  ShapeInv' /\ Evolves
<1> DEFINE id == requests[q].id
           row == requests[q].row
<1>1. /\ requests[q].op = "create" /\ requests' = [requests EXCEPT ![q] = Idle]
      /\ overlapped' \subseteq overlapped \cup {id}
      /\ UNCHANGED <<store, born, changes, halfway, put>>
      /\ \/ rows' = rows
         \/ Present(row) /\ rows' = With(id, row)
  <2>1. /\ requests[q].op = "create" /\ requests' = [requests EXCEPT ![q] = Idle]
        /\ UNCHANGED <<store, born, changes, halfway, put>>
        /\ rows' = IF Present(row) THEN With(id, row) ELSE rows
    BY DEF Insert, Present
  <2>2. overlapped' \subseteq overlapped \cup {id}
    BY DEF Insert
  <2> QED
    BY <2>1, <2>2
<1>2. /\ requests = [p \in Requests |-> requests[p]] /\ born \subseteq DOMAIN Unborn
      /\ id \in born /\ row.table = Unborn[id] /\ row.state = "active" /\ IsRow(row)
      /\ Present(row) => KeysHold(row, rows)
  BY <1>1 DEF ShapeInv, Bounds, RequestShape, CreateShape
<1>3. /\ requests' = [p \in Requests |-> requests'[p]] /\ requests'[q] = Idle
      /\ \A p \in Requests \ {q} : requests'[p] = requests[p]
  BY <1>1, <1>2
<1>4. Pending' = Pending \ {q} /\ q \in Pending
  BY <1>1, <1>3 DEF Pending, Idle
<1>5. id \in Fresh /\ id \notin DOMAIN rows /\ id \in Ids
  BY <1>4, FreshInIds DEF ShapeInv, Fresh
<1>6. Fresh' \subseteq Fresh /\ id \notin Fresh'
  <2>1. \A p \in Pending' : requests'[p] = requests[p] /\ p \in Pending /\ p # q
    BY <1>3, <1>4 DEF Pending
  <2>2. \A p \in Pending' : requests[p].id # id
    BY <1>4, <2>1 DEF ShapeInv, IdsDiffer
  <2> QED
    BY <1>1, <1>2, <2>1, <2>2 DEF Fresh
<1> HIDE DEF id, row
<1>7. /\ RowShape' /\ DOMAIN rows' \subseteq DOMAIN rows \cup {id}
      /\ \A k \in DOMAIN rows : k \in DOMAIN rows' /\ rows'[k] = rows[k]
  <2>1. CASE rows' = rows
    BY <2>1 DEF ShapeInv, RowShape
  <2>2. CASE Present(row) /\ rows' = With(id, row)
    BY <1>2, <1>5, <2>2, AddShape DEF ShapeInv
  <2> QED
    BY <1>1, <2>1, <2>2
<1>8. Evolves
  BY <1>1, <1>5, <1>6, <1>7 DEF Evolves
<1>9. Bounds'
  BY <1>1, <1>3, <1>5 DEF ShapeInv, Bounds
<1>10. IdsDiffer'
  BY <1>3, <1>4 DEF ShapeInv, IdsDiffer, Pending
<1>11. DOMAIN rows' \subseteq Ids /\ DOMAIN rows' \cap Fresh' = {}
  BY <1>5, <1>6, <1>7 DEF ShapeInv
<1> QED
  BY <1>1, <1>3, <1>8, <1>9, <1>10, <1>11, <1>7, ShapeStep DEF SameRequest

LEMMA ShapeRemoteci ==
  ASSUME ShapeInv, NEW i \in DOMAIN Unborn, NEW team \in Of("teams"), CreateRemoteci(i, team)
  PROVE  ShapeInv' /\ Evolves
<1> DEFINE refs == [team_id |-> team]
           row == Row("remotecis", refs)
<1>1. /\ i \notin born /\ Unborn[i] = "remotecis" /\ rows' = With(i, row)
      /\ born' = born \cup {i}
      /\ UNCHANGED <<store, requests, changes, halfway, put, overlapped>>
  BY DEF CreateRemoteci
<1>2. row.table = "remotecis" /\ row.state = "active" /\ row.refs = refs
  BY RowFields
<1>3. DOMAIN refs = {"team_id"} /\ refs.team_id = team /\ refs = [c \in DOMAIN refs |-> refs[c]]
  OBVIOUS
<1>4. row = [table |-> row.table, state |-> row.state, refs |-> row.refs]
  BY DEF Row
<1> HIDE DEF refs, row
<1>5. Cascade("team_id", "teams") \in Declared["remotecis"].refs
      /\ Declared["remotecis"].refs = {Cascade("team_id", "teams")}
  BY OtherKeys
<1>6. IsRow(row)
  <2>1. row.table \in DOMAIN Declared
    BY <1>2, Tables
  <2> QED
    BY <1>2, <1>3, <1>4, <1>5, <2>1, RefFields DEF IsRow
<1>7. KeysHold(row, rows)
  <2>1. KeyOf(row, "team_id") = team /\ team # None /\ team \in DOMAIN rows
        /\ rows[team].table = "teams"
    BY <1>2, <1>3, ShapeNone DEF KeyOf, Of, NoneIsNoRow
  <2>2. \A ref \in Declared[row.table].refs : ref[1] = "team_id" /\ ref[2] = "teams"
    BY <1>2, <1>5, RefFields
  <2> QED
    BY <2>1, <2>2 DEF KeysHold
<1>8. i \in Fresh /\ i \notin DOMAIN rows /\ i \in Ids
  BY <1>1, FreshInIds DEF ShapeInv, Fresh
<1>9. /\ RowShape' /\ DOMAIN rows' = DOMAIN rows \cup {i}
      /\ \A k \in DOMAIN rows : rows'[k] = rows[k]
  BY <1>1, <1>2, <1>6, <1>7, <1>8, AddShape DEF ShapeInv
<1>10. Pending' = Pending /\ Fresh' = Fresh \ {i}
  <2>1. Pending' = Pending
    BY <1>1 DEF Pending
  <2>2. \A p \in Pending : requests[p].id # i
    BY <1>1, FreshInIds
  <2> QED
    BY <1>1, <2>1, <2>2 DEF Fresh
<1>11. Evolves
  BY <1>1, <1>8, <1>9, <1>10 DEF Evolves
<1>12. Bounds' /\ IdsDiffer'
  BY <1>1, <1>10 DEF ShapeInv, Bounds, IdsDiffer
<1>13. DOMAIN rows' \subseteq Ids /\ DOMAIN rows' \cap Fresh' = {}
  BY <1>8, <1>9, <1>10 DEF ShapeInv
<1> QED
  BY <1>1, <1>9, <1>11, <1>12, <1>13, ShapeStep DEF SameRequest

LEMMA ShapeNextPut ==
  ASSUME ShapeInv, NextPut
  PROVE  ShapeInv' /\ Evolves
<1>0. Bounds /\ RowShape /\ DOMAIN rows \subseteq Ids
  BY DEF ShapeInv
<1>1. PICK i \in DOMAIN rows : PutState(i) \/ \E key \in Movable : \E to : PutParent(i, key[2], to)
  BY DEF NextPut
<1>2. /\ RowShape' /\ DOMAIN rows' = DOMAIN rows
      /\ \A k \in DOMAIN rows : /\ k # i => rows'[k] = rows[k]
                                /\ rows'[k].table = rows[k].table
      /\ put' = put \cup {i} /\ requests' = Overlapping /\ Change
      /\ UNCHANGED <<store, born, halfway, overlapped>>
  BY <1>0, <1>1, PutShape
<1>3. /\ requests' = [q \in Requests |-> requests'[q]]
      /\ \A q \in Requests : SameRequest(q)
  BY <1>0, <1>2, OverlappingSame
<1>4. Bounds'
  BY <1>0, <1>2, <1>3, ChangeBound DEF Bounds
<1> QED
  BY <1>2, <1>3, <1>4, ShapeQuiet

LEMMA ShapeNextInsert ==
  ASSUME ShapeInv, NextInsert
  PROVE  ShapeInv' /\ Evolves
<1>0. RowShape /\ NoneIsNoRow /\ store \subseteq Ids
  BY ShapeNone DEF ShapeInv, Bounds
<1>1. ASSUME NEW q \in Requests, NEW i \in DOMAIN Unborn \ born,
             NEW remoteci \in Of("remotecis"), NEW topic \in Of("topics"),
             NEW previous \in Of("jobs") \cup {None}, NEW updated \in Of("jobs") \cup {None},
             NEW pipeline \in Of("pipelines") \cup {None},
             CreateJob(q, i, remoteci, topic, previous, updated, pipeline)
      PROVE  ShapeInv' /\ Evolves
  <2>1. Begin(q, i, "jobs", JobRefs(remoteci, topic, previous, updated, pipeline))
        /\ store' = store
    BY <1>1 DEF CreateJob, JobRefs
  <2>2. PICK row : row = Row("jobs", JobRefs(remoteci, topic, previous, updated, pipeline))
    OBVIOUS
  <2>3. IsRow(row) /\ KeysHold(row, rows) /\ Present(row)
    BY <1>0, <2>2, JobRow
  <2> QED
    BY <1>0, <2>1, <2>2, <2>3, ShapeBegin
<1>2. ASSUME NEW q \in Requests, NEW i \in DOMAIN Unborn \ born,
             NEW previous \in Of("jobs"), NEW topic \in Of("topics"),
             NEW updated \in Of("jobs") \cup {None},
             CreateFromJob(q, i, previous, topic, updated)
      PROVE  ShapeInv' /\ Evolves
  <2>1. PICK remoteci : remoteci = Named(previous, "remoteci_id")
    OBVIOUS
  <2>2. remoteci \in Of("remotecis")
    BY <1>0, <2>1, JobParents
  <2>3. Begin(q, i, "jobs", JobRefs(remoteci, topic, previous, updated, None))
        /\ store' = store
    BY <1>2, <2>1 DEF CreateFromJob, JobRefs
  <2>4. PICK row : row = Row("jobs", JobRefs(remoteci, topic, previous, updated, None))
    OBVIOUS
  <2>5. IsRow(row) /\ KeysHold(row, rows) /\ Present(row)
    BY <1>0, <2>2, <2>4, JobRow
  <2> QED
    BY <1>0, <2>3, <2>4, <2>5, ShapeBegin
<1>3. ASSUME NEW q \in Requests, NEW i \in DOMAIN Unborn \ born, NEW job \in Of("jobs"),
             CreateFile(q, i, job)
      PROVE  ShapeInv' /\ Evolves
  <2>1. PICK refs : refs = [job_id |-> job, team_id |-> Named(job, "team_id")]
    OBVIOUS
  <2>2. Begin(q, i, "files", refs) /\ store' = store \cup {i}
    BY <1>3, <2>1 DEF CreateFile
  <2>3. PICK row : row = Row("files", refs)
    OBVIOUS
  <2>4. IsRow(row) /\ KeysHold(row, rows) /\ Present(row)
    BY <1>0, <2>1, <2>3, FileRow
  <2>5. store' \subseteq Ids
    BY <1>0, <2>2, UnbornIds
  <2> QED
    BY <2>2, <2>3, <2>4, <2>5, ShapeBegin
<1>4. ASSUME NEW q \in Requests, Insert(q) PROVE ShapeInv' /\ Evolves
  BY <1>4, ShapeInsert
<1>5. ASSUME NEW i \in DOMAIN Unborn, NEW team \in Of("teams"), CreateRemoteci(i, team)
      PROVE  ShapeInv' /\ Evolves
  BY <1>5, ShapeRemoteci
<1> QED
  BY <1>1, <1>2, <1>3, <1>4, <1>5 DEF NextInsert

LEMMA ShapeInit ==
  ASSUME Init
  PROVE  ShapeInv
<1>1. rows \in Seeds
  BY DEF Init
<1>2. DOMAIN rows \subseteq Ids
  BY <1>1 DEF Ids
<1>3. RowShape
  BY <1>1, SeedsAssumption DEF SeedsAssumption, RowShape
<1>4. /\ requests = [q \in Requests |-> Idle] /\ \A q \in Requests : requests[q] = Idle
      /\ Pending = {}
  BY DEF Init, Pending, Idle
<1>5. Fresh = DOMAIN Unborn \ DOMAIN rows
  BY <1>4 DEF Init, Fresh
<1>6. \A q \in Requests : RequestShape(q)
  BY <1>4 DEF RequestShape, IsRequest, DeleteShape, CreateShape, Idle
<1>7. requests = [q \in Requests |-> requests[q]]
  BY <1>4
<1>8. Bounds
  BY <1>2, <1>7, MaxChangesAssumption DEF Init, Bounds
<1>9. IdsDiffer /\ HalfwayShape
  BY <1>4 DEF Init, IdsDiffer, HalfwayShape
<1> QED
  BY <1>2, <1>3, <1>5, <1>6, <1>8, <1>9 DEF ShapeInv

LEMMA ShapeNext ==
  ASSUME ShapeInv, [Next]_vars
  PROVE  ShapeInv' /\ Evolves
<1>1. CASE Next
  BY <1>1, ShapeNextDelete, ShapeNextPurge, ShapeNextInsert, ShapeNextPut DEF Next
<1>2. CASE UNCHANGED vars
  <2>1. UNCHANGED <<rows, store, requests, born, changes, halfway, put, overlapped>>
    BY <1>2 DEF vars
  <2>2. RowShape' /\ Bounds' /\ (\A q \in Requests : SameRequest(q))
    BY <2>1 DEF ShapeInv, RowShape, Bounds, SameRequest
  <2> QED
    BY <2>1, <2>2, ShapeSame
<1> QED
  BY <1>1, <1>2

LEMMA ShapeTyped == ShapeInv => TypeOK
<1> SUFFICES ASSUME ShapeInv PROVE TypeOK
  OBVIOUS
<1>1. ASSUME NEW i \in DOMAIN rows
      PROVE  /\ i \in DOMAIN Unborn => rows[i].table = Unborn[i]
             /\ rows[i].table \in DOMAIN Declared /\ rows[i].state \in {"active", "archived"}
             /\ \A c \in DOMAIN rows[i].refs : rows[i].refs[c] \in DOMAIN rows \cup {None}
  <2>1. /\ IsRow(rows[i]) /\ KeysHold(rows[i], rows)
        /\ i \in DOMAIN Unborn => rows[i].table = Unborn[i]
        /\ rows[i].state \in {"active", "archived"}
    BY DEF ShapeInv, RowShape
  <2>2. ASSUME NEW c \in DOMAIN rows[i].refs PROVE rows[i].refs[c] \in DOMAIN rows \cup {None}
    <3>1. PICK ref \in Declared[rows[i].table].refs : ref[1] = c
      BY <2>1 DEF IsRow
    <3> QED
      BY <2>1, <3>1, KeyInDb DEF KeyOf
  <2> QED
    BY <2>1, <2>2 DEF IsRow
<1>2. ASSUME NEW q \in Requests
      PROVE  requests[q].op \in {"none", "delete_team", "delete_remoteci", "purge_jobs",
                                 "create"}
  <2>1. IsRequest(requests[q])
    BY DEF ShapeInv, RequestShape
  <2>2. CASE \/ requests[q] \in [op : {"none", "purge_jobs"}]
             \/ requests[q] \in [op : {"delete_team", "delete_remoteci"}, id : Ids]
    BY <2>2
  <2>3. CASE requests[q] = [op |-> "create", id |-> requests[q].id, row |-> requests[q].row,
                            overlaps |-> requests[q].overlaps]
    BY <2>3
  <2> QED
    BY <2>1, <2>2, <2>3 DEF IsRequest
<1> QED
  BY <1>1, <1>2 DEF ShapeInv, Bounds, TypeOK

(* No key ever dangles, whatever is deleted, purged, inserted or written,    *)
(* and requests hold what they have read: TypeOK.                            *)
THEOREM TypeCorrect == Spec => []TypeOK
<1>1. Init => ShapeInv
  BY ShapeInit
<1>2. ShapeInv /\ [Next]_vars => ShapeInv'
  BY ShapeNext
<1> QED
  BY <1>1, <1>2, ShapeTyped, PTL DEF Spec

-----------------------------------------------------------------------------
(* What a deleted team or remoteci leaves. It is said of a row and of a view *)
(* of the state, so that it can be compared across a step.                   *)
View == [rows |-> rows, put |-> put, unfinished |-> Unfinished,
         overlapped |-> overlapped]

Live(i, v) == i \in DOMAIN v.rows /\ v.rows[i].state # "archived"
NamedIn(i, column, v) == KeyOf(v.rows[i], column)

(* The handlers' rows agree with the rows they name: IsWritten, except for   *)
(* the team of a remoteci and the product of a topic that a PUT has written. *)
Written(row, v) ==
  /\ row.table = "jobs" =>
       /\ KeyOf(row, "topic_id") # None
       /\ \/ KeyOf(row, "topic_id") \in v.put
          \/ KeyOf(row, "product_id") = NamedIn(KeyOf(row, "topic_id"), "product_id", v)
       /\ \/ KeyOf(row, "remoteci_id") \in v.put
          \/ KeyOf(row, "team_id") = NamedIn(KeyOf(row, "remoteci_id"), "team_id", v)
  /\ row.table = "files" =>
       /\ KeyOf(row, "job_id") # None
       /\ KeyOf(row, "team_id") = NamedIn(KeyOf(row, "job_id"), "team_id", v)
       /\ KeyOf(row, "jobstate_id") # None =>
            KeyOf(row, "job_id") = NamedIn(KeyOf(row, "jobstate_id"), "job_id", v)

(* The live remoteci of any job, even of an archived one, is of a team that  *)
(* is live too, or whose DELETE is not over, unless a PUT wrote either.      *)
Attended(row, v) ==
  row.table = "jobs" =>
    \/ ~Live(KeyOf(row, "remoteci_id"), v)
    \/ KeyOf(row, "remoteci_id") \in v.put \/ KeyOf(row, "team_id") \in v.put
    \/ KeyOf(row, "team_id") \in v.unfinished \/ Live(KeyOf(row, "team_id"), v)

(* What is to be shown, of a live row that no request overlapped and no PUT  *)
(* wrote; and a live file has a live job or the job of a deleted remoteci.   *)
Settled(row, v) ==
  /\ row.table = "jobs" =>
       \/ KeyOf(row, "remoteci_id") \in v.put \/ KeyOf(row, "team_id") \in v.put
       \/ KeyOf(row, "team_id") \in v.unfinished
       \/ /\ Live(KeyOf(row, "team_id"), v)
          /\ \/ KeyOf(row, "remoteci_id") \in v.unfinished
             \/ Live(KeyOf(row, "remoteci_id"), v)
  /\ row.table = "files" =>
       /\ \/ KeyOf(row, "job_id") \in v.overlapped \/ KeyOf(row, "job_id") \in v.put
          \/ NamedIn(KeyOf(row, "job_id"), "remoteci_id", v) \in v.put
          \/ KeyOf(row, "team_id") \in v.put
          \/ KeyOf(row, "team_id") \in v.unfinished \/ Live(KeyOf(row, "team_id"), v)
       /\ \/ Live(KeyOf(row, "job_id"), v) \/ KeyOf(row, "job_id") \in v.put
          \/ NamedIn(KeyOf(row, "job_id"), "remoteci_id", v) \in v.put
          \/ ~Live(NamedIn(KeyOf(row, "job_id"), "remoteci_id", v), v)

Exempt(i, v) == i \in v.overlapped \/ (v.rows[i].table = "jobs" /\ i \in v.put)

RowFine(i, v) ==
  /\ Written(v.rows[i], v) /\ Attended(v.rows[i], v)
  /\ Live(i, v) /\ ~Exempt(i, v) => Settled(v.rows[i], v)

PendingFine(r, v) ==
  (\A c \in DOMAIN r.row.refs : r.row.refs[c] \in DOMAIN v.rows \cup {None}) =>
    /\ Written(r.row, v) /\ Attended(r.row, v)
    /\ ~r.overlaps => Settled(r.row, v)

(* A purge of jobs that has listed the files misses those archived since.    *)
ListedInv ==
  (\E q \in Requests : requests[q].op = "purge_jobs") =>
    \A i \in ArchivedIn("files") : i \in overlapped

RowsInv ==
  /\ \A i \in DOMAIN rows : RowFine(i, View)
  /\ \A q \in Pending : /\ PendingFine(requests[q], View)
                        /\ ~requests[q].overlaps => ~SomeDelete
  /\ ListedInv

(* How a step changes the view.                                              *)
TeamEmpty(team, v) ==
  \A k \in DOMAIN v.rows :
    v.rows[k].table \in {"files", "remotecis", "jobs"} /\ NamedIn(k, "team_id", v) = team =>
      v.rows[k].state = "archived"
JobsGone(remoteci, v) ==
  \A k \in DOMAIN v.rows :
    v.rows[k].table = "jobs" /\ NamedIn(k, "remoteci_id", v) = remoteci =>
      v.rows[k].state = "archived"
FilesGone(job, v) ==
  \A k \in DOMAIN v.rows :
    v.rows[k].table = "files" /\ NamedIn(k, "job_id", v) = job =>
      v.rows[k].state = "archived"

(* A row keeps its table and, unless a PUT writes it, its keys; no PUT gives *)
(* a job, a jobstate or a file another parent. It stays archived, unless a   *)
(* PUT brings it back.                                                       *)
Keeps(i, v, w) ==
  /\ w.rows[i].table = v.rows[i].table
  /\ \/ w.rows[i].refs = v.rows[i].refs
     \/ v.rows[i].table \notin {"jobs", "files", "jobstates"} /\ i \in w.put
  /\ v.rows[i].state = "archived" =>
       w.rows[i].state = "archived" \/ (v.rows[i].table # "files" /\ i \in w.put)

(* A team is archived by a DELETE that then takes what belongs to it; so is  *)
(* a remoteci, unless with its team; and a job with its files, or with its   *)
(* remoteci. A PUT archives the row alone.                                   *)
Marks(i, v, w) ==
  v.rows[i].state # "archived" /\ w.rows[i].state = "archived" /\ i \notin w.put =>
    /\ v.rows[i].table = "teams" => i \in w.unfinished
    /\ v.rows[i].table = "remotecis" =>
         i \in w.unfinished \/ TeamEmpty(NamedIn(i, "team_id", v), w)
    /\ v.rows[i].table = "jobs" =>
         \/ FilesGone(i, w) \/ ~Live(NamedIn(i, "remoteci_id", v), w)
         \/ NamedIn(i, "remoteci_id", v) \in w.put

Finishes(i, v, w) ==
  i \in v.unfinished /\ i \notin w.unfinished =>
    /\ v.rows[i].table = "teams" => TeamEmpty(i, w)
    /\ v.rows[i].table = "remotecis" => JobsGone(i, w)

Later(v, w) ==
  /\ v.put \subseteq w.put /\ v.overlapped \subseteq w.overlapped
  /\ \A i \in DOMAIN v.rows \cap DOMAIN w.rows :
       Keeps(i, v, w) /\ Marks(i, v, w) /\ Finishes(i, v, w)

(* Nothing is archived and no DELETE ends.                                   *)
Calm(v, w) ==
  /\ v.unfinished \subseteq w.unfinished
  /\ \A i \in DOMAIN v.rows \cap DOMAIN w.rows : w.rows[i].state = v.rows[i].state

LEMMA JobKeysHold ==
  ASSUME NEW row, NEW db, row.table = "jobs", KeysHold(row, db)
  PROVE  /\ KeyOf(row, "remoteci_id") \in DOMAIN db
         /\ db[KeyOf(row, "remoteci_id")].table = "remotecis"
         /\ KeyOf(row, "team_id") \in DOMAIN db /\ db[KeyOf(row, "team_id")].table = "teams"
         /\ KeyOf(row, "topic_id") # None =>
              /\ KeyOf(row, "topic_id") \in DOMAIN db
              /\ db[KeyOf(row, "topic_id")].table = "topics"
<1>1. /\ Cascade("remoteci_id", "remotecis") \in Declared["jobs"].refs
      /\ Cascade("team_id", "teams") \in Declared["jobs"].refs
      /\ Cascade("topic_id", "topics") \in Declared["jobs"].refs
      /\ "remoteci_id" \in Declared["jobs"].required /\ "team_id" \in Declared["jobs"].required
  BY JobKeys
<1> QED
  BY <1>1, RefFields DEF KeysHold

LEMMA FileKeysHold ==
  ASSUME NEW row, NEW db, row.table = "files", KeysHold(row, db)
  PROVE  /\ KeyOf(row, "team_id") \in DOMAIN db /\ db[KeyOf(row, "team_id")].table = "teams"
         /\ KeyOf(row, "job_id") # None =>
              /\ KeyOf(row, "job_id") \in DOMAIN db
              /\ db[KeyOf(row, "job_id")].table = "jobs"
         /\ KeyOf(row, "jobstate_id") # None =>
              /\ KeyOf(row, "jobstate_id") \in DOMAIN db
              /\ db[KeyOf(row, "jobstate_id")].table = "jobstates"
<1>1. /\ Cascade("team_id", "teams") \in Declared["files"].refs
      /\ Cascade("job_id", "jobs") \in Declared["files"].refs
      /\ Cascade("jobstate_id", "jobstates") \in Declared["files"].refs
      /\ "team_id" \in Declared["files"].required
  BY FileKeys
<1> QED
  BY <1>1, RefFields DEF KeysHold

LEMMA KeptKeys ==
  ASSUME NEW v, NEW w, NEW i, Keeps(i, v, w)
  PROVE  /\ v.rows[i].table \in {"jobs", "files", "jobstates"} =>
              \A c : NamedIn(i, c, w) = NamedIn(i, c, v)
         /\ i \notin w.put => \A c : NamedIn(i, c, w) = NamedIn(i, c, v)
BY DEF Keeps, NamedIn, KeyOf

LEMMA WrittenLater ==
  ASSUME NEW v, NEW w, Later(v, w), NEW row, Written(row, v),
         KeysHold(row, v.rows), KeysHold(row, w.rows)
  PROVE  Written(row, w)
<1>0. \A i \in DOMAIN v.rows \cap DOMAIN w.rows : Keeps(i, v, w)
  BY DEF Later
<1>1. CASE row.table = "jobs"
  <2> DEFINE topic == KeyOf(row, "topic_id")
             remoteci == KeyOf(row, "remoteci_id")
  <2>1. /\ topic # None
        /\ topic \in v.put \/ KeyOf(row, "product_id") = NamedIn(topic, "product_id", v)
        /\ remoteci \in v.put \/ KeyOf(row, "team_id") = NamedIn(remoteci, "team_id", v)
    BY <1>1 DEF Written
  <2>2. /\ topic \in DOMAIN v.rows \cap DOMAIN w.rows /\ v.rows[topic].table = "topics"
        /\ remoteci \in DOMAIN v.rows \cap DOMAIN w.rows
    BY <1>1, <2>1, JobKeysHold
  <2>3. topic \in w.put \/ NamedIn(topic, "product_id", w) = NamedIn(topic, "product_id", v)
    BY <1>0, <2>2, KeptKeys
  <2>4. remoteci \in w.put \/ NamedIn(remoteci, "team_id", w) = NamedIn(remoteci, "team_id", v)
    BY <1>0, <2>2, KeptKeys
  <2>5. v.put \subseteq w.put
    BY DEF Later
  <2> QED
    BY <1>1, <2>1, <2>3, <2>4, <2>5 DEF Written
<1>2. CASE row.table = "files"
  <2> DEFINE job == KeyOf(row, "job_id")
             jobstate == KeyOf(row, "jobstate_id")
  <2>1. /\ job # None /\ KeyOf(row, "team_id") = NamedIn(job, "team_id", v)
        /\ jobstate # None => job = NamedIn(jobstate, "job_id", v)
    BY <1>2 DEF Written
  <2>2. /\ job \in DOMAIN v.rows \cap DOMAIN w.rows /\ v.rows[job].table = "jobs"
        /\ jobstate # None => /\ jobstate \in DOMAIN v.rows \cap DOMAIN w.rows
                              /\ v.rows[jobstate].table = "jobstates"
    BY <1>2, <2>1, FileKeysHold
  <2>3. NamedIn(job, "team_id", w) = NamedIn(job, "team_id", v)
    BY <1>0, <2>2, KeptKeys
  <2>4. jobstate # None => NamedIn(jobstate, "job_id", w) = NamedIn(jobstate, "job_id", v)
    BY <1>0, <2>2, KeptKeys
  <2> QED
    BY <1>2, <2>1, <2>3, <2>4 DEF Written
<1> QED
  BY <1>1, <1>2 DEF Written

LEMMA AttendedLater ==
  ASSUME NEW v, NEW w, Later(v, w), NEW row, Written(row, v), Attended(row, v),
         KeysHold(row, v.rows), KeysHold(row, w.rows)
  PROVE  Attended(row, w)
<1> SUFFICES ASSUME row.table = "jobs" PROVE Attended(row, w)
  BY DEF Attended
<1> DEFINE team == KeyOf(row, "team_id")
           remoteci == KeyOf(row, "remoteci_id")
<1>1. /\ team \in DOMAIN v.rows \cap DOMAIN w.rows /\ v.rows[team].table = "teams"
      /\ remoteci \in DOMAIN v.rows \cap DOMAIN w.rows /\ v.rows[remoteci].table = "remotecis"
  BY JobKeysHold
<1>2. /\ Keeps(team, v, w) /\ Marks(team, v, w) /\ Finishes(team, v, w)
      /\ Keeps(remoteci, v, w) /\ v.put \subseteq w.put
  BY <1>1 DEF Later
<1>3. SUFFICES ASSUME remoteci \notin w.put, team \notin w.put, Live(remoteci, w)
               PROVE  team \in w.unfinished \/ Live(team, w)
  BY DEF Attended
<1>4. Live(remoteci, v)
  BY <1>1, <1>2, <1>3 DEF Live, Keeps
<1>5. NamedIn(remoteci, "team_id", w) = team
  BY <1>2, <1>3, KeptKeys DEF Written
<1>6. team \in v.unfinished \/ Live(team, v)
  BY <1>2, <1>3, <1>4 DEF Attended
<1>7. CASE team \in v.unfinished /\ team \notin w.unfinished
  <2>1. TeamEmpty(team, w)
    BY <1>1, <1>2, <1>7 DEF Finishes
  <2> QED
    BY <1>1, <1>2, <1>3, <1>5, <2>1 DEF TeamEmpty, Live, Keeps
<1>8. CASE Live(team, v)
  BY <1>1, <1>2, <1>3, <1>8 DEF Marks, Live
<1> QED
  BY <1>6, <1>7, <1>8

LEMMA SettledLater ==
  ASSUME NEW v, NEW w, Later(v, w), NEW i \in DOMAIN v.rows \cap DOMAIN w.rows,
         w.rows[i].state # "archived", Written(v.rows[i], v), Settled(v.rows[i], v),
         \A k \in DOMAIN v.rows : KeysHold(v.rows[k], v.rows),
         \A k \in DOMAIN w.rows : KeysHold(w.rows[k], w.rows)
  PROVE  Settled(w.rows[i], w)
<1> DEFINE row == v.rows[i]
<1>0. /\ Keeps(i, v, w) /\ v.put \subseteq w.put /\ v.overlapped \subseteq w.overlapped
      /\ KeysHold(row, v.rows) /\ KeysHold(w.rows[i], w.rows) /\ w.rows[i].table = row.table
  BY DEF Later, Keeps
<1>1. CASE row.table = "jobs"
  <2> DEFINE team == KeyOf(row, "team_id")
             remoteci == KeyOf(row, "remoteci_id")
  <2>1. NamedIn(i, "team_id", w) = team /\ NamedIn(i, "remoteci_id", w) = remoteci
    BY <1>0, <1>1, KeptKeys DEF NamedIn
  <2>2. /\ team \in DOMAIN v.rows \cap DOMAIN w.rows /\ v.rows[team].table = "teams"
        /\ remoteci \in DOMAIN v.rows \cap DOMAIN w.rows
        /\ v.rows[remoteci].table = "remotecis"
    BY <1>0, <1>1, <2>1, JobKeysHold DEF NamedIn
  <2>3. /\ Keeps(team, v, w) /\ Marks(team, v, w) /\ Finishes(team, v, w)
        /\ Keeps(remoteci, v, w) /\ Marks(remoteci, v, w) /\ Finishes(remoteci, v, w)
    BY <2>2 DEF Later
  <2>4. ~TeamEmpty(team, w) /\ ~JobsGone(remoteci, w)
    BY <1>0, <1>1, <2>1 DEF TeamEmpty, JobsGone
  <2> SUFFICES ASSUME remoteci \notin w.put, team \notin w.put, team \notin w.unfinished
               PROVE  /\ Live(team, w)
                      /\ remoteci \in w.unfinished \/ Live(remoteci, w)
    BY <1>0, <1>1, <2>1 DEF Settled, NamedIn
  <2>5. team \notin v.unfinished
    BY <2>2, <2>3, <2>4 DEF Finishes
  <2>6. Live(team, v) /\ (remoteci \in v.unfinished \/ Live(remoteci, v))
    BY <1>0, <1>1, <2>5 DEF Settled
  <2>7. Live(team, w)
    BY <2>2, <2>3, <2>6 DEF Live, Marks
  <2>8. team = NamedIn(remoteci, "team_id", v)
    BY <1>0, <1>1 DEF Written
  <2>9. CASE remoteci \in v.unfinished
    BY <2>2, <2>3, <2>4, <2>7, <2>9 DEF Finishes
  <2>10. CASE Live(remoteci, v)
    BY <2>2, <2>3, <2>4, <2>7, <2>8, <2>10 DEF Live, Marks
  <2> QED
    BY <2>6, <2>7, <2>9, <2>10
<1>2. CASE row.table = "files"
  <2> DEFINE team == KeyOf(row, "team_id")
             job == KeyOf(row, "job_id")
             remoteci == NamedIn(job, "remoteci_id", v)
  <2>1. NamedIn(i, "team_id", w) = team /\ NamedIn(i, "job_id", w) = job
    BY <1>0, <1>2, KeptKeys DEF NamedIn
  <2>2. /\ team \in DOMAIN v.rows \cap DOMAIN w.rows /\ v.rows[team].table = "teams"
        /\ job \in DOMAIN v.rows \cap DOMAIN w.rows /\ v.rows[job].table = "jobs"
    BY <1>0, <1>2, <2>1, FileKeysHold DEF NamedIn, Written
  <2>3. /\ Keeps(team, v, w) /\ Marks(team, v, w) /\ Finishes(team, v, w)
        /\ Keeps(job, v, w) /\ Marks(job, v, w)
    BY <2>2 DEF Later
  <2>4. NamedIn(job, "remoteci_id", w) = remoteci
    BY <2>2, <2>3, KeptKeys
  <2>5. remoteci \in DOMAIN v.rows \cap DOMAIN w.rows /\ Keeps(remoteci, v, w)
    <3>1. KeysHold(v.rows[job], v.rows) /\ KeysHold(w.rows[job], w.rows)
          /\ w.rows[job].table = "jobs"
      BY <2>2, <2>3 DEF Keeps
    <3>2. remoteci \in DOMAIN v.rows \cap DOMAIN w.rows
      BY <2>2, <2>4, <3>1, JobKeysHold DEF NamedIn
    <3> QED
      BY <3>2 DEF Later
  <2>6. ~TeamEmpty(team, w) /\ ~FilesGone(job, w)
    BY <1>0, <1>2, <2>1 DEF TeamEmpty, FilesGone
  <2>7. \/ job \in w.overlapped \/ job \in w.put \/ remoteci \in w.put \/ team \in w.put
        \/ team \in w.unfinished \/ Live(team, w)
    <3>1. \/ job \in v.overlapped \/ job \in v.put \/ remoteci \in v.put \/ team \in v.put
          \/ team \in v.unfinished \/ Live(team, v)
      BY <1>2 DEF Settled
    <3>2. team \in v.unfinished => team \in w.unfinished
      BY <2>2, <2>3, <2>6 DEF Finishes
    <3>3. Live(team, v) => team \in w.unfinished \/ team \in w.put \/ Live(team, w)
      BY <2>2, <2>3 DEF Live, Marks
    <3> QED
      BY <1>0, <3>1, <3>2, <3>3
  <2>8. Live(job, w) \/ job \in w.put \/ remoteci \in w.put \/ ~Live(remoteci, w)
    <3>1. Live(job, v) \/ job \in v.put \/ remoteci \in v.put \/ ~Live(remoteci, v)
      BY <1>2 DEF Settled
    <3>2. Live(job, v) =>
            Live(job, w) \/ job \in w.put \/ remoteci \in w.put \/ ~Live(remoteci, w)
      BY <2>2, <2>3, <2>6 DEF Live, Marks
    <3>3. ~Live(remoteci, v) => remoteci \in w.put \/ ~Live(remoteci, w)
      BY <2>5 DEF Live, Keeps
    <3> QED
      BY <1>0, <3>1, <3>2, <3>3
  <2> QED
    BY <1>0, <1>2, <2>1, <2>4, <2>7, <2>8 DEF Settled, NamedIn
<1> QED
  BY <1>0, <1>1, <1>2 DEF Settled

LEMMA SettledCalm ==
  ASSUME NEW v, NEW w, Later(v, w), Calm(v, w), NEW row, Written(row, v), Settled(row, v),
         KeysHold(row, v.rows), KeysHold(row, w.rows),
         \A k \in DOMAIN v.rows : KeysHold(v.rows[k], v.rows),
         \A k \in DOMAIN w.rows : KeysHold(w.rows[k], w.rows)
  PROVE  Settled(row, w)
<1>0. /\ v.put \subseteq w.put /\ v.overlapped \subseteq w.overlapped
      /\ v.unfinished \subseteq w.unfinished
      /\ \A i \in DOMAIN v.rows \cap DOMAIN w.rows :
           Keeps(i, v, w) /\ (Live(i, v) <=> Live(i, w))
  BY DEF Later, Calm, Live
<1>1. CASE row.table = "jobs"
  <2>1. /\ KeyOf(row, "team_id") \in DOMAIN v.rows \cap DOMAIN w.rows
        /\ KeyOf(row, "remoteci_id") \in DOMAIN v.rows \cap DOMAIN w.rows
    BY <1>1, JobKeysHold
  <2> QED
    BY <1>0, <1>1, <2>1 DEF Settled
<1>2. CASE row.table = "files"
  <2> DEFINE team == KeyOf(row, "team_id")
             job == KeyOf(row, "job_id")
             remoteci == NamedIn(job, "remoteci_id", v)
  <2>1. /\ team \in DOMAIN v.rows \cap DOMAIN w.rows
        /\ job \in DOMAIN v.rows \cap DOMAIN w.rows /\ v.rows[job].table = "jobs"
    BY <1>2, FileKeysHold DEF Written
  <2>2. NamedIn(job, "remoteci_id", w) = remoteci
    BY <1>0, <2>1, KeptKeys
  <2>3. remoteci \in DOMAIN v.rows \cap DOMAIN w.rows
    <3>1. KeysHold(v.rows[job], v.rows) /\ KeysHold(w.rows[job], w.rows)
          /\ w.rows[job].table = "jobs"
      BY <1>0, <2>1 DEF Keeps
    <3> QED
      BY <2>1, <2>2, <3>1, JobKeysHold DEF NamedIn
  <2> HIDE DEF remoteci
  <2> QED
    BY <1>0, <1>2, <2>1, <2>2, <2>3 DEF Settled, remoteci
<1> QED
  BY <1>1, <1>2 DEF Settled

-----------------------------------------------------------------------------
(* The rows that stay, and the requests that go on, across a step.           *)
LEMMA ViewFields ==
  ASSUME NEW v, v = View, NEW w, w = View'
  PROVE  /\ v.rows = rows /\ v.put = put
         /\ v.unfinished = Unfinished /\ v.overlapped = overlapped
         /\ w.rows = rows' /\ w.put = put'
         /\ w.unfinished = Unfinished' /\ w.overlapped = overlapped'
BY DEF View

LEMMA RowStays ==
  ASSUME ShapeInv, ShapeInv', RowsInv, NEW v, v = View, NEW w, w = View', Later(v, w),
         NEW i \in DOMAIN rows \cap DOMAIN rows'
  PROVE  RowFine(i, w)
<1>1. /\ v.rows = rows /\ w.rows = rows' /\ v.overlapped \subseteq w.overlapped
      /\ v.put \subseteq w.put /\ Keeps(i, v, w)
  BY ViewFields DEF Later
<1>2. /\ Written(rows[i], v) /\ Attended(rows[i], v)
      /\ Live(i, v) /\ ~Exempt(i, v) => Settled(rows[i], v)
  BY <1>1 DEF RowsInv, RowFine
<1>3. /\ \A k \in DOMAIN v.rows : KeysHold(v.rows[k], v.rows)
      /\ \A k \in DOMAIN w.rows : KeysHold(w.rows[k], w.rows)
  BY <1>1 DEF ShapeInv, RowShape
<1>4. CASE rows[i].table \in {"jobs", "files"}
  <2>1. rows'[i].table = rows[i].table /\ rows'[i].refs = rows[i].refs
    BY <1>1, <1>4 DEF Keeps
  <2>2. \A c : KeyOf(rows'[i], c) = KeyOf(rows[i], c)
    BY <2>1 DEF KeyOf
  <2>3. Written(rows'[i], v) /\ Attended(rows'[i], v)
    BY <1>2, <2>1, <2>2 DEF Written, Attended
  <2>4. KeysHold(rows'[i], rows) /\ KeysHold(rows'[i], rows')
    BY <1>1, <1>3, <2>1, KeysSame
  <2>5. Written(rows'[i], w) /\ Attended(rows'[i], w)
    BY <1>1, <2>3, <2>4, WrittenLater, AttendedLater
  <2>6. ASSUME Live(i, w), ~Exempt(i, w) PROVE Settled(rows'[i], w)
    <3>1. rows'[i].state # "archived" /\ Live(i, v) /\ ~Exempt(i, v)
      BY <1>1, <1>4, <2>1, <2>6 DEF Live, Keeps, Exempt
    <3>2. Settled(rows[i], v)
      BY <1>1, <1>2, <2>6, <3>1
    <3> QED
      BY <1>1, <1>2, <1>3, <3>1, <3>2, SettledLater
  <2> QED
    BY <1>1, <2>5, <2>6 DEF RowFine
<1>5. CASE rows[i].table \notin {"jobs", "files"}
  BY <1>1, <1>5 DEF Keeps, RowFine, Written, Attended, Settled
<1> QED
  BY <1>4, <1>5

LEMMA PendingStays ==
  ASSUME ShapeInv, ShapeInv', Evolves, RowsInv, NEW v, v = View, NEW w, w = View',
         Later(v, w), NEW q \in Requests, requests[q].op = "create", SameRequest(q),
         Calm(v, w) \/ requests'[q].overlaps = TRUE
  PROVE  PendingFine(requests'[q], w)
<1>1. v.rows = rows /\ w.rows = rows'
  BY ViewFields
<1>2. /\ requests'[q].op = "create" /\ requests'[q].row = requests[q].row
      /\ requests'[q].overlaps = requests[q].overlaps \/ requests'[q].overlaps = TRUE
  BY SameFields DEF ShapeInv, RequestShape
<1> DEFINE row == requests[q].row
<1>3. PendingFine(requests[q], v)
  BY DEF RowsInv, Pending
<1>4. /\ \A c \in DOMAIN row.refs : row.refs[c] \notin Fresh
      /\ (\A c \in DOMAIN row.refs : row.refs[c] \in DOMAIN rows \cup {None}) =>
           KeysHold(row, rows)
  BY DEF ShapeInv, RequestShape, CreateShape, Present
<1>5. (\A c \in DOMAIN row.refs : row.refs[c] \in DOMAIN rows' \cup {None}) =>
        KeysHold(row, rows')
  BY <1>2 DEF ShapeInv, RequestShape, CreateShape, Present
<1> HIDE DEF row
<1> SUFFICES ASSUME \A c \in DOMAIN row.refs : row.refs[c] \in DOMAIN rows' \cup {None}
             PROVE  /\ Written(row, w) /\ Attended(row, w)
                    /\ ~requests'[q].overlaps => Settled(row, w)
  BY <1>1, <1>2 DEF PendingFine, row
<1>6. \A c \in DOMAIN row.refs : row.refs[c] \in DOMAIN rows \cup {None}
  BY <1>4 DEF Evolves
<1>7. KeysHold(row, rows) /\ KeysHold(row, rows')
  BY <1>4, <1>5, <1>6
<1>8. /\ Written(row, v) /\ Attended(row, v)
      /\ ~requests[q].overlaps => Settled(row, v)
  BY <1>1, <1>3, <1>6 DEF PendingFine, row
<1>9. ASSUME ~requests'[q].overlaps PROVE Settled(row, w)
  <2>1. /\ \A k \in DOMAIN v.rows : KeysHold(v.rows[k], v.rows)
        /\ \A k \in DOMAIN w.rows : KeysHold(w.rows[k], w.rows)
    BY <1>1 DEF ShapeInv, RowShape
  <2> QED
    BY <1>1, <1>2, <1>7, <1>8, <1>9, <2>1, SettledCalm
<1> QED
  BY <1>1, <1>7, <1>8, <1>9, WrittenLater, AttendedLater

(* A step at which no request starts to create a row.                        *)
LEMMA RowsStep ==
  ASSUME ShapeInv, ShapeInv', Evolves, RowsInv, NEW v, v = View, NEW w, w = View',
         Later(v, w), ListedInv', \A i \in DOMAIN rows' \ DOMAIN rows : RowFine(i, w),
         \A q \in Pending' : requests[q].op = "create" /\ SameRequest(q),
         \/ Calm(v, w) /\ (SomeDelete' => SomeDelete)
         \/ \A q \in Pending' : requests'[q].overlaps = TRUE
  PROVE  RowsInv'
<1>1. \A i \in DOMAIN rows' : RowFine(i, w)
  BY RowStays
<1>2. ASSUME NEW q \in Pending'
      PROVE  PendingFine(requests'[q], w) /\ (~requests'[q].overlaps => ~SomeDelete')
  <2>1. q \in Requests /\ requests[q].op = "create" /\ SameRequest(q)
    BY DEF Pending
  <2>2. PendingFine(requests'[q], w)
    BY <2>1, PendingStays
  <2>3. ASSUME ~requests'[q].overlaps PROVE ~SomeDelete'
    <3>1. ~requests[q].overlaps
      BY <2>1, <2>3, SameFields DEF ShapeInv, RequestShape
    <3>2. ~SomeDelete
      BY <2>1, <3>1 DEF RowsInv, Pending
    <3> QED
      BY <2>3, <3>2
  <2> QED
    BY <2>2, <2>3
<1> QED
  BY <1>1, <1>2 DEF RowsInv

LEMMA UnfinishedKept ==
  ASSUME ShapeInv, NEW X, halfway \subseteq halfway',
         \A p \in Requests : \/ SameRequest(p) \/ requests[p].id \in X
                             \/ requests[p].op \notin {"delete_team", "delete_remoteci"}
  PROVE  Unfinished \subseteq Unfinished' \cup X
<1>1. ASSUME NEW p \in Requests, requests[p].op \in {"delete_team", "delete_remoteci"},
             SameRequest(p)
      PROVE  requests[p].id \in Unfinished'
  <2>1. requests'[p].op = requests[p].op /\ requests'[p].id = requests[p].id
    BY <1>1, SameFields DEF ShapeInv, RequestShape
  <2> QED
    BY <1>1, <2>1 DEF Unfinished
<1> QED
  BY <1>1 DEF Unfinished

LEMMA MarkLater ==
  ASSUME NEW v, v = View, NEW w, w = View', NEW S, DOMAIN rows' \subseteq DOMAIN rows,
         \A i \in DOMAIN rows' :
           /\ rows'[i].table = rows[i].table /\ rows'[i].refs = rows[i].refs
           /\ rows'[i].state = IF i \in S THEN "archived" ELSE rows[i].state,
         put \subseteq put', overlapped \subseteq overlapped',
         \A i \in S \cap Of("teams") : i \in Unfinished',
         \A i \in S \cap Of("remotecis") :
           i \in Unfinished' \/ OfTeam(Named(i, "team_id")) \subseteq S,
         \A i \in S \cap Of("jobs") :
           \/ Naming("files", "job_id", i) \subseteq S \/ ~IsLive(Named(i, "remoteci_id"))
           \/ Named(i, "remoteci_id") \in put,
         \A i \in Unfinished \ Unfinished' :
           /\ i \in Of("teams") => OfTeam(i) \subseteq S
           /\ i \in Of("remotecis") => Naming("jobs", "remoteci_id", i) \subseteq S
  PROVE  Later(v, w)
<1>1. /\ v.rows = rows /\ v.put = put
      /\ v.unfinished = Unfinished /\ v.overlapped = overlapped
      /\ w.rows = rows' /\ w.put = put'
      /\ w.unfinished = Unfinished' /\ w.overlapped = overlapped'
  BY ViewFields
<1>2. \A k \in DOMAIN rows' : \A c : KeyOf(rows'[k], c) = KeyOf(rows[k], c)
  BY DEF KeyOf
<1>3. ASSUME NEW t, OfTeam(t) \subseteq S PROVE TeamEmpty(t, w)
  <2>1. ASSUME NEW k \in DOMAIN rows', rows'[k].table \in {"files", "remotecis", "jobs"},
               KeyOf(rows'[k], "team_id") = t
        PROVE  k \in S
    <3>1. k \in OfTeam(t)
      BY <1>2, <2>1 DEF OfTeam, Naming, Of, Named
    <3> QED
      BY <1>3, <3>1
  <2> QED
    BY <1>1, <2>1 DEF TeamEmpty, NamedIn
<1>4. ASSUME NEW r, Naming("jobs", "remoteci_id", r) \subseteq S PROVE JobsGone(r, w)
  <2>1. \A k \in DOMAIN rows' :
          rows'[k].table = "jobs" /\ KeyOf(rows'[k], "remoteci_id") = r => k \in S
    BY <1>2, <1>4 DEF Naming, Of, Named
  <2> QED
    BY <1>1, <2>1 DEF JobsGone, NamedIn
<1>5. ASSUME NEW j, Naming("files", "job_id", j) \subseteq S PROVE FilesGone(j, w)
  <2>1. \A k \in DOMAIN rows' :
          rows'[k].table = "files" /\ KeyOf(rows'[k], "job_id") = j => k \in S
    BY <1>2, <1>5 DEF Naming, Of, Named
  <2> QED
    BY <1>1, <2>1 DEF FilesGone, NamedIn
<1>6. \A x : ~IsLive(x) => ~Live(x, w)
  BY <1>1 DEF IsLive, Live
<1>7. ASSUME NEW i \in DOMAIN rows'
      PROVE  Keeps(i, v, w) /\ Marks(i, v, w) /\ Finishes(i, v, w)
  <2>1. Keeps(i, v, w)
    BY <1>1, <1>7 DEF Keeps
  <2>2. Marks(i, v, w)
    <3>1. SUFFICES ASSUME i \in S PROVE Marks(i, v, w)
      BY <1>1, <1>7 DEF Marks
    <3>2. NamedIn(i, "team_id", v) = Named(i, "team_id")
          /\ NamedIn(i, "remoteci_id", v) = Named(i, "remoteci_id")
      BY <1>1 DEF NamedIn, Named
    <3> QED
      BY <1>1, <1>3, <1>5, <1>6, <1>7, <3>1, <3>2 DEF Marks, Of
  <2>3. Finishes(i, v, w)
    BY <1>1, <1>3, <1>4, <1>7 DEF Finishes, Of
  <2> QED
    BY <2>1, <2>2, <2>3
<1> QED
  BY <1>1, <1>7 DEF Later

LEMMA MarkListed ==
  ASSUME ListedInv, NEW S, DOMAIN rows' \subseteq DOMAIN rows,
         \A i \in DOMAIN rows' :
           /\ rows'[i].table = rows[i].table
           /\ rows'[i].state = IF i \in S THEN "archived" ELSE rows[i].state,
         overlapped \subseteq overlapped',
         (\E q \in Requests : requests'[q].op = "purge_jobs") =>
           /\ \E q \in Requests : requests[q].op = "purge_jobs"
           /\ S \cap Of("files") \subseteq overlapped'
  PROVE  ListedInv'
<1>1. ASSUME \E q \in Requests : requests'[q].op = "purge_jobs",
             NEW i \in DOMAIN rows', rows'[i].table = "files", rows'[i].state = "archived"
      PROVE  i \in overlapped'
  <2>1. CASE i \in S
    BY <1>1, <2>1 DEF Of
  <2>2. CASE i \notin S
    BY <1>1, <2>2 DEF ListedInv, ArchivedIn, Of
  <2> QED
    BY <2>1, <2>2
<1> QED
  BY <1>1 DEF ListedInv, ArchivedIn, Of

LEMMA OverlapsAll ==
  ASSUME ShapeInv, NEW p \in Requests, requests'[p] = Overlapping[p],
         requests'[p].op = "create"
  PROVE  requests[p].op = "create" /\ requests'[p].overlaps = TRUE /\ SameRequest(p)
<1>1. requests'[p] = IF requests[p].op = "create"
                     THEN [requests[p] EXCEPT !.overlaps = TRUE] ELSE requests[p]
  BY DEF Overlapping
<1>2. requests[p].op = "create"
  BY <1>1
<1>3. requests[p] = [op |-> "create", id |-> requests[p].id, row |-> requests[p].row,
                     overlaps |-> requests[p].overlaps]
  <2>1. IsRequest(requests[p])
    BY DEF ShapeInv, RequestShape
  <2>2. requests[p] \notin [op : {"none", "purge_jobs"}]
    BY <1>2
  <2>3. requests[p] \notin [op : {"delete_team", "delete_remoteci"}, id : Ids]
    BY <1>2
  <2> QED
    BY <2>1, <2>2, <2>3 DEF IsRequest
<1>4. [requests[p] EXCEPT !.overlaps = TRUE].overlaps = TRUE
  BY <1>3
<1> QED
  BY <1>1, <1>2, <1>4 DEF SameRequest

LEMMA OverlapsExcept ==
  ASSUME ShapeInv, NEW q \in Requests, NEW r, r.op # "create",
         requests' = [Overlapping EXCEPT ![q] = r]
  PROVE  /\ \A p \in Pending' : /\ requests[p].op = "create" /\ SameRequest(p)
                                /\ requests'[p].overlaps = TRUE
         /\ requests'[q] = r
         /\ \A p \in Requests \ {q} : SameRequest(p)
<1>1. /\ requests'[q] = r
      /\ \A p \in Requests \ {q} : SameRequest(p) /\ requests'[p] = Overlapping[p]
  BY OverlappingExcept DEF ShapeInv, Overlapping
<1> QED
  BY <1>1, OverlapsAll DEF Pending

LEMMA NoNewPurge ==
  ASSUME ShapeInv, NEW q,
         \A p \in Requests : SameRequest(p) \/ (p = q /\ requests'[p].op # "purge_jobs")
  PROVE  (\E p \in Requests : requests'[p].op = "purge_jobs") =>
           \E p \in Requests : requests[p].op = "purge_jobs"
BY SameFields DEF ShapeInv, RequestShape

LEMMA MissedFiles ==
  ASSUME \E p \in Requests : requests[p].op = "purge_jobs", NEW S
  PROVE  Missed(S) = S
BY DEF Missed

(* A DELETE of one transaction, or the first of two.                         *)
LEMMA RowsDeleteOne ==
  ASSUME ShapeInv, ShapeInv', Evolves, RowsInv, NEW i \in DOMAIN rows,
         DeleteOne(i) \/ DeleteTopic(i) \/ DeleteJob(i) \/ DeleteFile(i)
  PROVE  RowsInv'
<1> DEFINE S == CASE rows[i].table = "topics" -> {i} \cup Naming("components", "topic_id", i)
                  [] rows[i].table = "jobs" -> {i} \cup Naming("files", "job_id", i)
                  [] OTHER -> {i}
<1>1. /\ rows' = Archived(S) /\ requests' = Overlapping /\ UNCHANGED <<halfway, put>>
      /\ rows[i].table \notin {"teams", "remotecis"}
      /\ overlapped \subseteq overlapped'
  BY DEF DeleteOne, DeleteTopic, DeleteJob, DeleteFile
<1>2. /\ rows[i].table = "jobs" => overlapped' = overlapped \cup Missed(Naming("files", "job_id", i))
      /\ rows[i].table = "files" => overlapped' = overlapped \cup Missed({i})
  BY DEF DeleteOne, DeleteTopic, DeleteJob, DeleteFile
<1>3. \A k \in S : \/ k = i
                   \/ k \in Of("components")
                   \/ /\ rows[i].table = "jobs" /\ k \in Of("files")
                      /\ k \in Naming("files", "job_id", i)
  BY DEF Naming
<1>4. i \in S /\ (rows[i].table = "jobs" => Naming("files", "job_id", i) \subseteq S)
  OBVIOUS
<1> HIDE DEF S
<1>5. /\ DOMAIN rows' = DOMAIN rows
      /\ \A k \in DOMAIN rows' :
           /\ rows'[k].table = rows[k].table /\ rows'[k].refs = rows[k].refs
           /\ rows'[k].state = IF k \in S THEN "archived" ELSE rows[k].state
  BY <1>1, Marked DEF ShapeInv
<1>6. \A q \in Requests : SameRequest(q)
  BY <1>1, OverlappingSame DEF ShapeInv
<1>7. \A q \in Pending' : /\ requests[q].op = "create" /\ SameRequest(q)
                          /\ requests'[q].overlaps = TRUE
  BY <1>1, OverlapsAll DEF Pending
<1>8. Unfinished \subseteq Unfinished' \cup {}
  BY <1>1, <1>6, UnfinishedKept
<1>9. PICK v : v = View
  OBVIOUS
<1>10. PICK w : w = View'
  OBVIOUS
<1>11. Later(v, w)
  <2>1. \A k \in S \cap Of("teams") : k \in Unfinished'
    BY <1>1, <1>3 DEF Of
  <2>2. \A k \in S \cap Of("remotecis") :
          k \in Unfinished' \/ OfTeam(Named(k, "team_id")) \subseteq S
    BY <1>1, <1>3 DEF Of
  <2>3. \A k \in S \cap Of("jobs") :
          Naming("files", "job_id", k) \subseteq S \/ ~IsLive(Named(k, "remoteci_id"))
    BY <1>3, <1>4 DEF Of
  <2> QED
    BY <1>1, <1>5, <1>8, <1>9, <1>10, <2>1, <2>2, <2>3, MarkLater
<1>12. ListedInv'
  <2>1. (\E p \in Requests : requests'[p].op = "purge_jobs") =>
           \E p \in Requests : requests[p].op = "purge_jobs"
    BY <1>6, NoNewPurge
  <2>2. (\E p \in Requests : requests[p].op = "purge_jobs") =>
           S \cap Of("files") \subseteq overlapped'
    BY <1>2, <1>3, MissedFiles DEF Of
  <2> QED
    BY <1>1, <1>5, <2>1, <2>2, MarkListed DEF RowsInv
<1> QED
  BY <1>5, <1>7, <1>9, <1>10, <1>11, <1>12, RowsStep

LEMMA RowsBeginDelete ==
  ASSUME ShapeInv, ShapeInv', Evolves, RowsInv, NEW q \in Requests, NEW i \in DOMAIN rows,
         DeleteTeam(q, i) \/ DeleteRemoteci(q, i)
  PROVE  RowsInv'
<1>1. /\ requests[q] = Idle /\ UNCHANGED <<halfway, put, overlapped>>
      /\ rows[i].table \in {"teams", "remotecis"}
  BY DEF DeleteTeam, DeleteRemoteci
<1>2. PICK S : S = {i}
  OBVIOUS
<1>3. DOMAIN rows' \subseteq DOMAIN rows /\ \A k \in DOMAIN rows' : rows'[k] = Archived(S)[k]
  BY <1>2 DEF DeleteTeam, DeleteRemoteci, Archived
<1>4. PICK r : /\ r = [op |-> "delete_team", id |-> i] \/ r = [op |-> "delete_remoteci", id |-> i]
               /\ requests' = [Overlapping EXCEPT ![q] = r]
  BY DEF DeleteTeam, DeleteRemoteci
<1>5. r.op \in {"delete_team", "delete_remoteci"} /\ r.id = i
  BY <1>4
<1>6. /\ \A p \in Pending' : /\ requests[p].op = "create" /\ SameRequest(p)
                             /\ requests'[p].overlaps = TRUE
      /\ requests'[q] = r
      /\ \A p \in Requests \ {q} : SameRequest(p)
  BY <1>4, <1>5, OverlapsExcept
<1>7. i \in Unfinished'
  BY <1>5, <1>6 DEF Unfinished
<1>8. /\ \A k \in DOMAIN rows' :
           /\ rows'[k].table = rows[k].table /\ rows'[k].refs = rows[k].refs
           /\ rows'[k].state = IF k \in S THEN "archived" ELSE rows[k].state
  BY <1>3, Marked DEF ShapeInv
<1>9. Unfinished \subseteq Unfinished' \cup {}
  BY <1>1, <1>6, UnfinishedKept DEF Idle
<1>10. PICK v : v = View
  OBVIOUS
<1>11. PICK w : w = View'
  OBVIOUS
<1>12. Later(v, w)
  <2>1. \A k \in S : k \in Unfinished' /\ k \notin Of("jobs") /\ k \notin Of("files")
    BY <1>1, <1>2, <1>7 DEF Of
  <2> QED
    BY <1>1, <1>3, <1>8, <1>9, <1>10, <1>11, <2>1, MarkLater
<1>13. ListedInv'
  <2>1. (\E p \in Requests : requests'[p].op = "purge_jobs") =>
           \E p \in Requests : requests[p].op = "purge_jobs"
    BY <1>5, <1>6, NoNewPurge
  <2>2. S \cap Of("files") = {}
    BY <1>1, <1>2 DEF Of
  <2> QED
    BY <1>1, <1>3, <1>8, <2>1, <2>2, MarkListed DEF RowsInv
<1> QED
  BY <1>3, <1>6, <1>10, <1>11, <1>12, <1>13, RowsStep

(* The second transaction.                                                   *)
LEMMA RowsFinish ==
  ASSUME ShapeInv, ShapeInv', Evolves, RowsInv, NEW q \in Requests,
         FinishDeleteTeam(q) \/ FinishDeleteRemoteci(q)
  PROVE  RowsInv'
<1>1. PICK i : i = requests[q].id
  OBVIOUS
<1>2. PICK S : S = IF requests[q].op = "delete_team" THEN OfTeam(i)
                   ELSE Naming("jobs", "remoteci_id", i)
  OBVIOUS
<1>3. /\ rows' = Archived(S) /\ requests' = [Overlapping EXCEPT ![q] = Idle]
      /\ UNCHANGED <<halfway, put>>
      /\ requests[q].op \in {"delete_team", "delete_remoteci"}
      /\ requests[q].op = "delete_team" =>
           overlapped' = overlapped \cup Missed(S \cap Of("files"))
      /\ requests[q].op = "delete_remoteci" => overlapped' = overlapped
  BY <1>1, <1>2 DEF FinishDeleteTeam, FinishDeleteRemoteci
<1>4. i \in DOMAIN rows =>
        /\ rows[i].table = IF requests[q].op = "delete_team" THEN "teams" ELSE "remotecis"
        /\ rows[i].state = "archived" \/ i \in put
  BY <1>1, <1>3 DEF ShapeInv, RequestShape, DeleteShape
<1>5. /\ DOMAIN rows' = DOMAIN rows
      /\ \A k \in DOMAIN rows' :
           /\ rows'[k].table = rows[k].table /\ rows'[k].refs = rows[k].refs
           /\ rows'[k].state = IF k \in S THEN "archived" ELSE rows[k].state
  BY <1>3, Marked DEF ShapeInv
<1>6. /\ \A p \in Pending' : /\ requests[p].op = "create" /\ SameRequest(p)
                             /\ requests'[p].overlaps = TRUE
      /\ requests'[q] = Idle
      /\ \A p \in Requests \ {q} : SameRequest(p)
  <2>1. PICK r : r = Idle
    OBVIOUS
  <2>2. r.op # "create"
    BY <2>1 DEF Idle
  <2> QED
    BY <1>3, <2>1, <2>2, OverlapsExcept
<1>7. Unfinished \subseteq Unfinished' \cup {i}
  BY <1>1, <1>3, <1>6, UnfinishedKept
<1>8. PICK v : v = View
  OBVIOUS
<1>9. PICK w : w = View'
  OBVIOUS
<1>10. Later(v, w)
  <2>1. S \cap Of("teams") = {}
    BY <1>2 DEF OfTeam, Naming, Of
  <2>2. ASSUME NEW k \in S \cap Of("remotecis")
        PROVE  OfTeam(Named(k, "team_id")) \subseteq S
    <3>1. requests[q].op = "delete_team" /\ Named(k, "team_id") = i
      BY <1>2, <2>2 DEF OfTeam, Naming, Of
    <3> QED
      BY <1>2, <3>1
  <2>3. ASSUME NEW k \in S \cap Of("jobs")
        PROVE  \/ Naming("files", "job_id", k) \subseteq S \/ ~IsLive(Named(k, "remoteci_id"))
               \/ Named(k, "remoteci_id") \in put
    <3>1. CASE requests[q].op = "delete_team"
      <4>1. Named(k, "team_id") = i
        BY <1>2, <2>3, <3>1 DEF OfTeam, Naming, Of
      <4>2. ASSUME NEW f \in Naming("files", "job_id", k) PROVE f \in S
        <5>1. f \in Of("files") /\ Named(f, "job_id") = k
          BY <4>2 DEF Naming
        <5>2. Written(rows[f], v)
          BY <1>8, <1>9, <5>1, ViewFields DEF RowsInv, RowFine, Of
        <5>3. Named(f, "team_id") = Named(k, "team_id")
          BY <1>8, <1>9, <5>1, <5>2, ViewFields DEF Written, NamedIn, Named, Of
        <5> QED
          BY <1>2, <3>1, <4>1, <5>1, <5>3 DEF OfTeam, Naming
      <4> QED
        BY <4>2
    <3>2. CASE requests[q].op # "delete_team"
      <4>1. Named(k, "remoteci_id") = i
        BY <1>2, <2>3, <3>2 DEF Naming
      <4> QED
        BY <1>4, <4>1 DEF IsLive
    <3> QED
      BY <3>1, <3>2
  <2>4. ASSUME NEW k \in Unfinished \ Unfinished'
        PROVE  /\ k \in Of("teams") => OfTeam(k) \subseteq S
               /\ k \in Of("remotecis") => Naming("jobs", "remoteci_id", k) \subseteq S
    <3>1. k = i
      BY <1>7
    <3> QED
      BY <1>2, <1>3, <1>4, <3>1 DEF Of
  <2>5. overlapped \subseteq overlapped'
    BY <1>3
  <2> QED
    BY <1>3, <1>5, <1>8, <1>9, <2>1, <2>2, <2>3, <2>4, <2>5, MarkLater
<1>11. ListedInv'
  <2>1. (\E p \in Requests : requests'[p].op = "purge_jobs") =>
           \E p \in Requests : requests[p].op = "purge_jobs"
    <3>1. requests'[q].op # "purge_jobs"
      BY <1>6 DEF Idle
    <3> QED
      BY <1>6, <3>1, NoNewPurge
  <2>2. (\E p \in Requests : requests[p].op = "purge_jobs") =>
           S \cap Of("files") \subseteq overlapped'
    <3>1. CASE requests[q].op = "delete_team"
      BY <1>3, <3>1, MissedFiles
    <3>2. CASE requests[q].op # "delete_team"
      BY <1>2, <3>2 DEF Naming, Of
    <3> QED
      BY <3>1, <3>2
  <2>3. overlapped \subseteq overlapped'
    BY <1>3
  <2> QED
    BY <1>5, <2>1, <2>2, <2>3, MarkListed DEF RowsInv
<1> QED
  BY <1>5, <1>6, <1>8, <1>9, <1>10, <1>11, RowsStep

LEMMA RowsDie ==
  ASSUME ShapeInv, ShapeInv', Evolves, RowsInv, NEW q \in Requests, DieHalfway(q)
  PROVE  RowsInv'
<1>1. /\ requests[q].op \in {"delete_team", "delete_remoteci"}
      /\ halfway' = halfway \cup {requests[q].id}
      /\ requests' = [requests EXCEPT ![q] = Idle]
      /\ UNCHANGED <<rows, put, overlapped>>
  BY DEF DieHalfway
<1>2. requests'[q] = Idle /\ \A p \in Requests \ {q} : requests'[p] = requests[p]
  BY <1>1 DEF ShapeInv, Bounds
<1>3. \A p \in Pending' : /\ requests[p].op = "create" /\ requests'[p] = requests[p]
                          /\ SameRequest(p) /\ p \in Pending
  BY <1>2 DEF Pending, Idle, SameRequest
<1>4. \A p \in Pending' : requests'[p].overlaps = TRUE
  <2>1. SomeDelete
    BY <1>1 DEF SomeDelete
  <2>2. ASSUME NEW p \in Pending' PROVE requests'[p].overlaps = TRUE
    <3>1. p \in Pending /\ requests'[p] = requests[p]
      BY <1>3
    <3>2. requests[p].overlaps \in BOOLEAN
      <4>1. IsRequest(requests[p]) /\ requests[p].op = "create"
        BY <3>1 DEF ShapeInv, RequestShape, Pending
      <4>2. requests[p] \notin [op : {"none", "purge_jobs"}]
        BY <4>1
      <4>3. requests[p] \notin [op : {"delete_team", "delete_remoteci"}, id : Ids]
        BY <4>1
      <4> QED
        BY <4>1, <4>2, <4>3 DEF IsRequest
    <3> QED
      BY <2>1, <3>1, <3>2 DEF RowsInv
  <2> QED
    BY <2>2
<1>5. Unfinished \subseteq Unfinished' \cup {requests[q].id}
  BY <1>1, <1>2, UnfinishedKept DEF SameRequest
<1>6. Unfinished \subseteq Unfinished'
  BY <1>1, <1>5 DEF Unfinished
<1>7. PICK v : v = View
  OBVIOUS
<1>8. PICK w : w = View'
  OBVIOUS
<1>9. PICK S : S = {}
  OBVIOUS
<1>10. Later(v, w)
  BY <1>1, <1>6, <1>7, <1>8, <1>9, MarkLater
<1>11. ListedInv'
  <2>1. (\E p \in Requests : requests'[p].op = "purge_jobs") =>
           \E p \in Requests : requests[p].op = "purge_jobs"
    BY <1>2 DEF Idle
  <2> QED
    BY <1>1, <2>1 DEF RowsInv, ListedInv, ArchivedIn, Of
<1> QED
  BY <1>1, <1>3, <1>4, <1>7, <1>8, <1>10, <1>11, RowsStep

LEMMA RowsNextDelete ==
  ASSUME ShapeInv, ShapeInv', Evolves, RowsInv, NextDelete
  PROVE  RowsInv'
BY RowsDeleteOne, RowsBeginDelete, RowsFinish, RowsDie DEF NextDelete

LEMMA QuietLater ==
  ASSUME NEW v, v = View, NEW w, w = View',
         \A i \in DOMAIN rows \cap DOMAIN rows' : rows'[i] = rows[i],
         put \subseteq put', overlapped \subseteq overlapped', Unfinished \subseteq Unfinished'
  PROVE  Later(v, w) /\ Calm(v, w)
<1>1. /\ v.rows = rows /\ v.put = put
      /\ v.unfinished = Unfinished /\ v.overlapped = overlapped
      /\ w.rows = rows' /\ w.put = put'
      /\ w.unfinished = Unfinished' /\ w.overlapped = overlapped'
  BY ViewFields
<1>2. ASSUME NEW i \in DOMAIN rows \cap DOMAIN rows'
      PROVE  Keeps(i, v, w) /\ Marks(i, v, w) /\ Finishes(i, v, w)
  BY <1>1, <1>2 DEF Keeps, Marks, Finishes
<1> QED
  BY <1>1, <1>2 DEF Later, Calm

(* A request that is not deleting stops or starts something else.            *)
LEMMA RequestsQuiet ==
  ASSUME ShapeInv, halfway' = halfway,
         \A p \in Requests :
           \/ requests'[p] = requests[p]
           \/ /\ requests[p].op \notin {"delete_team", "delete_remoteci"}
              /\ requests'[p].op \in {"none", "purge_jobs"}
  PROVE  /\ Unfinished' = Unfinished /\ (SomeDelete' <=> SomeDelete)
         /\ \A p \in Pending' : requests[p].op = "create" /\ SameRequest(p)
<1>1. \A p \in Requests :
        requests'[p].op \in {"delete_team", "delete_remoteci"} <=>
          requests[p].op \in {"delete_team", "delete_remoteci"}
  OBVIOUS
<1>2. \A p \in Requests :
        requests[p].op \in {"delete_team", "delete_remoteci"} => requests'[p] = requests[p]
  OBVIOUS
<1> QED
  BY <1>1, <1>2 DEF Unfinished, SomeDelete, Pending, SameRequest

LEMMA RowsPurge ==
  ASSUME ShapeInv, ShapeInv', Evolves, RowsInv, UNCHANGED <<halfway, put, overlapped>>,
         DOMAIN rows' \subseteq DOMAIN rows, \A i \in DOMAIN rows' : rows'[i] = rows[i],
         ListedInv',
         \A p \in Requests :
           \/ requests'[p] = requests[p]
           \/ /\ requests[p].op \notin {"delete_team", "delete_remoteci"}
              /\ requests'[p].op \in {"none", "purge_jobs"}
  PROVE  RowsInv'
<1>1. /\ Unfinished' = Unfinished /\ (SomeDelete' <=> SomeDelete)
      /\ \A p \in Pending' : requests[p].op = "create" /\ SameRequest(p)
  BY RequestsQuiet
<1>2. PICK v : v = View
  OBVIOUS
<1>3. PICK w : w = View'
  OBVIOUS
<1>4. Later(v, w) /\ Calm(v, w)
  BY <1>1, <1>2, <1>3, QuietLater
<1> QED
  BY <1>1, <1>2, <1>3, <1>4, RowsStep

LEMMA ListedStays ==
  ASSUME ListedInv, overlapped' = overlapped, DOMAIN rows' \subseteq DOMAIN rows,
         \A i \in DOMAIN rows' : rows'[i] = rows[i],
         \A p \in Requests : requests'[p].op = "purge_jobs" => requests[p].op = "purge_jobs"
  PROVE  ListedInv'
BY DEF ListedInv, ArchivedIn, Of

LEMMA WithoutRows ==
  ASSUME NEW S, rows' = Without(S)
  PROVE  DOMAIN rows' = DOMAIN rows \ S /\ \A i \in DOMAIN rows' : rows'[i] = rows[i]
BY DEF Without

LEMMA PurgedRows ==
  ASSUME NEW t, PurgeRows(t)
  PROVE  DOMAIN rows' \subseteq DOMAIN rows /\ \A i \in DOMAIN rows' : rows'[i] = rows[i]
<1>1. CASE rows' = rows
  BY <1>1
<1>2. CASE rows' = Without(Removed(ArchivedIn(t)))
  BY <1>2, WithoutRows
<1> QED
  BY <1>1, <1>2 DEF PurgeRows

LEMMA RowsNextPurge ==
  ASSUME ShapeInv, ShapeInv', Evolves, RowsInv, NextPurge
  PROVE  RowsInv'
<1>0. ListedInv /\ requests = [p \in Requests |-> requests[p]]
  BY DEF RowsInv, ShapeInv, Bounds
<1>1. CASE PurgeComponents
  <2>1. /\ UNCHANGED <<requests, halfway, put, overlapped>>
        /\ rows' = Without(Removed(ArchivedIn("components")))
    BY <1>1 DEF PurgeComponents
  <2>2. DOMAIN rows' \subseteq DOMAIN rows /\ \A i \in DOMAIN rows' : rows'[i] = rows[i]
    BY <2>1, WithoutRows
  <2>3. ListedInv'
    BY <1>0, <2>1, <2>2, ListedStays
  <2> QED
    BY <2>1, <2>2, <2>3, RowsPurge
<1>2. ASSUME NEW t \in DOMAIN Declared, PurgeTable(t) PROVE RowsInv'
  <2>1. PurgeRows(t) /\ UNCHANGED <<requests, halfway, put, overlapped>>
    BY <1>2 DEF PurgeTable, PurgeRows
  <2>2. DOMAIN rows' \subseteq DOMAIN rows /\ \A i \in DOMAIN rows' : rows'[i] = rows[i]
    BY <2>1, PurgedRows
  <2>3. ListedInv'
    BY <1>0, <2>1, <2>2, ListedStays
  <2> QED
    BY <2>1, <2>2, <2>3, RowsPurge
<1>3. ASSUME NEW q \in Requests, NEW whole \in BOOLEAN, PurgeFiles(q, whole) PROVE RowsInv'
  <2>1. /\ UNCHANGED <<halfway, put, overlapped>> /\ requests[q] = Idle
        /\ rows' = Without(Removed(ArchivedIn("files")))
        /\ requests' = [requests EXCEPT ![q] = IF whole THEN [op |-> "purge_jobs"] ELSE Idle]
    BY <1>3 DEF PurgeFiles
  <2>2. /\ DOMAIN rows' = DOMAIN rows \ Removed(ArchivedIn("files"))
        /\ \A i \in DOMAIN rows' : rows'[i] = rows[i]
    BY <2>1, WithoutRows
  <2>3. ArchivedIn("files")' = {}
    <3>1. PICK S \in SUBSET DOMAIN rows : S = ArchivedIn("files")
      BY DEF ArchivedIn, Of
    <3>2. S \subseteq Removed(S)
      BY ShapeNone, RemovedClosed
    <3> QED
      BY <2>2, <3>1, <3>2 DEF ArchivedIn, Of
  <2>4. ListedInv'
    BY <2>3 DEF ListedInv
  <2>5. requests[q].op = "none" /\ requests'[q].op \in {"none", "purge_jobs"}
    BY <1>0, <2>1 DEF Idle
  <2>6. \A p \in Requests \ {q} : requests'[p] = requests[p]
    BY <1>0, <2>1
  <2> QED
    BY <2>1, <2>2, <2>4, <2>5, <2>6, RowsPurge
<1>4. ASSUME NEW q \in Requests, PurgeJobs(q) PROVE RowsInv'
  <2>1. /\ UNCHANGED <<halfway, put, overlapped>> /\ requests[q].op = "purge_jobs"
        /\ requests' = [requests EXCEPT ![q] = Idle]
    BY <1>4 DEF PurgeJobs, PurgeRows
  <2>2. DOMAIN rows' \subseteq DOMAIN rows /\ \A i \in DOMAIN rows' : rows'[i] = rows[i]
    BY <1>4, PurgedRows DEF PurgeJobs
  <2>3. requests'[q].op = "none" /\ \A p \in Requests \ {q} : requests'[p] = requests[p]
    BY <1>0, <2>1 DEF Idle
  <2>4. ListedInv'
    BY <1>0, <2>1, <2>2, <2>3, ListedStays
  <2> QED
    BY <2>1, <2>2, <2>3, <2>4, RowsPurge
<1> QED
  BY <1>1, <1>2, <1>3, <1>4 DEF NextPurge

(* A new job or file, when its request has looked at what it names.          *)
LEMMA RowsBegin ==
  ASSUME ShapeInv, RowsInv, NEW q \in Requests, NEW i \in DOMAIN Unborn, NEW table, NEW refs,
         Begin(q, i, table, refs), NEW v, v = View, NEW row, row = Row(table, refs),
         Written(row, v), Attended(row, v), ~SomeDelete => Settled(row, v)
  PROVE  RowsInv'
<1>1. /\ requests'[q] = [op |-> "create", id |-> i, row |-> row, overlaps |-> SomeDelete]
      /\ \A p \in Requests \ {q} : requests'[p] = requests[p]
      /\ Pending' = Pending \cup {q} /\ q \notin Pending
  BY BeginFacts
<1>2. UNCHANGED <<rows, changes, halfway, put, overlapped>> /\ requests[q] = Idle
  BY DEF Begin
<1>3. /\ requests'[q].op = "create" /\ requests'[q].row = row
      /\ (requests'[q].overlaps <=> SomeDelete) /\ requests[q].op = "none"
  BY <1>1, <1>2 DEF Idle
<1>4. Unfinished' = Unfinished /\ (SomeDelete' <=> SomeDelete)
  BY <1>1, <1>2, <1>3 DEF Unfinished, SomeDelete
<1>5. View' = v
  BY <1>2, <1>4 DEF View
<1>6. \A k \in DOMAIN rows' : RowFine(k, v)
  BY <1>2 DEF RowsInv
<1>7. ASSUME NEW p \in Pending'
      PROVE  PendingFine(requests'[p], v) /\ (~requests'[p].overlaps => ~SomeDelete')
  <2>1. CASE p = q
    BY <1>3, <1>4, <2>1 DEF PendingFine
  <2>2. CASE p # q
    <3>1. p \in Pending /\ requests'[p] = requests[p]
      BY <1>1, <1>7, <2>2 DEF Pending
    <3> QED
      BY <1>4, <3>1 DEF RowsInv
  <2> QED
    BY <2>1, <2>2
<1>8. ListedInv'
  BY <1>1, <1>2, <1>3 DEF RowsInv, ListedInv, ArchivedIn, Of
<1> QED
  BY <1>5, <1>6, <1>7, <1>8 DEF RowsInv

LEMMA ViewIs ==
  ASSUME NEW v, v = View
  PROVE  /\ v.rows = rows /\ v.put = put
         /\ v.unfinished = Unfinished /\ v.overlapped = overlapped
         /\ \A i : Live(i, v) <=> IsLive(i)
         /\ \A i, c : NamedIn(i, c, v) = Named(i, c)
BY DEF View, Live, IsLive, NamedIn, Named

LEMMA RowsNewJob ==
  ASSUME ShapeInv, RowsInv, NEW q \in Requests, NEW i \in DOMAIN Unborn,
         NEW remoteci \in Of("remotecis"), NEW topic \in Of("topics"),
         NEW previous \in Of("jobs") \cup {None}, NEW updated \in Of("jobs") \cup {None},
         NEW pipeline \in Of("pipelines") \cup {None},
         Begin(q, i, "jobs", JobRefs(remoteci, topic, previous, updated, pipeline)),
         IsLive(remoteci),
         \/ remoteci \in put \/ Named(remoteci, "team_id") \in put
         \/ Named(remoteci, "team_id") \in Unfinished
         \/ IsLive(Named(remoteci, "team_id"))
  PROVE  RowsInv'
<1>0. RowShape /\ NoneIsNoRow
  BY ShapeNone DEF ShapeInv
<1>1. PICK v : v = View
  OBVIOUS
<1>2. /\ v.rows = rows /\ v.put = put
      /\ v.unfinished = Unfinished /\ v.overlapped = overlapped
      /\ \A k : Live(k, v) <=> IsLive(k)
      /\ \A k, c : NamedIn(k, c, v) = Named(k, c)
  BY <1>1, ViewIs
<1>3. PICK row : row = Row("jobs", JobRefs(remoteci, topic, previous, updated, pipeline))
  OBVIOUS
<1>4. /\ KeyOf(row, "remoteci_id") = remoteci
      /\ KeyOf(row, "team_id") = Named(remoteci, "team_id")
      /\ KeyOf(row, "topic_id") = topic
      /\ KeyOf(row, "product_id") = Named(topic, "product_id")
  BY <1>3, JobRowKeys
<1>5. row.table = "jobs" /\ topic # None
  BY <1>0, <1>3, RowFields DEF NoneIsNoRow, Of
<1>6. Written(row, v) /\ Attended(row, v) /\ Settled(row, v)
  BY <1>2, <1>4, <1>5 DEF Written, Attended, Settled
<1> QED
  BY <1>1, <1>3, <1>6, RowsBegin

LEMMA RowsCreateJob ==
  ASSUME ShapeInv, RowsInv, NEW q \in Requests, NEW i \in DOMAIN Unborn,
         NEW remoteci \in Of("remotecis"), NEW topic \in Of("topics"),
         NEW previous \in Of("jobs") \cup {None}, NEW updated \in Of("jobs") \cup {None},
         NEW pipeline \in Of("pipelines") \cup {None},
         CreateJob(q, i, remoteci, topic, previous, updated, pipeline)
  PROVE  RowsInv'
<1>1. /\ Begin(q, i, "jobs", JobRefs(remoteci, topic, previous, updated, pipeline))
      /\ IsLive(remoteci) /\ IsLive(Named(remoteci, "team_id"))
  BY DEF CreateJob, JobRefs
<1> QED
  BY <1>1, RowsNewJob

LEMMA RowsCreateFromJob ==
  ASSUME ShapeInv, RowsInv, NEW q \in Requests, NEW i \in DOMAIN Unborn,
         NEW previous \in Of("jobs"), NEW topic \in Of("topics"),
         NEW updated \in Of("jobs") \cup {None},
         CreateFromJob(q, i, previous, topic, updated)
  PROVE  RowsInv'
<1>1. PICK remoteci : remoteci = Named(previous, "remoteci_id")
  OBVIOUS
<1>2. remoteci \in Of("remotecis")
  BY <1>1, JobParents DEF ShapeInv
<1>3. /\ Begin(q, i, "jobs", JobRefs(remoteci, topic, previous, updated, None))
      /\ IsLive(remoteci)
  BY <1>1 DEF CreateFromJob, JobRefs
<1>4. PICK v : v = View
  OBVIOUS
<1>5. Written(rows[previous], v) /\ Attended(rows[previous], v)
  BY <1>4, ViewIs DEF RowsInv, RowFine, Of
<1>6. /\ remoteci \in put \/ Named(previous, "team_id") = Named(remoteci, "team_id")
      /\ \/ ~IsLive(remoteci) \/ remoteci \in put
         \/ Named(previous, "team_id") \in put
         \/ Named(previous, "team_id") \in Unfinished \/ IsLive(Named(previous, "team_id"))
  BY <1>1, <1>4, <1>5, ViewIs DEF Written, Attended, Of, Named
<1> QED
  BY <1>2, <1>3, <1>6, RowsNewJob

LEMMA RowsCreateFile ==
  ASSUME ShapeInv, RowsInv, NEW q \in Requests, NEW i \in DOMAIN Unborn,
         NEW job \in Of("jobs"), CreateFile(q, i, job)
  PROVE  RowsInv'
<1>0. RowShape /\ NoneIsNoRow
  BY ShapeNone DEF ShapeInv
<1>1. PICK v : v = View
  OBVIOUS
<1>2. /\ v.rows = rows /\ v.put = put
      /\ v.unfinished = Unfinished /\ v.overlapped = overlapped
      /\ \A k : Live(k, v) <=> IsLive(k)
      /\ \A k, c : NamedIn(k, c, v) = Named(k, c)
  BY <1>1, ViewIs
<1>3. PICK refs : refs = [job_id |-> job, team_id |-> Named(job, "team_id")]
  OBVIOUS
<1>4. Begin(q, i, "files", refs) /\ IsLive(job)
  BY <1>3 DEF CreateFile
<1>5. PICK row : row = Row("files", refs)
  OBVIOUS
<1>6. /\ KeyOf(row, "job_id") = job /\ KeyOf(row, "team_id") = Named(job, "team_id")
      /\ KeyOf(row, "jobstate_id") = None
  BY <1>0, <1>3, <1>5, FileRow
<1>7. row.table = "files" /\ job # None /\ rows[job].table = "jobs" /\ job \in DOMAIN rows
  BY <1>0, <1>5, RowFields DEF NoneIsNoRow, Of
<1>8. Written(row, v) /\ Attended(row, v)
  BY <1>2, <1>6, <1>7 DEF Written, Attended
<1>9. Settled(row, v)
  <2>1. job \notin overlapped \cup put => Settled(rows[job], v)
    BY <1>1, <1>2, <1>4, <1>7 DEF RowsInv, RowFine, Exempt
  <2>2. \/ job \in overlapped \/ job \in put
        \/ Named(job, "remoteci_id") \in put \/ Named(job, "team_id") \in put
        \/ Named(job, "team_id") \in Unfinished \/ IsLive(Named(job, "team_id"))
    BY <1>2, <1>7, <2>1 DEF Settled, Named
  <2> QED
    BY <1>2, <1>4, <1>6, <1>7, <2>2 DEF Settled
<1> QED
  BY <1>1, <1>4, <1>5, <1>8, <1>9, RowsBegin

LEMMA RowsInsert ==
  ASSUME ShapeInv, ShapeInv', Evolves, RowsInv, NEW q \in Requests, Insert(q)
  PROVE  RowsInv'
<1> DEFINE id == requests[q].id
           row == requests[q].row
<1>1. /\ requests[q].op = "create" /\ requests' = [requests EXCEPT ![q] = Idle]
      /\ UNCHANGED <<halfway, put>>
      /\ rows' = IF Present(row) THEN With(id, row) ELSE rows
  BY DEF Insert, Present
<1>2. overlapped' = IF requests[q].overlaps THEN overlapped \cup {id} ELSE overlapped
  BY DEF Insert
<1>3. q \in Pending /\ id \in Fresh /\ id \notin DOMAIN rows
  BY <1>1 DEF Pending, Fresh, ShapeInv
<1>4. /\ requests'[q] = Idle
      /\ \A p \in Requests \ {q} : requests'[p] = requests[p]
  BY <1>1 DEF ShapeInv, Bounds
<1>5. /\ Unfinished' = Unfinished /\ (SomeDelete' <=> SomeDelete)
      /\ \A p \in Pending' : requests[p].op = "create" /\ SameRequest(p)
  <2>1. requests'[q].op = "none"
    BY <1>4 DEF Idle
  <2> QED
    BY <1>1, <1>4, <2>1, RequestsQuiet
<1>6. PICK v : v = View
  OBVIOUS
<1>7. PICK w : w = View'
  OBVIOUS
<1>8. v.rows = rows /\ w.rows = rows' /\ w.overlapped = overlapped'
  BY <1>6, <1>7, ViewFields
<1>9. row.state = "active" /\ (Present(row) => KeysHold(row, rows))
  BY <1>1 DEF ShapeInv, RequestShape, CreateShape
<1>10. PendingFine(requests[q], v)
  BY <1>3, <1>6 DEF RowsInv
<1>11. Present(row) => /\ Written(row, v) /\ Attended(row, v)
                       /\ ~requests[q].overlaps => Settled(row, v)
  BY <1>8, <1>10 DEF PendingFine, Present
<1> HIDE DEF id, row
<1>12. /\ Present(row) => /\ DOMAIN rows' = DOMAIN rows \cup {id} /\ rows'[id] = row
       /\ ~Present(row) => DOMAIN rows' = DOMAIN rows
       /\ \A k \in DOMAIN rows : rows'[k] = rows[k]
  BY <1>1, <1>3 DEF With
<1>13. Later(v, w) /\ Calm(v, w)
  BY <1>1, <1>2, <1>5, <1>6, <1>7, <1>12, QuietLater
<1>14. ASSUME NEW k \in DOMAIN rows' \ DOMAIN rows PROVE RowFine(k, w)
  <2>1. k = id /\ rows'[k] = row /\ Present(row)
    BY <1>12, <1>14
  <2>2. KeysHold(row, rows) /\ KeysHold(row, rows')
    BY <1>9, <1>14, <2>1 DEF ShapeInv, RowShape
  <2>3. Written(row, w) /\ Attended(row, w)
    BY <1>8, <1>11, <1>13, <2>1, <2>2, WrittenLater, AttendedLater
  <2>4. ASSUME k \notin overlapped' PROVE Settled(row, w)
    <3>1. ~requests[q].overlaps
      BY <1>2, <2>1, <2>4
    <3>2. /\ \A x \in DOMAIN v.rows : KeysHold(v.rows[x], v.rows)
          /\ \A x \in DOMAIN w.rows : KeysHold(w.rows[x], w.rows)
      BY <1>8 DEF ShapeInv, RowShape
    <3> QED
      BY <1>8, <1>11, <1>13, <2>1, <2>2, <3>1, <3>2, SettledCalm
  <2> QED
    BY <1>8, <2>1, <2>3, <2>4 DEF RowFine, Exempt
<1>15. ListedInv'
  <2>1. ASSUME NEW k \in DOMAIN rows', rows'[k].state = "archived"
        PROVE  k \in DOMAIN rows /\ rows'[k] = rows[k]
    BY <1>9, <1>12, <2>1
  <2>2. \A p \in Requests : requests'[p].op = "purge_jobs" => requests[p].op = "purge_jobs"
    BY <1>4 DEF Idle
  <2>3. overlapped \subseteq overlapped'
    BY <1>2
  <2> QED
    BY <2>1, <2>2, <2>3 DEF RowsInv, ListedInv, ArchivedIn, Of
<1> QED
  BY <1>5, <1>6, <1>7, <1>13, <1>14, <1>15, RowsStep

LEMMA RowsRemoteci ==
  ASSUME ShapeInv, ShapeInv', Evolves, RowsInv, NEW i \in DOMAIN Unborn,
         NEW team \in Of("teams"), CreateRemoteci(i, team)
  PROVE  RowsInv'
<1>1. PICK row : row = Row("remotecis", [team_id |-> team])
  OBVIOUS
<1>2. /\ rows' = With(i, row) /\ i \notin born
      /\ UNCHANGED <<requests, halfway, put, overlapped>>
  BY <1>1 DEF CreateRemoteci
<1>3. row.table = "remotecis" /\ row.state = "active"
  BY <1>1, RowFields
<1>4. /\ DOMAIN rows' = DOMAIN rows \cup {i} /\ rows'[i] = row
      /\ \A k \in DOMAIN rows \ {i} : rows'[k] = rows[k]
  BY <1>2 DEF With
<1>5. i \notin DOMAIN rows
  BY <1>2 DEF ShapeInv, Fresh
<1>6. /\ Unfinished' = Unfinished /\ (SomeDelete' <=> SomeDelete)
      /\ \A p \in Pending' : requests[p].op = "create" /\ SameRequest(p)
  BY <1>2, RequestsQuiet
<1>7. PICK v : v = View
  OBVIOUS
<1>8. PICK w : w = View'
  OBVIOUS
<1>9. Later(v, w) /\ Calm(v, w) /\ w.rows = rows'
  BY <1>2, <1>4, <1>5, <1>6, <1>7, <1>8, QuietLater, ViewFields
<1>10. RowFine(i, w)
  BY <1>3, <1>4, <1>9 DEF RowFine, Written, Attended, Settled
<1>11. ListedInv'
  BY <1>2, <1>3, <1>4 DEF RowsInv, ListedInv, ArchivedIn, Of
<1> QED
  BY <1>4, <1>6, <1>7, <1>8, <1>9, <1>10, <1>11, RowsStep

LEMMA RowsNextPut ==
  ASSUME ShapeInv, ShapeInv', Evolves, RowsInv, NextPut
  PROVE  RowsInv'
<1>1. PICK i \in DOMAIN rows : PutState(i) \/ \E key \in Movable : \E to : PutParent(i, key[2], to)
  BY DEF NextPut
<1>2. /\ DOMAIN rows' = DOMAIN rows
      /\ \A k \in DOMAIN rows : /\ k # i => rows'[k] = rows[k]
                                /\ rows'[k].table = rows[k].table
      /\ rows[i].table \in {"jobs", "files", "jobstates"} => rows'[i].refs = rows[i].refs
      /\ put' = put \cup {i} /\ requests' = Overlapping /\ UNCHANGED <<halfway, overlapped>>
  BY <1>1, PutShape DEF ShapeInv
<1>3. /\ \A p \in Pending' : /\ requests[p].op = "create" /\ SameRequest(p)
                             /\ requests'[p].overlaps = TRUE
      /\ \A p \in Requests : SameRequest(p)
  BY <1>2, OverlapsAll, OverlappingSame DEF Pending, ShapeInv
<1>4. Unfinished \subseteq Unfinished' \cup {}
  BY <1>2, <1>3, UnfinishedKept
<1>5. PICK v : v = View
  OBVIOUS
<1>6. PICK w : w = View'
  OBVIOUS
<1>7. /\ v.rows = rows /\ v.put = put
      /\ v.unfinished = Unfinished /\ v.overlapped = overlapped
      /\ w.rows = rows' /\ w.put = put'
      /\ w.unfinished = Unfinished' /\ w.overlapped = overlapped'
  BY <1>5, <1>6, ViewFields
<1>8. rows[i].table # "files"
  BY <1>1 DEF PutState, PutParent, Movable
<1>9. Later(v, w)
  <2>1. ASSUME NEW k \in DOMAIN rows
        PROVE  Keeps(k, v, w) /\ Marks(k, v, w) /\ Finishes(k, v, w)
    BY <1>2, <1>4, <1>7, <1>8, <2>1 DEF Keeps, Marks, Finishes
  <2> QED
    BY <1>2, <1>7, <2>1 DEF Later
<1>10. ListedInv'
  <2>1. (\E p \in Requests : requests'[p].op = "purge_jobs") =>
           \E p \in Requests : requests[p].op = "purge_jobs"
    BY <1>3, NoNewPurge
  <2> QED
    BY <1>2, <1>8, <2>1 DEF RowsInv, ListedInv, ArchivedIn, Of
<1> QED
  BY <1>2, <1>3, <1>5, <1>6, <1>9, <1>10, RowsStep

LEMMA RowsNextInsert ==
  ASSUME ShapeInv, ShapeInv', Evolves, RowsInv, NextInsert
  PROVE  RowsInv'
BY RowsCreateJob, RowsCreateFromJob, RowsCreateFile, RowsInsert, RowsRemoteci
   DEF NextInsert

LEMMA RowsInit ==
  ASSUME Init
  PROVE  RowsInv
<1>0. rows \in Seeds /\ ShapeInv
  BY ShapeInit DEF Init
<1>1. Pending = {} /\ \A q \in Requests : requests[q].op = "none"
  BY DEF Init, Pending, Idle
<1>2. \A i \in DOMAIN rows : /\ IsWritten(rows[i], rows) /\ rows[i].state = "active"
                             /\ KeysHold(rows[i], rows)
  BY <1>0, SeedsAssumption DEF SeedsAssumption
<1>3. PICK v : v = View
  OBVIOUS
<1>4. v.rows = rows
  BY <1>3, ViewIs
<1>5. ASSUME NEW i \in DOMAIN rows PROVE RowFine(i, v)
  <2>1. \A k \in DOMAIN rows : Live(k, v)
    BY <1>2, <1>4 DEF Live
  <2>2. Written(rows[i], v)
    BY <1>2, <1>4 DEF IsWritten, Written, NamedIn
  <2>3. rows[i].table = "jobs" => /\ Live(KeyOf(rows[i], "team_id"), v)
                                  /\ Live(KeyOf(rows[i], "remoteci_id"), v)
    BY <1>2, <2>1, JobKeysHold
  <2>4. rows[i].table = "files" => /\ Live(KeyOf(rows[i], "team_id"), v)
                                   /\ Live(KeyOf(rows[i], "job_id"), v)
    BY <1>2, <2>1, <2>2, FileKeysHold DEF Written
  <2> QED
    BY <1>4, <2>2, <2>3, <2>4 DEF RowFine, Attended, Settled
<1>6. ListedInv
  BY <1>1 DEF ListedInv
<1> QED
  BY <1>1, <1>3, <1>5, <1>6 DEF RowsInv

LEMMA RowsNext ==
  ASSUME ShapeInv, RowsInv, [Next]_vars
  PROVE  RowsInv'
<1>0. ShapeInv' /\ Evolves
  BY ShapeNext
<1>1. CASE Next
  BY <1>0, <1>1, RowsNextDelete, RowsNextPurge, RowsNextInsert, RowsNextPut DEF Next
<1>2. CASE UNCHANGED vars
  <2>1. UNCHANGED <<rows, requests, halfway, put, overlapped>>
    BY <1>2 DEF vars
  <2>2. ListedInv'
    BY <2>1 DEF RowsInv, ListedInv, ArchivedIn, Of
  <2> QED
    BY <1>0, <2>1, <2>2, RowsPurge
<1> QED
  BY <1>1, <1>2

ArchiveInv == ShapeInv /\ RowsInv

LEMMA ArchiveInvHolds == Spec => []ArchiveInv
<1>1. Init => ArchiveInv
  BY ShapeInit, RowsInit DEF ArchiveInv
<1>2. ArchiveInv /\ [Next]_vars => ArchiveInv'
  BY ShapeNext, RowsNext DEF ArchiveInv
<1> QED
  BY <1>1, <1>2, PTL DEF Spec

(* What the invariant says of a job and of a file.                           *)
LEMMA JobFine ==
  ASSUME ArchiveInv, NEW job \in Of("jobs")
  PROVE  /\ Named(job, "topic_id") \in Of("topics")
         /\ \/ Named(job, "topic_id") \in put
            \/ Named(job, "product_id") = Named(Named(job, "topic_id"), "product_id")
         /\ \/ Named(job, "remoteci_id") \in put
            \/ Named(job, "team_id") = Named(Named(job, "remoteci_id"), "team_id")
         /\ IsLive(job) /\ job \notin overlapped \cup put =>
              \/ Named(job, "remoteci_id") \in put \/ Named(job, "team_id") \in put
              \/ Named(job, "team_id") \in Unfinished
              \/ /\ IsLive(Named(job, "team_id"))
                 /\ \/ Named(job, "remoteci_id") \in Unfinished
                    \/ IsLive(Named(job, "remoteci_id"))
<1>1. PICK v : v = View
  OBVIOUS
<1>2. /\ v.put = put /\ v.unfinished = Unfinished /\ v.overlapped = overlapped
      /\ v.rows = rows /\ rows[job].table = "jobs" /\ job \in DOMAIN rows
      /\ \A k : Live(k, v) <=> IsLive(k)
      /\ \A k, c : NamedIn(k, c, v) = Named(k, c)
  BY <1>1, ViewIs DEF Of
<1>3. /\ Written(rows[job], v)
      /\ IsLive(job) /\ job \notin overlapped \cup put => Settled(rows[job], v)
  BY <1>1, <1>2 DEF ArchiveInv, RowsInv, RowFine, Exempt
<1>4. \A c : KeyOf(rows[job], c) = Named(job, c)
  BY DEF Named
<1>5. Named(job, "topic_id") # None
  BY <1>2, <1>3, <1>4 DEF Written
<1> QED
  BY <1>2, <1>3, <1>4, <1>5, JobParents DEF Written, Settled, ArchiveInv, ShapeInv

LEMMA FileFine ==
  ASSUME ArchiveInv, NEW file \in Of("files")
  PROVE  /\ Named(file, "team_id") \in Of("teams") /\ Named(file, "job_id") \in Of("jobs")
         /\ Named(file, "team_id") = Named(Named(file, "job_id"), "team_id")
         /\ Named(file, "jobstate_id") # None =>
              /\ Named(file, "jobstate_id") \in Of("jobstates")
              /\ Named(file, "job_id") = Named(Named(file, "jobstate_id"), "job_id")
         /\ IsLive(file) /\ file \notin overlapped =>
              /\ \/ Named(file, "job_id") \in overlapped \/ Named(file, "job_id") \in put
                 \/ Named(Named(file, "job_id"), "remoteci_id") \in put
                 \/ Named(file, "team_id") \in put
                 \/ Named(file, "team_id") \in Unfinished \/ IsLive(Named(file, "team_id"))
              /\ \/ IsLive(Named(file, "job_id")) \/ Named(file, "job_id") \in put
                 \/ Named(Named(file, "job_id"), "remoteci_id") \in put
                 \/ ~IsLive(Named(Named(file, "job_id"), "remoteci_id"))
<1>1. PICK v : v = View
  OBVIOUS
<1>2. /\ v.put = put /\ v.unfinished = Unfinished /\ v.overlapped = overlapped
      /\ v.rows = rows /\ rows[file].table = "files" /\ file \in DOMAIN rows
      /\ \A k : Live(k, v) <=> IsLive(k)
      /\ \A k, c : NamedIn(k, c, v) = Named(k, c)
  BY <1>1, ViewIs DEF Of
<1>3. /\ Written(rows[file], v)
      /\ IsLive(file) /\ file \notin overlapped => Settled(rows[file], v)
  BY <1>1, <1>2 DEF ArchiveInv, RowsInv, RowFine, Exempt
<1>4. \A c : KeyOf(rows[file], c) = Named(file, c)
  BY DEF Named
<1>5. KeysHold(rows[file], rows)
  BY <1>2 DEF ArchiveInv, ShapeInv, RowShape
<1>6. /\ Named(file, "job_id") # None
      /\ Named(file, "team_id") = Named(Named(file, "job_id"), "team_id")
      /\ Named(file, "jobstate_id") # None =>
           Named(file, "job_id") = Named(Named(file, "jobstate_id"), "job_id")
  BY <1>2, <1>3, <1>4 DEF Written
<1>7. /\ Named(file, "team_id") \in Of("teams") /\ Named(file, "job_id") \in Of("jobs")
      /\ Named(file, "jobstate_id") # None => Named(file, "jobstate_id") \in Of("jobstates")
  BY <1>2, <1>4, <1>5, <1>6, FileKeysHold DEF Of
<1>8. IsLive(file) /\ file \notin overlapped =>
              /\ \/ Named(file, "job_id") \in overlapped \/ Named(file, "job_id") \in put
                 \/ Named(Named(file, "job_id"), "remoteci_id") \in put
                 \/ Named(file, "team_id") \in put
                 \/ Named(file, "team_id") \in Unfinished \/ IsLive(Named(file, "team_id"))
              /\ \/ IsLive(Named(file, "job_id")) \/ Named(file, "job_id") \in put
                 \/ Named(Named(file, "job_id"), "remoteci_id") \in put
                 \/ ~IsLive(Named(Named(file, "job_id"), "remoteci_id"))
  BY <1>2, <1>3, <1>4 DEF Settled
<1> QED
  BY <1>6, <1>7, <1>8

(* A deleted team or remoteci leaves no live job and no live file, unless    *)
(* its DELETE is not over or never will be, another request ran across it,   *)
(* or a PUT wrote the job, its remoteci or its team, which archives the row  *)
(* alone, brings it back or moves it: NothingRunsOnWhatIsDeleted.            *)
THEOREM DeletedLeavesNothingRunning == Spec => []NothingRunsOnWhatIsDeleted
<1>1. ArchiveInv => NothingRunsOnWhatIsDeleted
  <2> SUFFICES ASSUME ArchiveInv PROVE NothingRunsOnWhatIsDeleted
    OBVIOUS
  <2>1. ASSUME NEW job \in Of("jobs"), IsLive(job), ~Excused(job)
        PROVE  IsLive(Named(job, "remoteci_id")) /\ IsLive(Named(job, "team_id"))
    BY <2>1, JobFine DEF Excused
  <2>2. ASSUME NEW file \in Of("files"), IsLive(file), file \notin overlapped,
               ~Excused(Named(file, "job_id"))
        PROVE  IsLive(Named(file, "team_id"))
    BY <2>2, FileFine DEF Excused
  <2> QED
    BY <2>1, <2>2 DEF NothingRunsOnWhatIsDeleted
<1> QED
  BY <1>1, ArchiveInvHolds, PTL

-----------------------------------------------------------------------------
(* What a purge takes.                                                       *)

(* Which rows go with those of S: their cascading parents, by table.         *)
LEMMA NoParents ==
  ASSUME ShapeInv, NEW S \in SUBSET DOMAIN rows, NEW k \in Removed(S),
         rows[k].table \in {"teams", "products", "topics"}
  PROVE  k \in S
<1>1. Removed(S) \in SUBSET DOMAIN rows
      /\ (k \in S \/ k \in Pointing(Removed(S), "CASCADE"))
  BY ShapeNone, RemovedClosed
<1>2. ASSUME k \in Pointing(Removed(S), "CASCADE") PROVE FALSE
  <2>1. PICK ref \in Declared[rows[k].table].refs : ref[3] = "CASCADE"
    BY <1>2 DEF Pointing
  <2> QED
    BY <2>1, OtherKeys, RefFields
<1> QED
  BY <1>1, <1>2

LEMMA TeamParent ==
  ASSUME ShapeInv, NEW S \in SUBSET DOMAIN rows, NEW k \in Removed(S) \ S,
         rows[k].table \in {"remotecis", "pipelines"}
  PROVE  Named(k, "team_id") \in S /\ Named(k, "team_id") \in Of("teams")
<1>1. Removed(S) \in SUBSET DOMAIN rows /\ k \in Pointing(Removed(S), "CASCADE")
      /\ KeysInv /\ NoneIsNoRow
  BY ShapeNone, RemovedClosed
<1>2. PICK ref \in Declared[rows[k].table].refs :
        /\ ref[3] = "CASCADE" /\ Named(k, ref[1]) \in Removed(S)
        /\ rows[Named(k, ref[1])].table = ref[2]
  BY <1>1, PointingNames
<1>3. ref[1] = "team_id" /\ ref[2] = "teams"
  BY <1>2, OtherKeys, RefFields
<1>4. Named(k, "team_id") \in Removed(S) /\ rows[Named(k, "team_id")].table = "teams"
  BY <1>2, <1>3
<1> QED
  BY <1>1, <1>4, NoParents DEF Of

LEMMA JobParent ==
  ASSUME ShapeInv, NEW S \in SUBSET DOMAIN rows, NEW job \in Removed(S) \ S,
         rows[job].table = "jobs"
  PROVE  \E c \in {"topic_id", "remoteci_id", "team_id", "product_id", "pipeline_id"} :
           /\ Named(job, c) \in Removed(S)
           /\ \/ c = "topic_id" /\ Named(job, c) \in S \cap Of("topics")
              \/ c = "team_id" /\ Named(job, c) \in S \cap Of("teams")
              \/ c = "product_id" /\ Named(job, c) \in S \cap Of("products")
              \/ /\ c = "remoteci_id" /\ Named(job, c) \in Of("remotecis")
                 /\ Named(job, c) \in S \/ Named(Named(job, c), "team_id") \in S \cap Of("teams")
              \/ /\ c = "pipeline_id" /\ Named(job, c) \in Of("pipelines")
                 /\ Named(job, c) \in S \/ Named(Named(job, c), "team_id") \in S \cap Of("teams")
<1>1. Removed(S) \in SUBSET DOMAIN rows /\ job \in Pointing(Removed(S), "CASCADE")
      /\ KeysInv /\ NoneIsNoRow
  BY ShapeNone, RemovedClosed
<1>2. PICK ref \in Declared["jobs"].refs :
        /\ ref[3] = "CASCADE" /\ Named(job, ref[1]) \in Removed(S)
        /\ rows[Named(job, ref[1])].table = ref[2]
  BY <1>1, PointingNames
<1>3. PICK i : i = Named(job, ref[1])
  OBVIOUS
<1>4. \/ ref[1] = "topic_id" /\ ref[2] = "topics"
      \/ ref[1] = "team_id" /\ ref[2] = "teams"
      \/ ref[1] = "product_id" /\ ref[2] = "products"
      \/ ref[1] = "remoteci_id" /\ ref[2] = "remotecis"
      \/ ref[1] = "pipeline_id" /\ ref[2] = "pipelines"
  BY <1>2, JobKeys, RefFields
<1>5. i \in Removed(S) /\ i \in DOMAIN rows /\ rows[i].table = ref[2]
  BY <1>1, <1>2, <1>3
<1>6. rows[i].table \in {"teams", "products", "topics"} => i \in S
  BY <1>5, NoParents
<1>7. rows[i].table \in {"remotecis", "pipelines"} /\ i \notin S =>
        Named(i, "team_id") \in S \cap Of("teams")
  BY <1>5, TeamParent
<1>8. CASE ref[1] = "topic_id" /\ ref[2] = "topics"
  BY <1>3, <1>5, <1>6, <1>8 DEF Of
<1>9. CASE ref[1] = "team_id" /\ ref[2] = "teams"
  BY <1>3, <1>5, <1>6, <1>9 DEF Of
<1>10. CASE ref[1] = "product_id" /\ ref[2] = "products"
  BY <1>3, <1>5, <1>6, <1>10 DEF Of
<1>11. CASE ref[1] = "remoteci_id" /\ ref[2] = "remotecis"
  BY <1>3, <1>5, <1>7, <1>11 DEF Of
<1>12. CASE ref[1] = "pipeline_id" /\ ref[2] = "pipelines"
  BY <1>3, <1>5, <1>7, <1>12 DEF Of
<1> QED
  BY <1>4, <1>8, <1>9, <1>10, <1>11, <1>12

(* Rows leave the database by a purge only, and members with their team.     *)
LEMMA GoneByPurge ==
  ASSUME ShapeInv, Next, NEW k \in DOMAIN rows, k \notin DOMAIN rows',
         rows[k].table # "users_teams"
  PROVE  NextPurge /\ \E t : rows' = Without(Removed(ArchivedIn(t)))
<1>1. CASE NextPurge
  <2>1. CASE PurgeComponents
    BY <1>1, <2>1 DEF PurgeComponents
  <2>2. CASE \E t \in DOMAIN Declared : PurgeTable(t)
    BY <1>1, <2>2 DEF PurgeTable, PurgeRows
  <2>3. CASE \E q \in Requests, whole \in BOOLEAN : PurgeFiles(q, whole)
    BY <1>1, <2>3 DEF PurgeFiles
  <2>4. CASE \E q \in Requests : PurgeJobs(q)
    BY <1>1, <2>4 DEF PurgeJobs, PurgeRows
  <2> QED
    BY <1>1, <2>1, <2>2, <2>3, <2>4 DEF NextPurge
<1>2. ASSUME NEW S, rows' = Archived(S) PROVE FALSE
  BY <1>2 DEF Archived
<1>3. CASE NextDelete
  <2>1. ASSUME NEW i \in DOMAIN rows, DeleteOne(i) \/ DeleteTopic(i) \/ DeleteJob(i) \/ DeleteFile(i)
        PROVE  FALSE
    BY <1>2, <2>1 DEF DeleteOne, DeleteTopic, DeleteJob, DeleteFile
  <2>2. ASSUME NEW q \in Requests, NEW i \in DOMAIN rows, DeleteTeam(q, i) PROVE FALSE
    <3>1. PICK D \in RemovedMembers(i) : rows' = [x \in DOMAIN rows \ D |-> Archived({i})[x]]
      BY <2>2 DEF DeleteTeam
    <3>2. k \notin D
      BY DEF RemovedMembers, Members, Naming, Of
    <3> QED
      BY <3>1, <3>2
  <2>3. ASSUME NEW q \in Requests, NEW i \in DOMAIN rows, DeleteRemoteci(q, i) PROVE FALSE
    BY <1>2, <2>3 DEF DeleteRemoteci
  <2>4. ASSUME NEW q \in Requests,
               FinishDeleteTeam(q) \/ FinishDeleteRemoteci(q) \/ DieHalfway(q)
        PROVE  FALSE
    BY <1>2, <2>4 DEF FinishDeleteTeam, FinishDeleteRemoteci, DieHalfway
  <2> QED
    BY <1>3, <2>1, <2>2, <2>3, <2>4 DEF NextDelete
<1>4. CASE NextInsert
  <2>1. ASSUME NEW q, NEW i, NEW table, NEW refs, Begin(q, i, table, refs) PROVE FALSE
    BY <2>1 DEF Begin
  <2>2. ASSUME NEW i, NEW row, rows' = With(i, row) PROVE FALSE
    BY <2>2 DEF With
  <2>3. ASSUME NEW q \in Requests, NEW i \in DOMAIN Unborn \ born,
               NEW remoteci, NEW topic, NEW previous, NEW updated, NEW pipeline,
               CreateJob(q, i, remoteci, topic, previous, updated, pipeline)
        PROVE  FALSE
    BY <2>1, <2>3 DEF CreateJob
  <2>4. ASSUME NEW q \in Requests, NEW i \in DOMAIN Unborn \ born,
               NEW previous, NEW topic, NEW updated,
               CreateFromJob(q, i, previous, topic, updated)
        PROVE  FALSE
    BY <2>1, <2>4 DEF CreateFromJob
  <2>5. ASSUME NEW q \in Requests, NEW i \in DOMAIN Unborn \ born, NEW job, CreateFile(q, i, job)
        PROVE  FALSE
    BY <2>1, <2>5 DEF CreateFile
  <2>6. ASSUME NEW q \in Requests, Insert(q) PROVE FALSE
    <3>1. rows' = rows \/ rows' = With(requests[q].id, requests[q].row)
      BY <2>6 DEF Insert
    <3> QED
      BY <2>2, <3>1
  <2>7. ASSUME NEW i, NEW team, CreateRemoteci(i, team) PROVE FALSE
    BY <2>2, <2>7 DEF CreateRemoteci
  <2> QED
    BY <1>4, <2>3, <2>4, <2>5, <2>6, <2>7 DEF NextInsert
<1>5. CASE NextPut
  <2>1. PICK i \in DOMAIN rows :
          PutState(i) \/ \E key \in Movable : \E to : PutParent(i, key[2], to)
    BY <1>5 DEF NextPut
  <2>2. DOMAIN rows' = DOMAIN rows
    BY <2>1 DEF PutState, PutParent
  <2> QED
    BY <2>2
<1> QED
  BY <1>1, <1>3, <1>4, <1>5 DEF Next

(* No purge takes a live job, except one of a deleted topic, product or      *)
(* pipeline: LiveJobsGoWithTheirTopic.                                       *)
THEOREM PurgesSpareLiveJobs == Spec => LiveJobsGoWithTheirTopic
<1>1. ASSUME ArchiveInv, Next, NEW job \in Of("jobs"), IsLive(job), job \notin DOMAIN rows',
             ~Excused(job)
      PROVE  \E i \in {Named(job, c) : c \in {"topic_id", "product_id", "pipeline_id"}} \ {None} :
               ~IsLive(i) \/ (rows[i].table = "pipelines" /\ ~IsLive(Named(i, "team_id")))
  <2>0. ShapeInv /\ RowShape /\ NoneIsNoRow /\ job \in DOMAIN rows /\ rows[job].table = "jobs"
    BY <1>1, ShapeNone DEF ArchiveInv, ShapeInv, Of
  <2>1. PICK t : rows' = Without(Removed(ArchivedIn(t)))
    BY <1>1, <2>0, GoneByPurge
  <2>2. PICK S \in SUBSET DOMAIN rows : S = ArchivedIn(t)
    BY DEF ArchivedIn, Of
  <2>3. \A i \in S : ~IsLive(i) /\ i # None
    BY <2>0, <2>2 DEF ArchivedIn, Of, IsLive, NoneIsNoRow
  <2>4. job \in Removed(S) \ S
    BY <1>1, <2>0, <2>1, <2>2, <2>3 DEF Without
  <2>5. /\ IsLive(Named(job, "team_id")) /\ IsLive(Named(job, "remoteci_id"))
        /\ Named(Named(job, "remoteci_id"), "team_id") = Named(job, "team_id")
    BY <1>1, JobFine DEF Excused
  <2>6. PICK c \in {"topic_id", "remoteci_id", "team_id", "product_id", "pipeline_id"} :
          /\ Named(job, c) \in Removed(S)
          /\ \/ c = "topic_id" /\ Named(job, c) \in S \cap Of("topics")
             \/ c = "team_id" /\ Named(job, c) \in S \cap Of("teams")
             \/ c = "product_id" /\ Named(job, c) \in S \cap Of("products")
             \/ /\ c = "remoteci_id" /\ Named(job, c) \in Of("remotecis")
                /\ Named(job, c) \in S \/ Named(Named(job, c), "team_id") \in S \cap Of("teams")
             \/ /\ c = "pipeline_id" /\ Named(job, c) \in Of("pipelines")
                /\ Named(job, c) \in S \/ Named(Named(job, c), "team_id") \in S \cap Of("teams")
    BY <2>0, <2>4, JobParent
  <2>7. CASE c \in {"topic_id", "product_id"}
    BY <2>3, <2>6, <2>7
  <2>8. CASE c = "pipeline_id"
    BY <2>0, <2>3, <2>6, <2>8 DEF Of, NoneIsNoRow
  <2>9. CASE c \in {"team_id", "remoteci_id"}
    BY <2>3, <2>5, <2>6, <2>9
  <2> QED
    BY <2>7, <2>8, <2>9
<1>2. ArchiveInv /\ [Next]_vars =>
        [\A job \in Of("jobs") :
           IsLive(job) /\ job \notin DOMAIN rows' /\ ~Excused(job) =>
             \E i \in {Named(job, c) : c \in {"topic_id", "product_id", "pipeline_id"}} \ {None} :
               ~IsLive(i) \/ (rows[i].table = "pipelines" /\ ~IsLive(Named(i, "team_id")))]_vars
  BY <1>1
<1> QED
  BY <1>2, ArchiveInvHolds, PTL DEF Spec, LiveJobsGoWithTheirTopic

(* A file whose row goes and whose object stays.                             *)
Orphaned(file) ==
  \/ file \in overlapped
  \/ /\ IsLive(file)
     /\ LET job == Named(file, "job_id")
            remoteci == Named(job, "remoteci_id")
        IN  ~IsLive(remoteci) \/ {job, remoteci} \cap put # {}


(* The purge of jobs takes the row of a file and leaves its object only when *)
(* the file is live, and the remoteci of its job deleted or one of the two   *)
(* written by a PUT, or the file was uploaded or archived across another     *)
(* request: JobsPurgeLeavesFewObjects.                                       *)
THEOREM JobsPurgeTakesObjects == Spec => JobsPurgeLeavesFewObjects
<1>1. ASSUME ArchiveInv, Next, NEW file \in Of("files"), file \notin DOMAIN rows',
             NEW q \in Requests, PurgesJobs(q)
      PROVE  Orphaned(file)
  <2>0. ShapeInv /\ KeysInv /\ NoneIsNoRow /\ file \in DOMAIN rows /\ rows[file].table = "files"
        /\ requests = [p \in Requests |-> requests[p]]
    BY <1>1, ShapeNone DEF ArchiveInv, ShapeInv, Bounds, Of
  <2>1. NextPurge /\ requests[q].op = "purge_jobs" /\ requests'[q].op = "none"
    BY <1>1, <2>0, GoneByPurge DEF PurgesJobs, Idle
  <2>2. PurgeRows("jobs")
    <3>1. ~PurgeComponents /\ ~\E t \in DOMAIN Declared : PurgeTable(t)
      BY <2>1 DEF PurgeComponents, PurgeTable
    <3>2. ASSUME NEW p \in Requests, NEW whole \in BOOLEAN, PurgeFiles(p, whole) PROVE FALSE
      <4>1. requests[p].op = "none"
        BY <3>2 DEF PurgeFiles, Idle
      <4>2. p # q /\ requests'[q] = requests[q]
        BY <2>0, <2>1, <3>2, <4>1 DEF PurgeFiles
      <4> QED
        BY <2>1, <4>2
    <3>3. PICK p \in Requests : PurgeJobs(p)
      BY <2>1, <3>1, <3>2 DEF NextPurge
    <3>4. rows' # rows
      BY <1>1, <2>0
    <3> QED
      BY <3>3, <3>4 DEF PurgeJobs
  <2>3. PICK S \in SUBSET DOMAIN rows : S = ArchivedIn("jobs")
    BY DEF ArchivedIn, Of
  <2>4. rows' = Without(Removed(S))
    BY <1>1, <2>0, <2>2, <2>3 DEF PurgeRows
  <2>5. \A i \in S : rows[i].table = "jobs" /\ ~IsLive(i)
    BY <2>3 DEF ArchivedIn, Of, IsLive
  <2>6. file \in Removed(S) /\ file \notin S
    BY <1>1, <2>0, <2>4, <2>5 DEF Without
  <2>7. \A job \in Removed(S) : rows[job].table = "jobs" => job \in S
    <3>1. ASSUME NEW job \in Removed(S), rows[job].table = "jobs", job \notin S PROVE FALSE
      <4>1. \A i \in S : HeightOf(i) <= 3
        BY <2>5, Heights DEF HeightOf
      <4>2. \A i \in Removed(S) : HeightOf(i) <= 3
        BY <2>0, <4>1, RemovedHeight
      <4>3. \E v \in Removed(S) : HeightOf(job) < HeightOf(v)
        <5>1. Removed(S) \in SUBSET DOMAIN rows /\ job \in Pointing(Removed(S), "CASCADE")
          BY <2>0, <3>1, RemovedClosed
        <5> QED
          BY <2>0, <5>1, CascadeDescends
      <4>4. HeightOf(job) = 3
        BY <3>1, Heights DEF HeightOf
      <4> QED
        BY <4>2, <4>3, <4>4, HeightRange
    <3> QED
      BY <3>1
  <2>8. /\ Named(file, "team_id") \in Of("teams") /\ Named(file, "job_id") \in Of("jobs")
        /\ Named(file, "jobstate_id") # None =>
             /\ Named(file, "jobstate_id") \in Of("jobstates")
             /\ Named(file, "job_id") = Named(Named(file, "jobstate_id"), "job_id")
        /\ IsLive(file) /\ file \notin overlapped =>
             \/ IsLive(Named(file, "job_id")) \/ Named(file, "job_id") \in put
             \/ Named(Named(file, "job_id"), "remoteci_id") \in put
             \/ ~IsLive(Named(Named(file, "job_id"), "remoteci_id"))
    BY <1>1, FileFine
  <2>9. Named(file, "job_id") \in S
    <3>1. Removed(S) \in SUBSET DOMAIN rows /\ file \in Pointing(Removed(S), "CASCADE")
      BY <2>0, <2>6, RemovedClosed
    <3>2. PICK ref \in Declared["files"].refs :
            /\ ref[3] = "CASCADE" /\ Named(file, ref[1]) \in Removed(S)
            /\ rows[Named(file, ref[1])].table = ref[2]
      BY <2>0, <3>1, PointingNames
    <3>3. CASE ref = Cascade("team_id", "teams")
      <4>1. Named(file, "team_id") \in S
        BY <2>0, <3>2, <3>3, RefFields, NoParents
      <4> QED
        BY <2>5, <2>8, <4>1 DEF Of
    <3>4. CASE ref = Cascade("job_id", "jobs")
      BY <2>7, <3>2, <3>4, RefFields
    <3>5. CASE ref = Cascade("jobstate_id", "jobstates")
      <4>1. PICK s : s = Named(file, "jobstate_id")
        OBVIOUS
      <4>2. s \in Removed(S) /\ s \in DOMAIN rows /\ rows[s].table = "jobstates"
        BY <3>1, <3>2, <3>5, <4>1, RefFields
      <4>3. s \notin S /\ s # None
        BY <2>0, <2>5, <4>2 DEF NoneIsNoRow
      <4>4. s \in Pointing(Removed(S), "CASCADE")
        BY <2>0, <4>2, <4>3, RemovedClosed
      <4>5. PICK r2 \in Declared["jobstates"].refs :
              /\ Named(s, r2[1]) \in Removed(S)
              /\ rows[Named(s, r2[1])].table = r2[2]
        BY <2>0, <3>1, <4>2, <4>4, PointingNames
      <4>6. r2[1] = "job_id" /\ r2[2] = "jobs"
        BY <4>5, OtherKeys, RefFields
      <4>7. Named(s, "job_id") \in S
        BY <2>7, <4>5, <4>6
      <4> QED
        BY <2>8, <4>1, <4>3, <4>7
    <3> QED
      BY <3>2, <3>3, <3>4, <3>5, FileKeys
  <2>10. CASE IsLive(file)
    BY <2>5, <2>8, <2>9, <2>10 DEF Orphaned
  <2>11. CASE ~IsLive(file)
    BY <1>1, <2>0, <2>1, <2>11
       DEF Orphaned, ArchiveInv, RowsInv, ListedInv, ArchivedIn, Of, IsLive
  <2> QED
    BY <2>10, <2>11
<1>2. ArchiveInv /\ [Next]_vars =>
        [\A file \in Of("files") :
           file \notin DOMAIN rows' /\ file \in store' /\ (\E q \in Requests : PurgesJobs(q)) =>
             \/ file \in overlapped
             \/ /\ IsLive(file)
                /\ LET job == Named(file, "job_id")
                       remoteci == Named(job, "remoteci_id")
                   IN  ~IsLive(remoteci) \/ {job, remoteci} \cap put # {}]_vars
  BY <1>1 DEF Orphaned
<1> QED
  BY <1>2, ArchiveInvHolds, PTL DEF Spec, JobsPurgeLeavesFewObjects

(* Only a purge of archived rows of the table is refused.                    *)
LEMMA RefusedByRows ==
  ASSUME Next, NEW table \in DOMAIN Declared, refused' = table
  PROVE  IsRefused(ArchivedIn(table))
<1>1. refused' # None
  BY NoneAssumption
<1>2. PICK t : PurgeRows(t) /\ refused' # None
  BY <1>1 DEF Next, NextPurge, PurgeComponents, PurgeFiles, PurgeTable, PurgeJobs
<1> QED
  BY <1>2 DEF PurgeRows

(* The row that holds up a purge, and what it names.                         *)
LEMMA Holdup ==
  ASSUME ArchiveInv, NEW S \in SUBSET DOMAIN rows, IsRefused(S)
  PROVE  \E k \in DOMAIN rows \ Removed(S) :
           \/ /\ k \in Of("jobs")
              /\ \E c \in {"previous_job_id", "update_previous_job_id"} :
                   Named(k, c) \in Removed(S) \cap Of("jobs")
           \/ k \in Of("topics") /\ Named(k, "next_topic_id") \in S \cap Of("topics")
           \/ k \in Of("topics") /\ Named(k, "product_id") \in S \cap Of("products")
<1>0. ShapeInv /\ KeysInv /\ NoneIsNoRow /\ Removed(S) \in SUBSET DOMAIN rows
  BY ShapeNone, RemovedClosed DEF ArchiveInv
<1>1. PICK k \in DOMAIN rows \ Removed(S) : k \in Pointing(Removed(S), "NO_ACTION")
  BY DEF IsRefused, Pointing
<1>2. PICK ref \in Declared[rows[k].table].refs :
        /\ ref[3] = "NO_ACTION" /\ Named(k, ref[1]) \in Removed(S)
        /\ rows[Named(k, ref[1])].table = ref[2]
  BY <1>0, <1>1, PointingNames
<1>3. rows[k].table \in {"topics", "jobs"}
  BY <1>0, <1>1, <1>2, AllKeys DEF KeyDeclared, KeysInv
<1>4. PICK i : i = Named(k, ref[1])
  OBVIOUS
<1>5. i \in Removed(S) /\ i \in DOMAIN rows /\ rows[i].table = ref[2]
  BY <1>0, <1>2, <1>4
<1>6. CASE rows[k].table = "jobs"
  <2>1. ref[1] \in {"previous_job_id", "update_previous_job_id"} /\ ref[2] = "jobs"
    BY <1>2, <1>6, JobKeys, RefFields
  <2> QED
    BY <1>1, <1>4, <1>5, <1>6, <2>1 DEF Of
<1>7. CASE rows[k].table = "topics"
  <2>1. \/ ref[1] = "product_id" /\ ref[2] = "products"
        \/ ref[1] = "next_topic_id" /\ ref[2] = "topics"
    BY <1>2, <1>7, OtherKeys, RefFields
  <2>2. i \in S
    BY <1>0, <1>5, <2>1, NoParents
  <2> QED
    BY <1>1, <1>4, <1>5, <1>7, <2>1, <2>2 DEF Of
<1> QED
  BY <1>3, <1>6, <1>7

(* A job that goes with rows of another table goes with a parent of these.   *)
LEMMA JobGoesWith ==
  ASSUME ShapeInv, NEW S \in SUBSET DOMAIN rows, NEW job \in Removed(S) \ S,
         rows[job].table = "jobs", NEW table, \A i \in S : rows[i].table = table
  PROVE  \/ table = "topics" /\ Named(job, "topic_id") \in S
         \/ table = "products" /\ Named(job, "product_id") \in S
         \/ table \in {"teams", "remotecis", "pipelines"}
BY JobParent DEF Of

(* A purge is refused only for a row that stays and names one that goes:     *)
(* archived rows never hold up each other. RefusedOnlyForTheLiving.          *)
THEOREM PurgesAreRefusedForTheLiving == Spec => RefusedOnlyForTheLiving
<1> DEFINE Cs == {"previous_job_id", "update_previous_job_id"}
<1>1. ASSUME ArchiveInv, Next, NEW t \in {"jobs", "topics", "products"}, refused' = t
      PROVE  \E S \in SUBSET DOMAIN rows, k \in DOMAIN rows :
               /\ S = ArchivedIn(t) /\ k \notin Removed(S) /\ (k \in Of(t) => IsLive(k))
               /\ \A i \in S : i \in Of(t) /\ ~IsLive(i)
               /\ \/ /\ k \in Of("jobs")
                     /\ \E c \in Cs : Named(k, c) \in Removed(S) \cap Of("jobs")
                  \/ k \in Of("topics") /\ Named(k, "next_topic_id") \in S \cap Of("topics")
                  \/ k \in Of("topics") /\ Named(k, "product_id") \in S \cap Of("products")
  <2>1. PICK S \in SUBSET DOMAIN rows : S = ArchivedIn(t)
    BY DEF ArchivedIn, Of
  <2>2. \A i \in DOMAIN rows : i \in S <=> (i \in Of(t) /\ ~IsLive(i))
    BY <2>1 DEF ArchivedIn, Of, IsLive
  <2>3. IsRefused(S)
    BY <1>1, <2>1, RefusedByRows, Tables
  <2>4. PICK k \in DOMAIN rows \ Removed(S) :
           \/ /\ k \in Of("jobs") /\ \E c \in Cs : Named(k, c) \in Removed(S) \cap Of("jobs")
           \/ k \in Of("topics") /\ Named(k, "next_topic_id") \in S \cap Of("topics")
           \/ k \in Of("topics") /\ Named(k, "product_id") \in S \cap Of("products")
    BY <1>1, <2>3, Holdup
  <2>5. k \notin S
    <3>1. S \subseteq Removed(S)
      BY <1>1, ShapeNone, RemovedClosed DEF ArchiveInv
    <3> QED
      BY <2>4, <3>1
  <2> QED
    BY <2>1, <2>2, <2>4, <2>5
<1>2. ASSUME ArchiveInv, Next, refused' = "jobs"
      PROVE  \E c \in Cs : LiveNames("jobs", c, "jobs")
  <2>1. PICK S \in SUBSET DOMAIN rows, k \in DOMAIN rows :
          /\ S = ArchivedIn("jobs") /\ k \notin Removed(S) /\ (k \in Of("jobs") => IsLive(k))
          /\ \A i \in S : i \in Of("jobs") /\ ~IsLive(i)
          /\ \/ /\ k \in Of("jobs")
                /\ \E c \in Cs : Named(k, c) \in Removed(S) \cap Of("jobs")
             \/ k \in Of("topics") /\ Named(k, "next_topic_id") \in S \cap Of("topics")
             \/ k \in Of("topics") /\ Named(k, "product_id") \in S \cap Of("products")
    BY <1>1, <1>2
  <2>2. PICK c \in Cs : k \in Of("jobs") /\ Named(k, c) \in Removed(S) \cap Of("jobs")
    BY <2>1 DEF Of
  <2>3. Named(k, c) \in S
    BY <1>2, <2>1, <2>2, JobGoesWith DEF ArchiveInv, Of
  <2> QED
    BY <2>1, <2>2, <2>3 DEF LiveNames
<1>3. ASSUME ArchiveInv, Next, refused' = "topics"
      PROVE  \/ LiveNames("topics", "next_topic_id", "topics")
             \/ \E i \in Of("jobs") : ContinuesFromDeletedTopic(i)
  <2>1. PICK S \in SUBSET DOMAIN rows, k \in DOMAIN rows :
          /\ S = ArchivedIn("topics") /\ k \notin Removed(S) /\ (k \in Of("topics") => IsLive(k))
          /\ \A i \in S : i \in Of("topics") /\ ~IsLive(i)
          /\ \/ /\ k \in Of("jobs")
                /\ \E c \in Cs : Named(k, c) \in Removed(S) \cap Of("jobs")
             \/ k \in Of("topics") /\ Named(k, "next_topic_id") \in S \cap Of("topics")
             \/ k \in Of("topics") /\ Named(k, "product_id") \in S \cap Of("products")
    BY <1>1, <1>3
  <2>2. CASE k \in Of("topics") /\ Named(k, "next_topic_id") \in S \cap Of("topics")
    BY <2>1, <2>2 DEF LiveNames
  <2>3. CASE k \in Of("topics") /\ Named(k, "product_id") \in S \cap Of("products")
    BY <2>1, <2>3 DEF Of
  <2>4. ASSUME k \in Of("jobs"), NEW c \in Cs, Named(k, c) \in Removed(S) \cap Of("jobs")
        PROVE  ContinuesFromDeletedTopic(k)
    <3>1. Named(Named(k, c), "topic_id") \in S
      BY <1>3, <2>1, <2>4, JobGoesWith DEF ArchiveInv, Of
    <3>2. Named(k, c) # None
      BY <1>3, <2>4, ShapeNone DEF ArchiveInv, Of, NoneIsNoRow
    <3>3. Named(k, "topic_id") \in Of("topics")
      BY <1>3, <2>4, JobFine
    <3>4. Named(k, "topic_id") \notin Removed(S)
      <4>1. Pointing(Removed(S), "CASCADE") \subseteq Removed(S)
        BY <1>3, ShapeNone, RemovedClosed DEF ArchiveInv
      <4>2. Cascade("topic_id", "topics") \in Declared["jobs"].refs
        BY JobKeys
      <4>3. Named(k, "topic_id") \in Removed(S) => k \in Pointing(Removed(S), "CASCADE")
        BY <2>4, <4>2, RefFields DEF Pointing, Of
      <4> QED
        BY <2>1, <4>1, <4>3
    <3>5. Named(k, "topic_id") \notin S
      BY <1>3, <3>4, ShapeNone, RemovedClosed DEF ArchiveInv
    <3>6. IsLive(Named(k, "topic_id"))
      BY <2>1, <3>3, <3>5 DEF ArchivedIn, IsLive, Of
    <3> QED
      BY <2>1, <3>1, <3>2, <3>6 DEF ContinuesFromDeletedTopic
  <2> QED
    BY <2>1, <2>2, <2>3, <2>4
<1>4. ASSUME ArchiveInv, Next, refused' = "products"
      PROVE  \/ \E i \in Of("topics") : Named(i, "product_id") \in ArchivedIn("products")
             \/ \E i \in Of("jobs") : ContinuesFromDeletedProduct(i)
  <2>1. PICK S \in SUBSET DOMAIN rows, k \in DOMAIN rows :
          /\ S = ArchivedIn("products") /\ k \notin Removed(S)
          /\ \A i \in S : i \in Of("products") /\ ~IsLive(i)
          /\ \/ /\ k \in Of("jobs")
                /\ \E c \in Cs : Named(k, c) \in Removed(S) \cap Of("jobs")
             \/ k \in Of("topics") /\ Named(k, "next_topic_id") \in S \cap Of("topics")
             \/ k \in Of("topics") /\ Named(k, "product_id") \in S \cap Of("products")
    BY <1>1, <1>4
  <2>2. CASE k \in Of("topics") /\ Named(k, "next_topic_id") \in S \cap Of("topics")
    BY <2>1, <2>2 DEF Of
  <2>3. CASE k \in Of("topics") /\ Named(k, "product_id") \in S \cap Of("products")
    BY <2>1, <2>3
  <2>4. ASSUME k \in Of("jobs"), NEW c \in Cs, Named(k, c) \in Removed(S) \cap Of("jobs")
        PROVE  \/ \E i \in Of("topics") : Named(i, "product_id") \in ArchivedIn("products")
               \/ ContinuesFromDeletedProduct(k)
    <3>1. PICK job \in Removed(S) \cap Of("jobs") : job = Named(k, c)
      BY <2>4
    <3>2. Named(job, "product_id") \in S
      BY <1>4, <2>1, JobGoesWith DEF ArchiveInv, Of
    <3>3. /\ Named(job, "topic_id") \in Of("topics")
          /\ \/ Named(job, "topic_id") \in put
             \/ Named(job, "product_id") = Named(Named(job, "topic_id"), "product_id")
      BY <1>4, JobFine
    <3>4. job # None
      BY <1>4, ShapeNone DEF ArchiveInv, Of, NoneIsNoRow
    <3>5. CASE Named(job, "topic_id") \in put
      BY <2>1, <3>1, <3>2, <3>4, <3>5 DEF ContinuesFromDeletedProduct
    <3>6. CASE Named(job, "product_id") = Named(Named(job, "topic_id"), "product_id")
      BY <2>1, <3>2, <3>3, <3>6
    <3> QED
      BY <3>3, <3>5, <3>6
  <2> QED
    BY <2>1, <2>2, <2>3, <2>4
<1>5. ArchiveInv /\ [Next]_vars =>
        [/\ refused' = "jobs" => \E c \in Cs : LiveNames("jobs", c, "jobs")
         /\ refused' = "topics" => \/ LiveNames("topics", "next_topic_id", "topics")
                                   \/ \E i \in Of("jobs") : ContinuesFromDeletedTopic(i)
         /\ refused' = "products" =>
              \/ \E i \in Of("topics") : Named(i, "product_id") \in ArchivedIn("products")
              \/ \E i \in Of("jobs") : ContinuesFromDeletedProduct(i)]_vars
  BY <1>2, <1>3, <1>4
<1> QED
  BY <1>5, ArchiveInvHolds, PTL DEF Spec, RefusedOnlyForTheLiving
=============================================================================
