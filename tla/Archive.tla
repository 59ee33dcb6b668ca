------------------------------ MODULE Archive ------------------------------
(* Deleting in two times: DELETE marks a row, and some of the rows that     *)
(* belong to it, as archived; the purge of a table later removes its        *)
(* archived rows, the database whatever cascades from them, and the purge   *)
(* of files and components the objects of the store.                        *)
(*                                                                         *)
(* A row is its table, its state and the rows its foreign keys name; which  *)
(* keys there are, and their ON DELETE rules, is Declared of Models2. One   *)
(* action is one database transaction; a request of two transactions, or    *)
(* one that checks a row and inserts in a later statement, sits in          *)
(* requests between the two.                                               *)
EXTENDS Models2, Integers, FiniteSets

CONSTANTS
  None,
  Requests,   \* the requests in progress at one time
  Seeds,      \* the databases there may be at first, each: id -> row
  Unborn,     \* the rows requests may insert: id -> table
  MaxChanges, \* bound: DELETE and PUT requests of a behaviour
  MaxLinks    \* bound: other jobs and pipelines a POST /jobs names

VARIABLES
  rows,       \* id -> [table, state, refs], the rows of the database
  store,      \* the files and component files with an object in the store
  requests,   \* request -> what it has read and still has to write
  born,       \* the ids given out
  changes,    \* how many of them there were
  refused,    \* the table whose purge was just refused, if any
  halfway,    \* teams and remotecis whose DELETE died between its transactions
  put,        \* the rows whose state, or one of whose keys, a PUT has written
  overlapped  \* rows inserted, and files archived, across another request

vars == <<rows, store, requests, born, changes, refused, halfway, put, overlapped>>

Row(table, refs) == [table |-> table, state |-> "active", refs |-> refs]
Idle == [op |-> "none"]

KeyOf(row, column) == IF column \in DOMAIN row.refs THEN row.refs[column] ELSE None

(* A row has a column for no other keys than its table declares.             *)
IsRow(row) ==
  /\ row = [table |-> row.table, state |-> row.state,
            refs |-> [c \in DOMAIN row.refs |-> row.refs[c]]]
  /\ row.table \in DOMAIN Declared
  /\ \A c \in DOMAIN row.refs : \E ref \in Declared[row.table].refs : ref[1] = c

(* What NOT NULL and the foreign keys make of a row of the database db.      *)
KeysHold(row, db) ==
  \A ref \in Declared[row.table].refs :
    LET v == KeyOf(row, ref[1]) IN
    IF v = None THEN ref[1] \notin Declared[row.table].required
    ELSE v \in DOMAIN db /\ db[v].table = ref[2]

(* What the handlers write: a job has the team of its remoteci, a topic and  *)
(* the product of it; a file has a job and the team of it. A client that     *)
(* names both a job and a jobstate is expected to name one of that job:      *)
(* POST /files does not compare them.                                        *)
IsWritten(row, db) ==
  /\ row.table = "jobs" =>
       /\ KeyOf(row, "topic_id") # None
       /\ KeyOf(row, "product_id") = KeyOf(db[KeyOf(row, "topic_id")], "product_id")
       /\ KeyOf(row, "team_id") = KeyOf(db[KeyOf(row, "remoteci_id")], "team_id")
  /\ row.table = "files" =>
       /\ KeyOf(row, "job_id") # None
       /\ KeyOf(row, "team_id") = KeyOf(db[KeyOf(row, "job_id")], "team_id")
       /\ KeyOf(row, "jobstate_id") # None =>
            KeyOf(row, "job_id") = KeyOf(db[KeyOf(row, "jobstate_id")], "job_id")

(* Behaviours start before the first DELETE.                                 *)
SeedsAssumption ==
  \A seed \in Seeds : \A i \in DOMAIN seed :
    /\ i \in DOMAIN Unborn => seed[i].table = Unborn[i]
    /\ IsRow(seed[i]) /\ KeysHold(seed[i], seed) /\ IsWritten(seed[i], seed)
    /\ seed[i].state = "active"
ASSUME SeedsAssumption
ASSUME MaxChangesAssumption == MaxChanges \in Nat /\ MaxLinks \in Nat

Ids == DOMAIN Unborn \cup UNION {DOMAIN seed : seed \in Seeds}
ASSUME NoneAssumption == None \notin Ids \cup DOMAIN Declared

(* Variants named Bug... are mistakes a change of the code could make; no   *)
(* action uses them, the mutation runs put them in place of the original.   *)

-----------------------------------------------------------------------------
Of(table) == {i \in DOMAIN rows : rows[i].table = table}
Named(i, column) == KeyOf(rows[i], column)

(* The rows of a table whose column names the row i.                         *)
Naming(table, column, i) == {k \in Of(table) : Named(k, column) = i}

(* What get_resource_orm finds.                                              *)
IsLive(i) == i \in DOMAIN rows /\ rows[i].state # "archived"
ArchivedIn(table) == {i \in Of(table) : rows[i].state = "archived"}

Archived(S) == [i \in DOMAIN rows |-> IF i \in S THEN [rows[i] EXCEPT !.state = "archived"]
                                      ELSE rows[i]]

(* The rows whose key with this rule names a row of S.                       *)
Pointing(S, rule) ==
  {k \in DOMAIN rows : \E ref \in Declared[rows[k].table].refs :
     ref[3] = rule /\ Named(k, ref[1]) \in S}

(* What a DELETE of the rows S takes with it. No chain of ON DELETE CASCADE  *)
(* is longer than team, remoteci, job, jobstate, file, test result.          *)
Cascaded(S) == S \cup Pointing(S, "CASCADE")
BugRemoved(S) == Cascaded(S)
Removed(S) == Cascaded(Cascaded(Cascaded(Cascaded(Cascaded(S)))))

(* A key without a rule refuses the DELETE at its end, when a row that is    *)
(* left still names one that goes.                                           *)
BugIsRefused(S) == Pointing(Removed(S), "NO_ACTION") # {}
IsRefused(S) ==
  LET gone == Removed(S) IN Pointing(gone, "NO_ACTION") \ gone # {}

Without(S) == [i \in DOMAIN rows \ S |-> rows[i]]
With(i, row) == [k \in DOMAIN rows \cup {i} |-> IF k = i THEN row ELSE rows[k]]

(* A request sees as overlapping whatever DELETE or purge ran beside it.     *)
Overlapping == [q \in Requests |->
                  IF requests[q].op = "create"
                  THEN [requests[q] EXCEPT !.overlaps = TRUE] ELSE requests[q]]
SomeDelete == \E q \in Requests :
                requests[q].op \in {"delete_team", "delete_remoteci"}

-----------------------------------------------------------------------------
(* Deletes. The identity that is allowed to, and its etag, are not in        *)
(* question here.                                                            *)
Change == changes < MaxChanges /\ changes' = changes + 1

(* products, feeders, pipelines, users and components.                       *)
DeleteOne(i) ==
  /\ Change
  /\ IsLive(i)
  /\ rows[i].table \in {"products", "feeders", "pipelines", "users", "components"}
  /\ rows' = Archived({i})
  /\ requests' = Overlapping
  /\ UNCHANGED <<store, born, halfway, put, overlapped>>

(* The jobs of the topic stay.                                               *)
DeleteTopic(i) ==
  /\ Change
  /\ IsLive(i) /\ rows[i].table = "topics"
  /\ rows' = Archived({i} \cup Naming("components", "topic_id", i))
  /\ requests' = Overlapping
  /\ UNCHANGED <<store, born, halfway, put, overlapped>>

(* A file archived after a purge of jobs has listed the files.               *)
Missed(files) ==
  IF \E q \in Requests : requests[q].op = "purge_jobs" THEN files ELSE {}

BugDeleteJob(i) ==
  /\ Change
  /\ IsLive(i) /\ rows[i].table = "jobs"
  /\ rows' = Archived({i})
  /\ overlapped' = overlapped \cup Missed(Naming("files", "job_id", i))
  /\ requests' = Overlapping
  /\ UNCHANGED <<store, born, halfway, put>>

DeleteJob(i) ==
  /\ Change
  /\ IsLive(i) /\ rows[i].table = "jobs"
  /\ rows' = Archived({i} \cup Naming("files", "job_id", i))
  /\ overlapped' = overlapped \cup Missed(Naming("files", "job_id", i))
  /\ requests' = Overlapping
  /\ UNCHANGED <<store, born, halfway, put>>

DeleteFile(i) ==
  /\ Change
  /\ IsLive(i) /\ rows[i].table = "files"
  /\ rows' = Archived({i})
  /\ overlapped' = overlapped \cup Missed({i})
  /\ requests' = Overlapping
  /\ UNCHANGED <<store, born, halfway, put>>

(* The first transaction archives the team and takes users out of it: the    *)
(* loop removes from the list it iterates over, and so skips every second.   *)
Members(team) == Naming("users_teams", "team_id", team)
RemovedMembers(team) ==
  {S \in SUBSET Members(team) : Cardinality(S) = (Cardinality(Members(team)) + 1) \div 2}

DeleteTeam(q, i) ==
  /\ Change
  /\ requests[q] = Idle
  /\ IsLive(i) /\ rows[i].table = "teams"
  /\ \E gone \in RemovedMembers(i) :
       rows' = [k \in DOMAIN rows \ gone |-> Archived({i})[k]]
  /\ requests' = [Overlapping EXCEPT ![q] = [op |-> "delete_team", id |-> i]]
  /\ UNCHANGED <<store, born, halfway, put, overlapped>>

BugOfTeam(i) == UNION {Naming(t, "team_id", i) : t \in {"files", "remotecis"}}
OfTeam(i) == UNION {Naming(t, "team_id", i) : t \in {"files", "remotecis", "jobs"}}

(* The second transaction of a DELETE archives what belongs to the row.      *)
FinishDeleteTeam(q) ==
  /\ requests[q].op = "delete_team"
  /\ rows' = Archived(OfTeam(requests[q].id))
  /\ overlapped' = overlapped \cup Missed(OfTeam(requests[q].id) \cap Of("files"))
  /\ requests' = [Overlapping EXCEPT ![q] = Idle]
  /\ UNCHANGED <<store, born, changes, halfway, put>>

DeleteRemoteci(q, i) ==
  /\ Change
  /\ requests[q] = Idle
  /\ IsLive(i) /\ rows[i].table = "remotecis"
  /\ rows' = Archived({i})
  /\ requests' = [Overlapping EXCEPT ![q] = [op |-> "delete_remoteci", id |-> i]]
  /\ UNCHANGED <<store, born, halfway, put, overlapped>>

BugFinishDeleteRemoteci(q) ==
  /\ requests[q].op = "delete_remoteci"
  /\ rows' = rows
  /\ requests' = [Overlapping EXCEPT ![q] = Idle]
  /\ UNCHANGED <<store, born, changes, halfway, put, overlapped>>

(* The files of the jobs stay as they are.                                   *)
FinishDeleteRemoteci(q) ==
  /\ requests[q].op = "delete_remoteci"
  /\ rows' = Archived(Naming("jobs", "remoteci_id", requests[q].id))
  /\ requests' = [Overlapping EXCEPT ![q] = Idle]
  /\ UNCHANGED <<store, born, changes, halfway, put, overlapped>>

(* A crash, or a failing second transaction; the row is archived already, so *)
(* a retry is answered 404.                                                  *)
DieHalfway(q) ==
  /\ requests[q].op \in {"delete_team", "delete_remoteci"}
  /\ halfway' = halfway \cup {requests[q].id}
  /\ requests' = [requests EXCEPT ![q] = Idle]
  /\ UNCHANGED <<rows, store, born, changes, put, overlapped>>

-----------------------------------------------------------------------------
(* Purges.                                                                   *)
(* POST /files/purge, also the first half of POST /jobs/purge: objects, then *)
(* rows, of the archived files listed at its start.                          *)
PurgeFiles(q, whole) ==
  /\ requests[q] = Idle
  /\ whole \/ ArchivedIn("files") # {}
  /\ rows' = Without(Removed(ArchivedIn("files")))
  /\ store' = store \ ArchivedIn("files")
  /\ requests' = [requests EXCEPT ![q] = IF whole THEN [op |-> "purge_jobs"] ELSE Idle]
  /\ refused' = None
  /\ UNCHANGED <<born, changes, halfway, put, overlapped>>

(* One component after the other: its objects and their rows, then its row.  *)
PurgeComponents ==
  LET gone == Removed(ArchivedIn("components")) IN
  /\ ArchivedIn("components") # {}
  /\ rows' = Without(gone)
  /\ store' = store \ {i \in gone : rows[i].table = "component_files"}
  /\ refused' = None
  /\ UNCHANGED <<requests, born, changes, halfway, put, overlapped>>

(* One DELETE of the archived rows of a table.                               *)
PurgeRows(table) ==
  LET gone == Removed(ArchivedIn(table)) IN
  /\ ArchivedIn(table) # {}
  /\ IF IsRefused(ArchivedIn(table))
     THEN rows' = rows /\ refused' = table
     ELSE rows' = Without(gone) /\ refused' = None
  /\ UNCHANGED <<store, born, changes, halfway, put, overlapped>>

PurgeTable(table) ==
  /\ table \in {"products", "topics", "teams", "remotecis", "users", "feeders",
                "pipelines"}
  /\ PurgeRows(table)
  /\ UNCHANGED requests

(* The second half of POST /jobs/purge.                                      *)
PurgeJobs(q) ==
  /\ requests[q].op = "purge_jobs"
  /\ \/ PurgeRows("jobs")
     \/ /\ ArchivedIn("jobs") = {}
        /\ refused' = None
        /\ UNCHANGED <<rows, store, born, changes, halfway, put, overlapped>>
  /\ requests' = [requests EXCEPT ![q] = Idle]

-----------------------------------------------------------------------------
(* Inserts.                                                                  *)
Begin(q, i, table, refs) ==
  /\ requests[q] = Idle
  /\ i \notin born /\ Unborn[i] = table
  /\ requests' = [requests EXCEPT ![q] =
       [op |-> "create", id |-> i, row |-> Row(table, refs), overlaps |-> SomeDelete]]
  /\ born' = born \cup {i}
  /\ UNCHANGED <<rows, changes, halfway, put, overlapped>>

(* POST /jobs and POST /jobs/schedule, by a remoteci: authenticated while    *)
(* it and its team are active. The previous job may be any, the pipeline and *)
(* the job this one updates are not looked at.                               *)
CreateJob(q, i, remoteci, topic, previous, updated, pipeline) ==
  /\ IsLive(remoteci) /\ IsLive(Named(remoteci, "team_id"))
  /\ IsLive(topic)
  /\ previous # None => IsLive(previous)
  /\ Begin(q, i, "jobs",
           [remoteci_id |-> remoteci, team_id |-> Named(remoteci, "team_id"),
            topic_id |-> topic, product_id |-> Named(topic, "product_id"),
            previous_job_id |-> previous, update_previous_job_id |-> updated,
            pipeline_id |-> pipeline])
  /\ UNCHANGED store

(* POST /jobs/{id}/update and POST /jobs/upgrade, by a member of the team:   *)
(* in the topic of the previous job, or in the topic after it.               *)
CreateFromJob(q, i, previous, topic, updated) ==
  LET remoteci == Named(previous, "remoteci_id") IN
  /\ IsLive(previous) /\ IsLive(remoteci)
  /\ IsLive(Named(previous, "topic_id")) /\ IsLive(topic)
  /\ \/ topic = Named(previous, "topic_id") /\ updated = previous
     \/ /\ topic = Named(Named(previous, "topic_id"), "next_topic_id")
        /\ updated = None
  /\ Begin(q, i, "jobs",
           [remoteci_id |-> remoteci, team_id |-> Named(remoteci, "team_id"),
            topic_id |-> topic, product_id |-> Named(topic, "product_id"),
            previous_job_id |-> previous, update_previous_job_id |-> updated,
            pipeline_id |-> None])
  /\ UNCHANGED store

(* POST /files: the object goes up first, then the row.                      *)
CreateFile(q, i, job) ==
  /\ IsLive(job)
  /\ Begin(q, i, "files", [job_id |-> job, team_id |-> Named(job, "team_id")])
  /\ store' = store \cup {i}

(* The INSERT fails when a purge has taken what the row names.               *)
Insert(q) ==
  LET row == requests[q].row IN
  /\ requests[q].op = "create"
  /\ rows' = IF \A c \in DOMAIN row.refs : row.refs[c] \in DOMAIN rows \cup {None}
             THEN With(requests[q].id, row) ELSE rows
  /\ overlapped' = IF requests[q].overlaps THEN overlapped \cup {requests[q].id}
                   ELSE overlapped
  /\ requests' = [requests EXCEPT ![q] = Idle]
  /\ UNCHANGED <<store, born, changes, halfway, put>>

(* POST /remotecis: the state of the team is not looked at.                  *)
CreateRemoteci(i, team) ==
  /\ i \notin born /\ Unborn[i] = "remotecis"
  /\ team \in Of("teams")
  /\ rows' = With(i, Row("remotecis", [team_id |-> team]))
  /\ born' = born \cup {i}
  /\ UNCHANGED <<store, requests, changes, halfway, put, overlapped>>

-----------------------------------------------------------------------------
(* Updates. A PUT looks for a live row, compares the etag there and writes   *)
(* by primary key, so it may write a row that was archived in between.       *)

(* A PUT that names the state archives the row alone, and nothing that       *)
(* belongs to it; one that names another state, on a row archived since it   *)
(* was read, brings it back. A team does not come back: its UPDATE compares  *)
(* the etag again. A POST that gives the state archived is the POST, then    *)
(* this. Files have no PUT.                                                  *)
PutState(i) ==
  /\ Change
  /\ rows[i].table \in {"jobs", "teams", "remotecis", "topics", "products", "feeders",
                        "pipelines", "components", "users"}
  /\ ~IsLive(i) => rows[i].table # "teams"
  /\ rows' = [rows EXCEPT ![i].state = IF @ = "archived" THEN "active" ELSE "archived"]
  /\ put' = put \cup {i}
  /\ requests' = Overlapping
  /\ UNCHANGED <<store, born, halfway, overlapped>>

(* The keys a PUT may write.                                                 *)
Movable == {<<"remotecis", "team_id">>, <<"feeders", "team_id">>,
            <<"components", "topic_id">>, <<"topics", "product_id">>,
            <<"topics", "next_topic_id">>}

WithKey(row, column, v) ==
  [row EXCEPT !.refs = [c \in DOMAIN row.refs \cup {column} |->
                          IF c = column THEN v ELSE row.refs[c]]]

(* PUT of another parent, whatever its state: what belongs to the row keeps  *)
(* the parent it has. Only the topic after a topic may be set to null.       *)
PutParent(i, column, to) ==
  /\ Change
  /\ <<rows[i].table, column>> \in Movable
  /\ to # Named(i, column)
  /\ to = None => column = "next_topic_id"
  /\ KeysHold(WithKey(rows[i], column, to), rows)
  /\ rows' = [rows EXCEPT ![i] = WithKey(@, column, to)]
  /\ put' = put \cup {i}
  /\ requests' = Overlapping
  /\ UNCHANGED <<store, born, halfway, overlapped>>

-----------------------------------------------------------------------------
Init ==
  /\ rows \in Seeds
  /\ store = {i \in DOMAIN rows : rows[i].table \in {"files", "component_files"}}
  /\ requests = [q \in Requests |-> Idle]
  /\ born = DOMAIN rows \cap DOMAIN Unborn
  /\ changes = 0
  /\ refused = None
  /\ halfway = {} /\ put = {} /\ overlapped = {}

NextDelete ==
  \/ \E i \in DOMAIN rows :
       DeleteOne(i) \/ DeleteTopic(i) \/ DeleteJob(i) \/ DeleteFile(i)
  \/ \E q \in Requests, i \in DOMAIN rows : DeleteTeam(q, i) \/ DeleteRemoteci(q, i)
  \/ \E q \in Requests : FinishDeleteTeam(q) \/ FinishDeleteRemoteci(q) \/ DieHalfway(q)

NextPurge ==
  \/ PurgeComponents
  \/ \E table \in DOMAIN Declared : PurgeTable(table)
  \/ \E q \in Requests, whole \in BOOLEAN : PurgeFiles(q, whole)
  \/ \E q \in Requests : PurgeJobs(q)

NextInsert ==
  \/ \E q \in {p \in Requests : requests[p] = Idle}, i \in DOMAIN Unborn \ born :
       \/ \E remoteci \in Of("remotecis"), topic \in Of("topics"),
             previous, updated \in Of("jobs") \cup {None},
             pipeline \in Of("pipelines") \cup {None} :
            /\ Cardinality({previous, updated, pipeline} \ {None}) <= MaxLinks
            /\ CreateJob(q, i, remoteci, topic, previous, updated, pipeline)
       \/ \E previous \in Of("jobs"), topic \in Of("topics"), updated \in Of("jobs") \cup {None} :
            CreateFromJob(q, i, previous, topic, updated)
       \/ \E job \in Of("jobs") : CreateFile(q, i, job)
  \/ \E q \in Requests : Insert(q)
  \/ \E i \in DOMAIN Unborn, team \in Of("teams") : CreateRemoteci(i, team)

NextPut ==
  \E i \in DOMAIN rows :
    \/ PutState(i)
    \/ \E column \in {key[2] : key \in Movable}, to \in DOMAIN rows \cup {None} :
         PutParent(i, column, to)

Next ==
  \/ NextPurge
  \/ (NextDelete \/ NextInsert \/ NextPut) /\ refused' = None

Spec == Init /\ [][Next]_vars

-----------------------------------------------------------------------------
(* Every row is of a declared table, in its state, and names rows there are; *)
(* requests hold what they have read. That no key dangles is what the        *)
(* database promises, and what the cascades above have to keep.              *)
TypeOK ==
  /\ DOMAIN rows \subseteq Ids
  /\ \A i \in DOMAIN rows :
       /\ i \in DOMAIN Unborn => rows[i].table = Unborn[i]
       /\ rows[i].table \in DOMAIN Declared /\ rows[i].state \in {"active", "archived"}
       /\ \A c \in DOMAIN rows[i].refs : rows[i].refs[c] \in DOMAIN rows \cup {None}
  /\ store \subseteq Ids /\ born \subseteq DOMAIN Unborn
  /\ \A q \in Requests :
       requests[q].op \in {"none", "delete_team", "delete_remoteci", "purge_jobs", "create"}
  /\ changes \in 0..MaxChanges
  /\ halfway \cup put \cup overlapped \subseteq Ids

(* A deleted team or remoteci leaves no live job and no live file, unless    *)
(* its DELETE is not over or never will be, the row was inserted by a        *)
(* request the DELETE ran across, or a PUT has written the job, its remoteci *)
(* or its team: one that archives any of them archives nothing else, one     *)
(* that was late brings it back, and one gives the remoteci another team.    *)
Unfinished == halfway \cup
  {requests[q].id : q \in {p \in Requests : requests[p].op \in {"delete_team",
                                                              "delete_remoteci"}}}
Excused(job) ==
  \/ job \in overlapped
  \/ {job, Named(job, "remoteci_id"), Named(job, "team_id")} \cap put # {}
  \/ {Named(job, "remoteci_id"), Named(job, "team_id")} \cap Unfinished # {}

NothingRunsOnWhatIsDeleted ==
  /\ \A job \in Of("jobs") :
       IsLive(job) /\ ~Excused(job) =>
         IsLive(Named(job, "remoteci_id")) /\ IsLive(Named(job, "team_id"))
  /\ \A file \in Of("files") :
       IsLive(file) /\ file \notin overlapped /\ ~Excused(Named(file, "job_id")) =>
         IsLive(Named(file, "team_id"))

(* No purge takes a live job, except one of the topic, the product or the    *)
(* pipeline the job is of: their DELETE leaves the jobs alone. A pipeline    *)
(* also goes with its team, which need not be the team of the job.           *)
LiveJobsGoWithTheirTopic ==
  [][\A job \in Of("jobs") :
       IsLive(job) /\ job \notin DOMAIN rows' /\ ~Excused(job) =>
         \E i \in {Named(job, c) : c \in {"topic_id", "product_id", "pipeline_id"}} \ {None} :
           ~IsLive(i) \/ (rows[i].table = "pipelines" /\ ~IsLive(Named(i, "team_id")))]_vars

(* The purge of jobs takes the row of a file and leaves its object only when *)
(* the file is live: the remoteci of its job was deleted, a PUT archived the *)
(* job or brought the remoteci back, or the file was uploaded or archived    *)
(* across another request.                                                   *)
PurgesJobs(q) == requests[q].op = "purge_jobs" /\ requests'[q] = Idle

JobsPurgeLeavesFewObjects ==
  [][\A file \in Of("files") :
       file \notin DOMAIN rows' /\ file \in store' /\ (\E q \in Requests : PurgesJobs(q)) =>
         \/ file \in overlapped
         \/ /\ IsLive(file)
            /\ LET job == Named(file, "job_id")
                   remoteci == Named(job, "remoteci_id")
               IN  ~IsLive(remoteci) \/ {job, remoteci} \cap put # {}]_vars

LiveNames(table, column, parent) ==
  \E i \in Of(table) : IsLive(i) /\ Named(i, column) \in ArchivedIn(parent)

(* A job of a live topic that continues or updates a job of a deleted one.   *)
ContinuesFromDeletedTopic(job) ==
  /\ IsLive(Named(job, "topic_id"))
  /\ \E c \in {"previous_job_id", "update_previous_job_id"} :
       Named(job, c) # None /\ ~IsLive(Named(Named(job, c), "topic_id"))

(* A job that continues or updates one of a deleted product, which keeps the *)
(* topic it had when a PUT has given the topic another product.              *)
ContinuesFromDeletedProduct(job) ==
  \E c \in {"previous_job_id", "update_previous_job_id"} :
    LET previous == Named(job, c)
    IN  /\ previous # None /\ Named(previous, "topic_id") \in put
        /\ Named(previous, "product_id") \in ArchivedIn("products")

(* A purge is refused only for a row that stays and names one that goes: a   *)
(* job that continues or updates an archived job, or one of a deleted topic, *)
(* a topic followed by an archived topic, or one that still belongs to an    *)
(* archived product, unless a PUT has moved topics. Archived rows never hold *)
(* up each other.                                                            *)
RefusedOnlyForTheLiving ==
  [][/\ refused' = "jobs" => \E c \in {"previous_job_id", "update_previous_job_id"} :
                               LiveNames("jobs", c, "jobs")
     /\ refused' = "topics" => \/ LiveNames("topics", "next_topic_id", "topics")
                               \/ \E i \in Of("jobs") : ContinuesFromDeletedTopic(i)
     /\ refused' = "products" => \/ \E i \in Of("topics") :
                                      Named(i, "product_id") \in ArchivedIn("products")
                                 \/ \E i \in Of("jobs") : ContinuesFromDeletedProduct(i)]_vars

(* tests/api/v1/test_teams.py test_deleted_team_has_no_users: a deleted team *)
(* has no users left.                                                        *)
DeletedTeamHasNoUsers == \A team \in ArchivedIn("teams") : Members(team) = {}
=============================================================================
