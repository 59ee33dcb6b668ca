# A TLA+ model of dci-control-server

The control server of Distributed CI is a Flask REST API over PostgreSQL, with
an object store for files, a worker that sends mails and UMB messages, and a
message broker for analytics. Agents (remotecis) ask it for jobs and report
their progress, feeders publish components, people follow both.

This directory holds TLA+ modules translated from the source, TLC
configurations that model-check them, and TLAPS proofs of what matters most.
`PROJECT.json` maps each definition to the lines it stands for.

    tlc -workers 2 -config MCJobLifecycle_races.cfg MCJobLifecycle
    tlapm JobLifecycle_proofs.tla

## 1. How the server runs, and what that means for the models

* One SQLAlchemy session per request (`app.py`, `before_request`), PostgreSQL
  at READ COMMITTED, several gunicorn workers and threads. **A handler is not a
  transaction**: most helpers of `api/v1/base.py` commit. Requests interleave at
  every round trip to the database, the store or the broker, so each round trip
  is one action and `pc` says which one a request performs next.
* A commit expires the objects of the session: the next attribute read is a
  SELECT of its own. An ORM UPDATE writes only the columns whose value changed
  since the row was loaded (all those assigned, if the row was expired);
  `Query.update` writes what it is given.
* Every UPDATE of a table with an `etag` draws a new one (`onupdate=gen_etag`).
  Etags are fresh, so counters stand for them.
* A worker may die between two round trips. What it committed stays, nothing
  resumes the handler: `Crash` ends a request wherever it is.
* No retry exists on the server side. A client that retries is another request.

## 2. Inventory

| Component | State it keeps | Operations | What is hard | What makes it correct |
|---|---|---|---|---|
| Job life cycle (`jobs.py`, `jobstates.py`, `jobs_events.py`) | the job row, its jobstates, jobs_events | POST jobstates, PUT/DELETE job, purge, DELETE jobstate | several commits per request, status read before a commit and used after it, deletion meanwhile | the row shows recorded statuses, the end of a job is told once, to all, and only after it happened |
| Conditional updates (`base.py` and every resource) | one row and its etag | PUT, DELETE under If-Match | two protocols: UPDATE ... WHERE etag, or SELECT WHERE etag then UPDATE by id | no unread version is overwritten, 200 means done |
| Files (`files.py`, `stores/`) | rows, contents in a store, tests_results | upload, delete, purge; cascades of jobs | no transaction spans database and store | listed files exist, purges are complete, nothing leaks |
| Scheduling (`jobs.py`, `components.py`) | jobs, jobs_components | schedule, create, update, upgrade, add and remove a component | selection by several queries, job committed before its components, others edit it meanwhile | an answered job has what was chosen for it, the latest component of each type |
| Events feed (`jobs_events.py`) | jobs_events ids, a counter | read from a sequence, purge, get/put counter | ids are drawn before commit, the counter is compared and set in two steps | a consumer misses no event but those it overtook; the counter goes back only on an overlap |
| Archive cascades and purges (`teams.py`, `remotecis.py`, `topics.py`, `products.py`, `base.py`) | `state` of every table, the store | delete, purge | cascade in a second transaction, ON DELETE rules, insertions meanwhile | nothing live under something deleted; what a purge takes and what holds it up |
| Request schemas and tables (`schemas.py`, `models2.py`) | none; the columns of every table | what POST and PUT store and answer | three descriptions of a row (schema, model, database) that no test compares | what is accepted is stored, the answer is the row, a PUT changes what it names |
| Migrations (`alembic/`, `entrypoint.sh`) | the tables and their revision | upgrade, downgrade, the rows they rewrite | data of older releases, downgrades that do nothing, containers that die | the head is what `models2.py` declares, or the upgrade fails for a known reason; no job loses a component |
| Authentication, SSO (`auth_mechanism.py`) | users created at first login | OpenID logins; basic, HMAC | two first logins; user and membership in two commits; three lookups | a login is refused only for another account, and a person who tries again gets in |
| Permissions (`permissions.py`, `identity.py`) | none | who may see a topic, a component | lists and reads decide by different queries; roles that overlap | what is listed can be read; a narrowed request shows no more |
| Junit (`junit.py`) | none | parse, compare, count | attributes that lie, repeated names | counts add up; not modelled |
| Notifications, worker (`notifications.py`, `worker/`) | zmq queue, subscriptions | mails, UMB, dlrn | at most once, exceptions after commits | what is sent follows what is committed (in `JobLifecycle`) |
| Analytics (`analytics.py`, `analytics/`) | none | page through jobs, Elasticsearch queries | offsets move while jobs are written | not modelled |
| Query language, statistics, audits, application wiring, API v2, bin | none | | | not modelled |


Interactions: handlers share rows only through PostgreSQL; jobs call files
(purge), jobs_events and jobstates (PUT with a status), jobstates calls
jobs_events and notifications, files calls junit and reads other jobs' results,
jobs calls components for the selection. The worker and the analytics consumer
are fed by messages that nobody acknowledges to the handler.

## 3. Modules

| Module | Models | Abstract / detailed |
|---|---|---|
| `JobLifecycle` | one job and every handler that writes it | state machine with history |
| `EtagContract` | what `docs/API.md` promises of If-Match | abstract |
| `ConditionalUpdate` | the handlers that update or delete one row | refines `EtagContract` through `version <- row.etag` |
| `FileStore` | uploads, deletions and purges over rows and a store | state machine |
| `Scheduling` | creation of jobs against changes of components | state machine with history |
| `Models2` | the tables, columns, keys and ON DELETE rules of `models2.py` | data used by the next four |
| `InitialMigration`, `Migrations` | the Alembic chain, the transaction it runs in, the rows it rewrites | state machine over databases; `Declared` of `Models2` is what it must reach |
| `Schemas` | POST and PUT of each resource at the head of the chain | extends `Migrations`: the rows are stored in the tables the chain made |
| `EventsFeed` | the feed, its counter and its consumers | state machine |
| `Archive` | deletions, purges with the cascades of `Models2`, insertions | state machine over a database of any tables |
| `Permissions` | identity, lists and reads as operators | state functions |
| `Access` | SSO logins and the changes of administrators | extends `Permissions`: what an answered identity sees |
| `MC*` | constants and symmetry for TLC | |
| `*_proofs` | theorems about the module of the same name | |

Definitions named `Bug...` are plausible mistakes. No action uses them; they are
put in place of a definition to check that a property notices.

### JobLifecycle

`job` is the row (state, status, etag; `purged` once deleted), `jobstates` and
`events` its rows, `dispatched` what was pushed to the worker, `published` the
`job_finished` messages. `req[r]` keeps what request `r` carries and read.
`history` and `finishes` are ghosts: every jobstate ever inserted, and how often
the row went from not final to final.

`create_jobstates` is `PostRead` (404 or the early-failure rule), `PostInsert`
(commit), `PostReread` (the SELECT `is_job_final_state` causes), `PostWrite`
(commit of the status), then, for an announcement, `PostSerialize`, `PostEvent`,
`PostDispatch`, `PostPublish`. `update_job_by_id` is `PutRead`, `PutInsert`,
`PutEvent`, `PutWrite`; `delete_job_by_id` is `DeleteRead`, `DeleteWrite`;
`Purge` is one statement. Two jobs share no row of this module, so one is enough.
`created_at` is a logical clock drawn where the code calls `utcnow`.
The If-Match of a PUT or DELETE is the etag at the time the client sends it.

Bounded: the number of requests (each request is one HTTP call, and a retry is
another request), the statuses reported, what runs at once. A hazard of this
module needs two overlapping requests and at most one more (a deletion, a
purge); the runs have three.

*A PUT that carries a state.* The JSON schema of a job lets a PUT give `state`.
One that read the row before a concurrent deletion writes it after: the job is
back. The client asked for that state, so `ArchivedIsForGood` is checked without
such PUTs (`PutStates = {None}`), and the other run has them.

*One by one.* `req[r].overlaps` records whether another request was served at
the same time. What holds only for agents that wait for each answer
(`NotifiedOnceOneByOne`, `MessageMatchesEvent`, `QuietAgreement`) is stated under `OneByOne`, in the run that lets requests
overlap: an overlap that is over excuses what it caused, nothing else.

### ConditionalUpdate and EtagContract

`row` has an etag, a state and, for each column, the version that set it.
`CasCheck/CasWrite/CasAnswer/CasUnsaved` are the handlers of teams, users,
identity and the deletion of products (the etag is in the WHERE clause);
`OrmCheck/OrmWrite/OrmAnswer` are those of jobs, topics, remotecis, feeders,
pipelines, components and the update of products (the etag is in the SELECT).
`put_current_user` and `put_identity` write back the columns that
authentication read; `put_identity` does not look at the number of rows it
updated (`ChecksRows`) and reads the user again before it answers
(`ReadsBack`). `put_user` has no filter on the state and its body may hold one:
an archived user may be un-archived by whoever holds its etag, as in the code.
The checks of passwords are left out, and with them the `KeyError` of a PUT of
users/me or of the identity without `current_password` (`users.py:155`,
`identity.py:72`), which fails before anything is written.
`EtagContract` says that each change names the version it replaces;
`EtagIsHonoured` is its specification under `version <- row.etag`.

### FileStore

`files`, `jobs` and `results` are the rows, `blobs` the contents. An upload is
`CreateFile`, `StoreUpload`, `InsertFile`, `SaveResults` (junit), `TouchJob`; a
purge is `PurgeStart`, `PurgeContent` and `PurgeRow` for each file it listed,
`PurgeFilesDone`, `PurgeJobs`. `DeleteJob` archives the job and its files in one
transaction; `ArchiveJob` stands for the paths that archive a job and leave its
files (deletion of the remoteci, PUT with a state). The store is external: a set
of contents; an error may come before or after it has written (`lost`).
`DeleteFile` and `DeleteJob` are single actions: what they read first
decides only between a 404 and the same write.

### Scheduling

`created` orders components by `created_at`. A request goes through
`CheckRequest`, then `VerifyGiven` (ids given) or one `SelectComponent` per
component type, `StoreJob` (committed with no component), `ReadJob` (the handler
reads its own job again, a 404 when it was archived meanwhile), `PermitComponents`
(POST /jobs only), then for each component `LookUpComponent` (the SELECT of the
component and of `j.components`) and `AttachComponent` (the INSERT, 409 if another
request made it between the two), and `PublishStarted`. `Others` is what anyone
else does: feeders create components, change their state and delete them; a
PUT that was read before a deletion may bring a component back; the
remoteci and the topic are switched between active and inactive; a stored job is
archived, by its deletion or that of its remoteci or team, or brought back by a
PUT that had read it (`ArchiveJob`); users who see
the job in the list, from the moment it is stored, add components to it
(`AddComponentToJob`) or remove some (`RemoveComponentFromJob`). `MaxChanges`
bounds how many of these there are. `fresh` is a ghost: whatever was the latest
of its type since the request arrived; `deleted`, `withdrawn`, `added` and `removed` remember
what others did. The run uses a topic of two types. `upgrade` takes the
steps of `update` with another topic, so the run leaves it out. Given components
are compared with the topic by their number, and with each other by their types,
never with the types of the topic: `CompleteChoice` says what that leaves.

Left out: what is refused whatever the state is (the caller, its access to the
topic, a previous job that is not there); the purge of a job while it is built
(`Archive` has purges); a PUT that gives a component another type or topic.

### Models2, InitialMigration, Migrations, Schemas

A table is a record: its columns, the required and the nullable ones, its key,
its unique constraints and its foreign keys with their ON DELETE rules.
`Models2!Declared` is what `models2.py` says of each of the 23 tables.
`InitialMigration` has the tables of `a918b053c43a`, and `Migrations` one pair of
operators per revision, each a `<<succeeds, database>>`: what the statements of
its `upgrade` and `downgrade` (`AddRequired`, `AddRef`, `AddUnique`, ...) do to the tables and to the rows they read. A
downgrade whose body is `pass` is the identity.

`env.py` runs a whole command in one transaction: `Deploy` (the entry point of a
container, with the release it carries) or `Downgrade` opens `work`, each
`Upgrade` or `Undo` is one revision on `work`, `Commit` publishes it,
`RollBack` and `Killed` do not. Between commands a server of the running release
writes rows the committed tables allow (`WriteComponent`, `WriteJob`,
`WriteJobNull`, `WriteUserWithoutEmail`); only the rows that a data migration
reads are there: components (a text is abstracted to the names it contains and
its version), their links to jobs, nulls. Left out: the `component_files` of a
component that the merge of `46dff7ed04c2` deletes, and a server of the earlier
release that goes on writing while a later one has migrated (a rolling upgrade).

`Schemas` continues at the head: a schema is its fields, the required ones, the
defaults, what is nullable or an enum; `Cleaned` is `clean_json_with_schema`; one
operator per POST handler gives the values it passes to the table. `PostResource`
stores them as SQLAlchemy and PostgreSQL would (`Stored`, `Refused`, which are
external), `PutResource` updates. A value is where it came from: the body, a
default of the schema, the handler, the ORM, the database, or null. Formats,
lengths and the checks of callers are left out.

### EventsFeed

`events[id]` is drawn by the INSERT (`CreateEvent`) and seen at
`CommitEvent`, or lost. A consumer reads the counter (`GetSequence`,
`CreateSequence`), a page of events from there sorted by id (`GetEvents`),
handles it and PUTs the counter with the etag it read; in the server that PUT is
`PutSelect` (the etag in a SELECT) and `PutUpdate` (by primary key). The
consumer is external and written as the API and its tests use the feed; the
default order of the listing is newest first, so a consumer has to ask for
`sort=id`. The join with jobs hides the events of a purged job.

### Archive

A row has its table, its state and what its foreign keys name; which keys there
are comes from `Models2!Declared`, so the cascades of a purge are those of
`models2.py`. One action is one transaction. `DeleteTeam` and `DeleteRemoteci`
leave a request behind, whose second transaction is `FinishDelete...` and may
never come (`DieHalfway`); `CreateJob`, `CreateFromJob`, `CreateFile` read their
parents and `Insert` later. `PurgeJobs` and `PurgeFiles` list the files first.
`halfway`, `put` and `overlapped` record the exceptions that the properties
have to name: a deletion that died, a row written by a PUT, a row inserted across
a deletion.

The update schemas let a PUT name the state and, in four tables, a parent.
`PutState` archives the row *alone*: no handler of a PUT archives what belongs to
it, so a job archived that way keeps live files, and a remoteci or team keeps live
jobs. The row is found by a SELECT and written by primary key in the handlers of
`update_resource_orm`, so a late PUT also brings back a row archived since; not a
team, whose UPDATE compares the etag again (`teams.py:147-166`). `PutParent` gives
a remoteci or a feeder another team, a component another topic, a topic another
product or next topic, while the jobs keep the parents they have. Files have no
PUT. A POST whose body says `archived` is the POST followed by `PutState`.

Behaviours start from any database of `Seeds` that satisfies the keys and `NOT
NULL` of `models2.py` (`KeysHold`), whose rows are as the handlers write them
(`IsWritten`) and in which nothing is deleted yet. `IsWritten` has one thing that
the code leaves to its clients: `POST /files` with both `DCI-JOB-ID` and
`DCI-JOBSTATE-ID` does not check that the jobstate is one of the job. The model's
uploads name the job alone. `MaxLinks` bounds how many other jobs and pipelines a
`POST /jobs` names at once, `MaxChanges` the DELETE and PUT requests of a behaviour.
A key without an `ON DELETE` rule has the rule `"NO_ACTION"`.

### Permissions and Access

`Permissions` has the functions of `permissions.py`, `identity.py` and the lists
and reads of the handlers, under their names. `Access` has the logins:
`FindWithEmail`, `FindWithLogin`, then `UpdateEmail` or `Create` and `JoinTeam`,
and `FindAgain`, each one round trip, as in `auth_mechanism.py`. Two logins run
at a time, any of which may die; meanwhile administrators create, change, delete and
purge users, move them between teams and open products to teams, and the
identity provider gives a person another email. A login is `alone` as long as
nothing ran beside it.

The accounts have the four unique columns of `models2.py`: the name, the email,
the SSO name and `sso_sub` (`Clashes`). A token of scope `openid` gives no sub
(`auth_mechanism.py:273`); of the others a login takes one of `SubsOf[p]`, which
two persons may share, as a Red Hat login that was renamed keeps its sub. A PUT
writes the name, the email, the state (active, inactive or archived) and the
sub, the last in any case, since the schema makes it null by default. (A PUT of
users/me or of the identity that changes the email is one of these.) Only an
active account is found by a login; an inactive one still clashes and is not
purged; an archived one clashes until it is purged. `JoinTeam` is the second
commit of a creation, and `CannotJoin` the 404 of an archived Red Hat team, or
any failure of that commit: the login is refused (`unjoined`) and the account
stays, in no team; the next login finds it and never adds it. In the model every
account and every token has an email, and the name of an account is that of a
person. A POST of a user that gives another state is the POST and then a PUT.
Basic and HMAC authentication look a row up and compare a secret; they are left
out, and so is who may write.

## 4. Runs

Passing runs check the whole state space of the bounds below.

| Run | Bounds | Shows |
|---|---|---|
| `joblifecycle_races` | 3 requests of all kinds at once, crashes, 2 statuses | `StatusIsRecorded`, `EventIsRecorded`, `MessagesFollowEvents`, `AnnouncedOnlyAfterFinish`, `ArchivedIsForGood` hold under any interleaving |
| `joblifecycle_live` | 3 requests, 2 at once, no crash, PUTs with a state, weak fairness | `FinalIsAnnounced`; for requests that came one by one: `NotifiedOnceOneByOne`, `MessageMatchesEvent`, `QuietAgreement` |
| `conditionalupdate_cas` | 3 clients, 2 at once, all 7 handlers, 1 column (given or not), 2 versions, crashes | the compare-and-set handlers refine the contract, the read-check-write ones too as long as none overlaps them (`Overlapping`); no column goes back; `AckedIsApplied` for all but `put_identity` |
| `filestore_races` | 2 junit files, 2 jobs, 2 purges, 2 at once, crashes | `ActiveHasContent`, `PurgeIsComplete`, `CreatedJunitHasResults`; as long as nothing overlapped or died, `NoLeak` |
| `scheduling_races` | 1 job, 5 components, one of a type the topic does not list, schedule, create and update, 4 changes by others (the job archived or back among them), crashes | `AnsweredIsComplete`, `ChosenWasLatest`, `PartialHasAReason` |
| `schema` | 3 releases (the first, the one before the merge of components, the head), 3 deployments, 1 downgrade, 2 components from 3 origins, 1 job; bodies with at most one optional field, or all but one | `HeadIsDeclared`, `FailureIsExplained`, `NoJobLosesAComponent`; `AcceptedIsStored`, `AnswerShowsRow`, `UpdateChangesOnlyNamed` |
| `events_feed` | 2 consumers, 2 jobs, 3 events, pages of 2, 1 fault (purge or restart), weak fairness | `NoEventSkipped`, `MovesBackOnlyOnOverlap`, `EventuallyHandled` |
| `archive` | 3 databases of the tables that matter (two teams, two topics of two products, nothing deleted or moved yet), 2 requests at once, 2 DELETEs or PUTs, any purges, two more jobs, a file and a remoteci, one other job or pipeline named per job | `NothingRunsOnWhatIsDeleted`, `LiveJobsGoWithTheirTopic`, `JobsPurgeLeavesFewObjects`, `RefusedOnlyForTheLiving` |
| `access` | 2 persons (one read-only, whose tokens have a sub; one whose tokens have none unless an administrator gives it to the account), 2 logins at once, 5 teams, 2 topics, 2 changes, deaths or failures to join, one column changed by a PUT beside the sub, fairness | `RefusedForARival`, `CreatedReadOnlyIsInTeam`, `ListedIsReadable`, `ScopeShowsNoMore`, `EventuallyLoggedIn` |

Why these bounds: the rows of `JobLifecycle` are written by at most eight round
trips of one request and every property relates at most two requests and one
deletion. An etag race takes two writers and one version; a third client and a
second version let one of them succeed later. Two files with the same name on two jobs
are what the junit comparison needs; two purges overlap on one file. A selection
goes wrong on two types with two components each. The merge of components
needs two that get one name, a job on the one that goes, and a downgrade before
the next deployment. Each field of a schema is treated on its own, so one
absent or null field at a time meets every default; the three places that look at two
fields (`anyOf`, `oneOf`, `create_remotecis`) get both. To skip an event
takes two writers and a page boundary. A cascade goes wrong on one row of each
table and a second team, topic and job for what must stay. A login loses a race
with one other login and one change; it is refused for one row.

Deadlock is not checked in runs whose requests are finite in number: all served,
the system stops. It is checked in `events_feed` and `access`, whose consumers
and persons go on for ever.

Runs that find a disagreement with what the repository says:

| Run | What the repository says | What the code does |
|---|---|---|
| `joblifecycle_once` | `tests/api/v1/test_jobstates.py:42` "Notification should be sent just one time" | two overlapping final jobstates both announce the end (`jobstates.py:82` read, `:95` used) |
| `conditionalupdate_orm_races` | `docs/API.md:31` "the user has read the most up to date value" | two overlapping requests naming one etag are both applied |
| `archive_users` | `tests/api/v1/test_teams.py:281` `test_deleted_team_has_no_users` | `teams.py:212` removes from the list it iterates over: a team of two users keeps one |

Other disagreements are visible in the properties themselves, as the exceptions
they name:

* `jobstates.py:71` says that a failure of a job that has not started sets "the
  job to 'error' state"; the jobstate and the event become errors (`:78`), the row
  and the mail keep `failure` (`:85`): `QuietAgreement`, `MessageMatchesEvent`.
* `put_identity` ignores how many rows its UPDATE changed and answers 200 with an
  etag no row has (`identity.py:94`): `AckedIsApplied`.
* `1c16157d0b73` puts the value in the primary key of `jobs_keys_values`,
  `models2.py:580` does not: `HeadIsDeclared`. `tests` that migrate start from an
  empty database and compare neither keys nor defaults.
* Eight revisions cannot be upgraded again once downgraded, because their
  downgrade leaves tables, columns, indexes or types: `FailureIsExplained`.
* A PUT of a user that names `team_id`, and a jobstate of an unknown status, pass
  their schema and fail in the database: `AcceptedIsStored`. A PUT of a user
  forgets its `sso_sub`, a PUT of a pipeline makes it active: `UpdateChangesOnlyNamed`.
* Deleting a topic, or the team of a pipeline, leaves live jobs that the purge
  takes: `LiveJobsGoWithTheirTopic`. Deleting a remoteci leaves live files, whose
  objects no purge removes: `JobsPurgeLeavesFewObjects`. A PUT of the state
  archived does neither: what belongs to the row stays, live, and goes with it in a
  purge: `NothingRunsOnWhatIsDeleted`, both others.
* An archived or inactive user keeps its name, email and sub: its next login tries
  to create it and is refused, until users are purged or for good. The same holds
  of a person whose sub another account has, whatever its name and email
  (`RefusedForARival`, `EventuallyLoggedIn`).
* `schedule_jobs` says that running jobs of the remoteci are killed first
  (`jobs.py:75`); nothing touches them, as in `Scheduling!StoreJob`.

### Fairness

* `joblifecycle_live`: `WF_vars(Serve(r))` for each request, that is, a worker that
  has not died goes on with the request it serves. The code waits on nothing but
  the database, the store and the broker, each of which answers or fails. No
  request has to arrive, and with crashes the property does not hold: nothing
  replays a handler that died after it had made a job final.
* `events_feed`: consumers poll for ever (`WF_vars(Read(c))`) and the server goes
  on with the PUTs it has (`WF_vars(Put(c))`). Nothing is assumed of the
  transactions that insert events, of purges or of restarts.
* `access`: a request that is served goes on (`WF_vars(Step(q))`), and a person
  tries again: `SF_vars` of a login of that person, strong because others may
  keep taking the place of a request. Nothing is assumed of administrators.

## 5. Proofs

| Theorem | Assumes | Establishes, for every value of the constants |
|---|---|---|
| `JobLifecycle_proofs!TypeCorrect` | | `TypeOK` |
| `StatusRecorded`, `EventRecorded`, `MessagesFollow`, `AnnouncedAfterFinish` | | the safety properties of `joblifecycle_races` |
| `DeletedStaysDeleted` | no PUT carries a state | `ArchivedIsForGood` |
| `NotifiedOnceForEachEnd`, `MessagesMatchEvents` | | `NotifiedOnceOneByOne`, `MessageMatchesEvent` |
| `AgreementWhenQuiet` | no jobstate is deleted | `QuietAgreement` |
| `FileStore_proofs!TypeCorrect`, `ActiveIsDownloadable`, `PurgeRemovesAll`, `JunitResultsKept` | | the properties of `filestore_races` that need no `overlapped` |
| `FileStore_proofs!ContentsAreNotLeaked` | | `NoLeak` |
| `ConditionalUpdate_proofs!CasImplementsContract`, `CasChangesWhatWasRead` | only compare-and-set handlers | the refinement of `EtagContract`, and its state form |
| `ColumnsNeverGoBack` | only compare-and-set handlers | `ColumnsMoveForward` |
| `CasAcksWhatItApplies` | the same without `put_identity` | `AckedIsApplied` |
| `EventsFeed_proofs!TypeCorrect`, `NothingIsSkipped` | | `TypeOK`, `NoEventSkipped` |
| `EventsFeed_proofs!CounterGoesForward` | | `MovesBackOnlyOnOverlap` |
| `Scheduling_proofs!TypeCorrect`, `AnsweredJobsAreComplete`, `SelectionIsRecent`, `PartialIsExplained` | | `TypeOK` and the properties of `scheduling_races` |
| `Access_proofs!TypeCorrect`, `RefusalsAreExplained`, `ReadOnlyJoins` | finitely many persons and logins | `TypeOK` (with the unique columns of users), `RefusedForARival`, `CreatedReadOnlyIsInTeam` |
| `ListsAreReadable`, `ScopesShowLess` | | `ListedIsReadable`, `ScopeShowsNoMore` |
| `Archive_proofs!TypeCorrect`, `DeletedLeavesNothingRunning` | the seeds of `SeedsAssumption` | `TypeOK` (no key dangles), `NothingRunsOnWhatIsDeleted` |
| `PurgesSpareLiveJobs`, `JobsPurgeTakesObjects`, `PurgesAreRefusedForTheLiving` | the same | `LiveJobsGoWithTheirTopic`, `JobsPurgeLeavesFewObjects`, `RefusedOnlyForTheLiving` |
| `Schemas_proofs!MigrationsInvariant`, `NewestIsDeclared` | | the inductive invariant of the migrations, `HeadIsDeclared` |
| `FailuresAreExplained` | no release stops at `36c753d31b62` | `FailureIsExplained` |
| `JobsKeepComponents` | | `NoJobLosesAComponent` |
| `AcceptedBodiesAreStored`, `AnswersShowRows`, `UpdatesChangeTheNamed` | | `AcceptedIsStored`, `AnswerShowsRow`, `UpdateChangesOnlyNamed` |

The only other assumptions are those the modules name (`...Assumption`), which
TLC evaluates in every run.

*JobLifecycle.* The safety properties are about ghosts and rows; a step that
uses what its request read needs to know what had been committed when it read
it. The inductive invariant adds to `TypeOK`, for each request and each place it
can be at, the evidence left behind: a request past its insert is in `history`,
one that is to announce has seen the row become final (`finishes > 0`), one that
dispatches has its event. Other requests only add to `history`, `events` and
`finishes`, so the evidence is stable.

What holds when requests come one at a time needs more: the properties are about
whole handlers, and a handler is a dozen steps. `SeqInv` says, for the one request
in flight and each place it can be at, what it still owes: the notification of an
end it has made, the event that goes with it, the jobstate the row will show.
Between requests nothing is owed, which is what `QuietAgreement` says. A client
that deletes the last jobstate leaves the row with a status nothing records, so
that theorem assumes that no request of that kind is made.

*FileStore.* A content is needed while its row is active or about to be
inserted. The invariant says that uploads between `StoreUpload` and `InsertFile`
have their content, and that a purge works only on files that are archived or
gone, which nothing makes active again; what it listed and no longer has to do
is gone with its content.

`NoLeak` is about requests that do not overlap. `LeakInv` says that then at most
one is in flight, and for each place an upload or a purge can be at, which content
it is responsible for: the one it stored and has no row for, those it listed and
has not deleted. When it ends, only the exceptions that `NoLeak` names remain.

*ConditionalUpdate.* The log has one entry per etag, an etag a client holds is
not in the future, and a request that has written is the last entry of its
client, with the etag it named. What authentication read is still in the row as
long as the row has the etag the client named: that is why `users/me`, which
writes columns back, undoes nothing. The refinement then has one case: an UPDATE
whose WHERE clause matched is a `Change`, any other step a stutter.

*EventsFeed.* The invariant bounds what a consumer may hold: its sequence is the
counter's if its etag is, every event of its page before the next sequence is
accounted for, and a PUT that no other overlapped puts the counter no lower than
it is. An event that commits after a later one was seen is `overtaken` at that
moment and for good.

*Scheduling.* `next` says which of the chosen components comes now: those before
it are attached or were removed by another request, and nothing is attached that
was neither chosen before `next` nor added by another one; a request that is done
has passed them all. What was chosen is one component per type so far, or the
given ids once verified. The latest component of each type is in `fresh` of every
request in flight, which a change of the components keeps true by definition of
`Refresh`. An archived component is in `deleted` even if it comes back, and an
INSERT that meets a link finds one that another request `added`, so the reason
of a 404 or a 409 is still there when one looks at the job. A job archived before
`ReadJob` is in `withdrawn`, and `next` is still 1: all it has is what others added.

*Access.* The names, emails, SSO names and subs of the stored users are unique, as
the database makes them. The invariant says what a login that nothing ran beside
still knows of the table at each stage: at `create` no active account of the
person is there, at `again` one has its email, so an INSERT or UPDATE that is
refused met another row, the rival, by one of the four columns. A read-only account without its team is one
whose login is at `team`, holding that id. New ids are chosen among those no row
and no request has; there is one because names are unique and each login holds
one id, hence the finite sets and the count in `AccessAssumption`. Lists and
scopes are state functions: both theorems follow from one lemma, an identity
with fewer teams sees less.

*Archive.* The cascades of a purge follow the keys of 23 tables. They end because
the keys that cascade form no cycle: each table has a height, a key that cascades
goes from a lower table to a higher one, and no table is higher than five, so the
five steps of `Removed` reach everything. Hence the rows left name only rows that
are left, or the purge is refused: with ids used once, that is `ShapeInv`, and no
key dangles. `RowsInv` has what `NothingRunsOnWhatIsDeleted` needs to be
inductive: it speaks also of rows that requests are about to insert, of archived
jobs (`Attended`, because a job is inserted from one), of the columns a job and a
file copy from their parents (`Written`, since a deletion takes rows by these
columns), and of what a purge in flight has listed. It is said of a row and a
*view* of the state, so that one lemma about two views covers every step that
archives or removes: a row keeps its keys, what is archived is a team or
remoteci whose DELETE has begun or comes with what belongs to it, and a DELETE
ends when nothing live belongs to it. For the purges, the lemma `JobGoesWith`
goes back from a removed job to the archived row it went with, by the keys of
`jobs`; `Holdup` does the same from a key that refuses a purge.

*Schemas: the migrations.* The revisions are sixteen and known, the databases are
not: any set of releases, any rows, and as many deployments, failures, crashes
and downgrades as the constants allow. A downgrade that is `pass`, or leaves
`uid`, makes the tables depend on more than the revision. `Shape` says on what:
each table is a function of two sets, `ups`, the revisions whose upgrade is in
effect, and `left`, those that were ever downgraded. `Ups(db.revision)` is a
prefix of the chain; `Left` is what downgrades have committed and, while one
runs, what it has undone. There is a lemma per revision and direction: from a
database of shape `(ups, left)` the upgrade reaches `(ups + r, left)` or fails,
and then `r` is the merge, is in `left` and leaves something, or meets null
strings. `MInv` is the shape of the committed database and of the one at work;
where `ups` is the whole chain, `left` no longer matters for what a column or a
constraint is, which is `HeadIsDeclared`. Its other part is `Kin`: each pair of a
job and a component of the committed database has a pair at work that descends
from it. Only `46dff7ed04c2` changes the rows of components; until then they are
those committed, so that one lemma about `MergedRows` suffices. It needs that the
latest of the rows with one key exists, which is why `Components` are numbers.

`FailuresAreExplained` has a hypothesis: `36c753d31b62` empties the null strings
of jobs and `a7d42b83e41e` requires them. Were a release to stop between the two,
servers could write nulls again and the next upgrade would fail. The two
revisions were created four minutes apart, on one day, so that none is taken to.

*Schemas: the requests.* `SInv` says that the row is one its table can hold, at
the newest revision, where `NewestTables` gives the columns that the server
declares. A POST is a chain of functions of the body: `Cleaned`, fallbacks, stamps.
`Covers(values, S, M)` says that values have no column outside `M`, that those in
`S` are given, and that none is outside its enum; there is a lemma for each
function, so that each of the twelve resources comes down to inclusions of sets
of columns: `M` in those of the table, what the table requires and has no default
for in `S`, and what has a default in `S` or `LeftToOrm`. For a PUT, `PutFits` are
the inclusions that its schema has to satisfy.

Only model-checked: liveness (`FinalIsAnnounced`, `EventuallyHandled`,
`EventuallyLoggedIn`), which needs fairness and ENABLED; the read-check-write
handlers, for which `ChangedWhatWasRead` is violated once they overlap. Every
safety property of a passing run is a theorem.

## 6. Not modelled

Junit parsing, formatting of messages and mails, the worker, passwords and
signatures, statistics, audits, analytics, the query language, exports, scripts, the
two stores behind `stores/`, API v2, tags, issues, and who may write what: they
keep no state, or append a row nobody reads back, or a refused caller changes
nothing. See the components of `PROJECT.json`.

## 7. Plan

Done: the life of a job, conditional updates, files, scheduling, the feed, the
archive and its purges, tables, migrations and schemas, logins and permissions;
proofs of the safety properties of all of them.

Left, in this order:

1. Component activation and its notifications (`components.py:116`), the worker's
   queue.
2. Paging of the analytics over jobs that are written meanwhile.
3. An abstract announcement of jobs that `JobLifecycle` and the feed implement.
