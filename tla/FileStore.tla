----------------------------- MODULE FileStore -----------------------------
(***************************************************************************)
(* The files of the jobs: rows in PostgreSQL, contents in an object store  *)
(* (dci/api/v1/files.py, the deletions of jobs.py and remotecis.py).       *)
(*                                                                         *)
(* No transaction spans the two: an upload writes the content, then the    *)
(* row; a purge deletes the content, then the row; and the purge of a job  *)
(* deletes the rows of its files by cascade.  Each write is an action, and *)
(* a request may die between two of them.  The store is modelled by what   *)
(* files.py expects of it: a set of contents keyed by the file's path.     *)
(***************************************************************************)
EXTENDS Integers, FiniteSets

CONSTANTS
    Files,          \* the files the agents upload, each by one request
    MaxJob,         \* jobs 1..MaxJob of one remoteci and topic, oldest first
    Junit,          \* the files that are junit results, all of the same name
    Admins,         \* the requests that purge
    JobDeletions,   \* how jobs get archived: see DeleteJob and ArchiveJob
    Concurrency,    \* how many requests are served at the same time
    AllowCrash,     \* whether a worker may die while it serves a request
    None

Jobs == 1..MaxJob

ASSUME MaxJobAssumption == MaxJob \in Nat
ASSUME JunitAssumption == Junit \subseteq Files
ASSUME JobDeletionsAssumption == JobDeletions \subseteq {"delete_job", "archive_job"}
ASSUME ConcurrencyAssumption == Concurrency \in Nat \ {0}
ASSUME AllowCrashAssumption == AllowCrash \in BOOLEAN
ASSUME NoneAssumption == None \notin Files

VARIABLES
    jobs,       \* the state of each job row, "gone" once it is purged
    files,      \* the state of each file row, "none" before it is inserted
    blobs,      \* the files whose content is in the store
    results,    \* the files that have a tests_results row
    owner,      \* the job each file is uploaded to
    up,         \* the next step of each upload
    purge,      \* the next step of each purge, what it listed and has left
    deleted,    \* ghost: the jobs archived by delete_job_by_id
    overlapped  \* ghost: two requests were served at the same time

rows == <<jobs, files, results>>
vars == <<rows, blobs, owner, up, purge, deleted, overlapped>>

Ended == {"idle", "created", "failed", "lost", "crashed"}
Uploading == {f \in Files : up[f] \notin Ended}
Purging   == {a \in Admins : purge[a].pc # "idle" /\ purge[a].pc # "done"}
Serving   == Cardinality(Uploading) + Cardinality(Purging)
MayServe  == Serving < Concurrency
NextStep(f, label) == up' = [up EXCEPT ![f] = label]

NoPurge == [pc |-> "idle", scope |-> "files", listed |-> {}, todo |-> {}, file |-> None]

Init ==
    /\ jobs = [j \in Jobs |-> "active"]
    /\ files = [f \in Files |-> "none"]
    /\ blobs = {}
    /\ results = {}
    /\ owner = [f \in Files |-> 0]
    /\ up = [f \in Files |-> "idle"]
    /\ purge = [a \in Admins |-> NoPurge]
    /\ deleted = {}
    /\ overlapped = FALSE

-----------------------------------------------------------------------------
(* POST /files: create_files. *)

(* The job is looked up once, before the content is sent to the store. *)
CreateFile(f) ==
    /\ up[f] = "idle" /\ MayServe
    /\ \E j \in Jobs :
         /\ jobs[j] = "active"
         /\ owner' = [owner EXCEPT ![f] = j]
    /\ NextStep(f, "upload")
    /\ UNCHANGED <<rows, blobs, purge, deleted>>

Fail(f) ==
    NextStep(f, "failed") /\ UNCHANGED <<rows, blobs, owner, purge, deleted>>

(* store.upload and store.head; a StoreException may come before or after  *)
(* the content is written.                                                 *)
StoreUpload(f) ==
    /\ up[f] = "upload"
    /\ \/ blobs' = blobs \union {f} /\ \E next \in {"insert", "lost"} : NextStep(f, next)
       \/ NextStep(f, "failed") /\ UNCHANGED blobs
    /\ UNCHANGED <<rows, owner, purge, deleted>>

(* base.create_resource_orm: the foreign key asks for a job row, archived  *)
(* or not.                                                                 *)
InsertFile(f) ==
    /\ up[f] = "insert"
    /\ \/ /\ jobs[owner[f]] # "gone"
          /\ files' = [files EXCEPT ![f] = "active"]
          /\ NextStep(f, IF f \in Junit THEN "results" ELSE "touch")
          /\ UNCHANGED <<jobs, results, blobs, owner, purge, deleted>>
       \/ jobs[owner[f]] = "gone" /\ Fail(f)

(* get_previous_job_in_topic: the last older job that is not archived. *)
PreviousJob(j) ==
    LET older == {k \in Jobs : k < j /\ jobs[k] = "active"}
    IN  IF older = {} THEN None ELSE CHOOSE k \in older : \A l \in older : l <= k

PreviousResults(j) ==
    {g \in results : PreviousJob(j) # None /\ owner[g] = PreviousJob(j)}

(* The previous results of that name: none, or exactly one whose file is   *)
(* still there; anything else ends the request in an error.                *)
Comparable(j) ==
    \/ PreviousResults(j) = {}
    \/ \E g \in Files : PreviousResults(j) = {g} /\ files[g] = "active" /\ g \in blobs

(* Variants named Bug... are mistakes a change of the code could make; no   *)
(* action uses them, the mutation runs put them in place of the original.  *)

BugResultsSkipped(f) ==
    /\ up[f] = "results"
    /\ NextStep(f, "touch")
    /\ UNCHANGED <<rows, blobs, owner, purge, deleted>>

(* _calculate_and_save_test_results: the content is read back, compared    *)
(* with the previous results and saved.  Invalid XML is one of the errors. *)
SaveResults(f) ==
    /\ up[f] = "results"
    /\ \/ /\ f \in blobs /\ files[f] # "gone" /\ Comparable(owner[f])
          /\ results' = results \union {f}
          /\ NextStep(f, "touch")
          /\ UNCHANGED <<jobs, files, blobs, owner, purge, deleted>>
       \/ Fail(f)

(* job.etag and, for a jobstate's file, the duration: the job must be there. *)
TouchJob(f) ==
    /\ up[f] = "touch"
    /\ \/ /\ jobs[owner[f]] # "gone"
          /\ NextStep(f, "created")
          /\ UNCHANGED <<rows, blobs, owner, purge, deleted>>
       \/ jobs[owner[f]] = "gone" /\ Fail(f)

Upload(f) == CreateFile(f) \/ StoreUpload(f) \/ InsertFile(f) \/ SaveResults(f) \/ TouchJob(f)

-----------------------------------------------------------------------------
(* Deletions only mark the rows. *)

(* delete_file_by_id.  A row that is no longer active is not found; one    *)
(* purged between the two commits makes the request fail, with no effect.  *)
DeleteFile(f) ==
    /\ MayServe /\ files[f] = "active"
    /\ files' = [files EXCEPT ![f] = "archived"]
    /\ UNCHANGED <<jobs, results, blobs, owner, up, purge, deleted>>

BugDeleteJobKeepsFiles(j) ==
    /\ MayServe /\ "delete_job" \in JobDeletions /\ jobs[j] = "active"
    /\ jobs' = [jobs EXCEPT ![j] = "archived"]
    /\ deleted' = deleted \union {j}
    /\ UNCHANGED <<files, results, blobs, owner, up, purge>>

(* delete_job_by_id: the job and the files it has now, in one transaction. *)
DeleteJob(j) ==
    /\ MayServe /\ "delete_job" \in JobDeletions /\ jobs[j] = "active"
    /\ jobs' = [jobs EXCEPT ![j] = "archived"]
    /\ files' = [f \in Files |-> IF owner[f] = j /\ files[f] = "active"
                                 THEN "archived" ELSE files[f]]
    /\ deleted' = deleted \union {j}
    /\ UNCHANGED <<results, blobs, owner, up, purge>>

(* delete_remoteci_by_id, or a PUT of the job with state "archived": the   *)
(* job is archived and its files are not.                                  *)
ArchiveJob(j) ==
    /\ MayServe /\ "archive_job" \in JobDeletions /\ jobs[j] = "active"
    /\ jobs' = [jobs EXCEPT ![j] = "archived"]
    /\ UNCHANGED <<files, results, blobs, owner, up, purge, deleted>>

-----------------------------------------------------------------------------
(* POST /files/purge and POST /jobs/purge. *)

BugListed == {f \in Files : files[f] \notin {"none", "gone"}}

(* get_resources_to_purge_orm: the rows are listed once, at the start. *)
Listed == {f \in Files : files[f] = "archived"}

PurgeStart(a) ==
    /\ purge[a].pc = "idle" /\ MayServe
    /\ \E scope \in {"files", "jobs"} :
         purge' = [purge EXCEPT ![a] =
                     [pc |-> "next", scope |-> scope, listed |-> Listed,
                      todo |-> Listed, file |-> None]]
    /\ UNCHANGED <<rows, blobs, owner, up, deleted>>

PurgeFails(a) ==
    /\ purge' = [purge EXCEPT ![a] = NoPurge]
    /\ UNCHANGED <<rows, blobs, owner, up, deleted>>

(* store.delete; a missing content is only logged, any other error of the  *)
(* store ends the purge.                                                   *)
PurgeContent(a) ==
    /\ purge[a].pc = "next"
    /\ \E f \in purge[a].todo :
         \/ /\ blobs' = blobs \ {f}
            /\ purge' = [purge EXCEPT ![a].pc = "row", ![a].file = f]
            /\ UNCHANGED <<rows, owner, up, deleted>>
         \/ PurgeFails(a)

BugPurgeRowForgotten(a) ==
    /\ purge[a].pc = "row"
    /\ purge' = [purge EXCEPT ![a].pc = "next", ![a].todo = @ \ {purge[a].file}]
    /\ UNCHANGED <<rows, blobs, owner, up, deleted>>

(* The row goes, and its results with it; a DBAPIError ends the purge. *)
PurgeRow(a) ==
    /\ purge[a].pc = "row"
    /\ \/ /\ files' = [files EXCEPT ![purge[a].file] = "gone"]
          /\ results' = results \ {purge[a].file}
          /\ purge' = [purge EXCEPT ![a].pc = "next", ![a].todo = @ \ {purge[a].file}]
          /\ UNCHANGED <<jobs, blobs, owner, up, deleted>>
       \/ PurgeFails(a)

BugPurgeFilesDoneScope(a) ==
    /\ purge[a].pc = "next" /\ purge[a].todo = {}
    /\ purge' = [purge EXCEPT ![a].pc = purge[a].scope]
    /\ UNCHANGED <<rows, blobs, owner, up, deleted>>

(* The files are done: jobs.purge_archived_jobs goes on with the jobs. *)
PurgeFilesDone(a) ==
    /\ purge[a].pc = "next" /\ purge[a].todo = {}
    /\ purge' = [purge EXCEPT ![a].pc = IF purge[a].scope = "jobs" THEN "jobs" ELSE "done"]
    /\ UNCHANGED <<rows, blobs, owner, up, deleted>>

Cascaded(f) == owner[f] \in Jobs /\ jobs[owner[f]] = "archived" /\ files[f] # "none"

(* base.purge_archived_resources(Job): every archived job, and by ON       *)
(* DELETE CASCADE the rows of its files; a job that another one names as   *)
(* previous_job_id makes the whole statement fail.                         *)
PurgeJobs(a) ==
    /\ purge[a].pc = "jobs"
    /\ \/ /\ jobs' = [j \in Jobs |-> IF jobs[j] = "archived" THEN "gone" ELSE jobs[j]]
          /\ files' = [f \in Files |-> IF Cascaded(f) THEN "gone" ELSE files[f]]
          /\ results' = {f \in results : ~Cascaded(f)}
          /\ purge' = [purge EXCEPT ![a].pc = "done"]
          /\ UNCHANGED <<blobs, owner, up, deleted>>
       \/ PurgeFails(a)

PurgeStep(a) == PurgeStart(a) \/ PurgeContent(a) \/ PurgeRow(a) \/ PurgeFilesDone(a) \/ PurgeJobs(a)

(* The administrator may purge again. *)
PurgeAgain(a) ==
    /\ purge[a].pc = "done"
    /\ PurgeFails(a)

Crash ==
    /\ AllowCrash
    /\ \/ \E f \in Uploading :
            NextStep(f, "crashed") /\ UNCHANGED <<rows, blobs, owner, purge, deleted>>
       \/ \E a \in Purging : PurgeFails(a)

(* Deletions are served in one action, uploads and purges in several. *)
Deletion ==
    \/ \E f \in Files : DeleteFile(f)
    \/ \E j \in Jobs : DeleteJob(j) \/ ArchiveJob(j)

Round ==
    \/ \E f \in Files : Upload(f)
    \/ \E a \in Admins : PurgeStep(a) \/ PurgeAgain(a)
    \/ Crash

Next ==
    \/ Deletion /\ overlapped' = (overlapped \/ Serving > 0)
    \/ Round /\ overlapped' = (overlapped \/ Serving' > 1)

Spec == Init /\ [][Next]_vars

-----------------------------------------------------------------------------
PurgeRecord ==
    [pc: {"idle", "next", "row", "jobs", "done"}, scope: {"files", "jobs"},
     listed: SUBSET Files, todo: SUBSET Files, file: Files \union {None}]

(* Rows, contents, and the requests in flight. *)
TypeOK ==
    /\ jobs \in [Jobs -> {"active", "archived", "gone"}]
    /\ files \in [Files -> {"none", "active", "archived", "gone"}]
    /\ blobs \subseteq Files
    /\ results \subseteq Files
    /\ owner \in [Files -> Jobs \union {0}]
    /\ up \in [Files -> {"idle", "upload", "insert", "results", "touch"} \union Ended]
    /\ purge \in [Admins -> PurgeRecord]
    /\ deleted \subseteq Jobs

(* A file the API lists can be downloaded: whatever uploads, deletions and *)
(* purges run together or die, an active row has its content in the store. *)
ActiveHasContent == \A f \in Files : files[f] = "active" => f \in blobs

(* A purge that answers 204 has removed every file it listed, content and  *)
(* row, even one that an earlier purge left half removed.                  *)
PurgeIsComplete ==
    \A a \in Admins : purge[a].pc = "done" =>
        \A f \in purge[a].listed : files[f] = "gone" /\ f \notin blobs

(* A junit upload that answers 201 has its tests_results for as long as    *)
(* its row is there.                                                       *)
CreatedJunitHasResults ==
    \A f \in Junit : up[f] = "created" /\ files[f] # "gone" => f \in results

(* Contents are never leaked: as long as no two requests have overlapped,  *)
(* once none runs each content in the store has a row that lists it or     *)
(* that a purge will find.  Exceptions: the store failed, or the worker    *)
(* died, after the content was written; the job was archived without its   *)
(* files, then purged.                                                     *)
NoLeak ==
    ~overlapped /\ Uploading = {} /\ Purging = {} =>
        \A f \in blobs :
            \/ files[f] \in {"active", "archived"}
            \/ up[f] \in {"lost", "crashed"}
            \/ jobs[owner[f]] = "gone" /\ owner[f] \notin deleted
=============================================================================
