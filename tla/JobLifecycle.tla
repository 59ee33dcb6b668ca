---------------------------- MODULE JobLifecycle ----------------------------
(***************************************************************************)
(* The life of one job row: the handlers of dci/api/v1/jobs.py,            *)
(* jobstates.py and jobs_events.py that write the row, its jobstates, its  *)
(* jobs_events and its notifications.                                      *)
(*                                                                         *)
(* A handler is not a transaction.  It commits several times, and the      *)
(* session re-reads a row after every commit, so other requests run        *)
(* between any two database round trips: each round trip is an action and  *)
(* pc says which one the request performs next.  Handlers of two jobs      *)
(* share no row, so one job is enough.                                     *)
(***************************************************************************)
EXTENDS Integers, FiniteSets

CONSTANTS
    Requests,       \* the HTTP requests the clients send about the job
    Kinds,          \* the handlers they call
    Statuses,       \* the job statuses they report
    PutStates,      \* the resource states a PUT may carry, None for no state
    Concurrency,    \* how many requests are served at the same time
    AllowCrash,     \* whether a worker may die while it serves a request
    None            \* an absent value

Live     == {"active", "inactive"}
Final    == {"success", "failure", "error"}
Early    == {"new", "pre-run"}
AllKinds == {"post", "put", "delete", "purge", "drop"}
AllStatuses ==
    Final \union Early \union {"running", "post-run", "killed"}

ASSUME KindsAssumption == Kinds \subseteq AllKinds
ASSUME StatusesAssumption == Statuses \subseteq AllStatuses
ASSUME PutStatesAssumption == PutStates \subseteq Live \union {"archived", None}
ASSUME ConcurrencyAssumption == Concurrency \in Nat \ {0}
ASSUME AllowCrashAssumption == AllowCrash \in BOOLEAN
ASSUME NoneAssumption ==
    /\ None \notin AllStatuses \union Live \union {"archived", "purged"}
    /\ None \notin AllKinds
    /\ None \notin Requests

VARIABLES
    job,            \* the row: state ("purged" once it is deleted), status, etag
    jobstates,      \* the jobstates rows of the job
    events,         \* the jobs_events rows of the job
    dispatched,     \* the messages pushed to the worker's queue
    published,      \* the job_finished messages published
    pc,             \* the next round trip of each request
    req,            \* what each request carries and has read
    clock,          \* the date the next request draws (created_at)
    history,        \* ghost: every jobstate ever inserted, with what was asked
    finishes        \* ghost: how often the row went from not final to final

rows == <<job, jobstates, events>>
messages == <<dispatched, published>>
ghosts == <<history, finishes>>
vars == <<rows, messages, pc, req, clock, ghosts>>

(* The bodies the JSON schemas accept, cut down to what the row keeps. *)
Calls ==
    {c \in [kind: {"post"}, asked: Statuses, state: {None}]
           \union [kind: {"put"}, asked: Statuses \union {None}, state: PutStates]
           \union [kind: {"delete", "purge", "drop"}, asked: {None}, state: {None}] :
        c.kind \in Kinds}

NoRequest ==
    [kind |-> None, asked |-> None, state |-> None, at |-> 0, ifMatch |-> 0,
     recorded |-> None, seen |-> None, seenState |-> None, told |-> None,
     target |-> None, overlaps |-> FALSE]

Present == job.state # "purged"
InFlight == {r \in Requests : pc[r] \notin {"idle", "done", "crashed"}}
At(r, kind, label) == req[r].kind = kind /\ pc[r] = label
Goto(r, label) == pc' = [pc EXCEPT ![r] = label]
Done(r) == Goto(r, "done")

Init ==
    /\ job = [state |-> "active", status |-> "new", etag |-> 0]
    /\ jobstates = {}
    /\ events = {}
    /\ dispatched = {}
    /\ published = {}
    /\ pc = [r \in Requests |-> "idle"]
    /\ req = [r \in Requests |-> NoRequest]
    /\ clock = 1
    /\ history = {}
    /\ finishes = 0

(* A client has just read the job (its ETag) and sends its request.  The   *)
(* created_at of a POSTed jobstate is drawn here, before anything is read. *)
Arrive(r) ==
    /\ pc[r] = "idle"
    /\ Cardinality(InFlight) < Concurrency
    /\ \E c \in Calls :
         req' = [req EXCEPT ![r] =
                   [NoRequest EXCEPT !.kind = c.kind, !.asked = c.asked,
                                     !.state = c.state, !.at = clock,
                                     !.ifMatch = job.etag,
                                     !.overlaps = InFlight # {}]]
    /\ clock' = clock + 1
    /\ Goto(r, "read")
    /\ UNCHANGED <<rows, messages, ghosts>>

(* base.get_resource_orm answers 404, or an ObjectDeletedError, an         *)
(* IntegrityError or a StaleDataError ends the request: nothing is written.*)
Refuse(r) == Done(r) /\ UNCHANGED <<rows, messages, req, clock, ghosts>>

(* Variants named Bug... are mistakes a change of the code could make; no   *)
(* action uses them, the mutation runs put them in place of the original.  *)

BugInsertJobstateNotCommitted(r, status, at) == UNCHANGED <<jobstates, history>>

(* base.create_resource_orm, insert_jobstate: one insert, one commit.  The *)
(* foreign key refuses the row when the job is gone.                       *)
InsertJobstate(r, status, at) ==
    /\ jobstates' = jobstates \union {[by |-> r, status |-> status, at |-> at]}
    /\ history' = history
         \union {[by |-> r, asked |-> req[r].asked, status |-> status]}

BugWriteJobLosesStatus(status, state) ==
    /\ job' = [job EXCEPT !.state = state, !.etag = @ + 1]
    /\ UNCHANGED finishes

(* An ORM UPDATE of the row: onupdate draws a new etag, whatever changed.  *)
WriteJob(status, state) ==
    /\ job' = [state |-> state, status |-> status, etag |-> job.etag + 1]
    /\ finishes' = IF job.status \notin Final /\ status \in Final
                   THEN finishes + 1 ELSE finishes

BugCreateEventAsked(r, status) ==
    events' = events \union {[by |-> r, status |-> req[r].asked]}
BugCreateEventNotCommitted(r, status) == UNCHANGED events

(* jobs_events.create_event: jobs_events has no foreign key to jobs. *)
CreateEvent(r, status) ==
    events' = events \union {[by |-> r, status |-> status]}

-----------------------------------------------------------------------------
(* POST /jobstates: create_jobstates. *)

BugRecordedUnknown(asked, current) ==
    IF asked \in {"failure", "error"} /\ current \in Early THEN "failed" ELSE asked

(* A failure of a job that has not started is recorded as an error. *)
Recorded(asked, current) ==
    IF asked \in {"failure", "error"} /\ current \in Early THEN "error" ELSE asked

PostRead(r) ==
    /\ At(r, "post", "read")
    /\ \/ /\ job.state \in Live
          /\ req' = [req EXCEPT ![r].recorded = Recorded(req[r].asked, job.status)]
          /\ Goto(r, "insert")
          /\ UNCHANGED <<rows, messages, clock, ghosts>>
       \/ job.state \notin Live /\ Refuse(r)

PostInsert(r) ==
    /\ At(r, "post", "insert")
    /\ \/ /\ Present
          /\ InsertJobstate(r, req[r].recorded, req[r].at)
          /\ Goto(r, "reread")
          /\ UNCHANGED <<job, events, messages, req, clock, finishes>>
       \/ ~Present /\ Refuse(r)

(* The commit expired the job: is_job_final_state reads it again. *)
PostReread(r) ==
    /\ At(r, "post", "reread")
    /\ \/ /\ Present
          /\ req' = [req EXCEPT ![r].seen = job.status]
          /\ Goto(r, "write")
          /\ UNCHANGED <<rows, messages, clock, ghosts>>
       \/ ~Present /\ Refuse(r)

BugAnnouncesAlways(r) == req[r].asked \in Final
BugAnnouncesNever(r)  == FALSE

(* Only the request that saw the job unfinished announces its end. *)
Announces(r) == req[r].asked \in Final /\ req[r].seen \notin Final

(* The UPDATE holds the columns that differ from what was read: the status *)
(* is not among them when the request read the one it asks for.            *)
PostWrite(r) ==
    /\ At(r, "post", "write")
    /\ \/ /\ Present
          /\ WriteJob(IF req[r].asked # req[r].seen THEN req[r].asked ELSE job.status,
                      job.state)
          /\ Goto(r, IF Announces(r) THEN "serialize" ELSE "done")
          /\ UNCHANGED <<jobstates, events, messages, req, clock, history>>
       \/ ~Present /\ Refuse(r)

BugToldStale(r) == req[r].seen

(* The status the mail will give: the row's, at the time it is serialized. *)
Told(r) == job.status

(* serialize_job: a job archived since then is not found. *)
PostSerialize(r) ==
    /\ At(r, "post", "serialize")
    /\ \/ /\ job.state \in Live
          /\ req' = [req EXCEPT ![r].told = Told(r)]
          /\ Goto(r, "event")
          /\ UNCHANGED <<rows, messages, clock, ghosts>>
       \/ job.state \notin Live /\ Refuse(r)

PostEvent(r) ==
    /\ At(r, "post", "event")
    /\ CreateEvent(r, req[r].recorded)
    /\ Goto(r, "dispatch")
    /\ UNCHANGED <<job, jobstates, messages, req, clock, ghosts>>

(* notifications.job_dispatcher: building the dlrn message raises on some  *)
(* component data, and then nothing is sent.                               *)
PostDispatch(r) ==
    /\ At(r, "post", "dispatch")
    /\ \/ /\ dispatched' = dispatched \union {[by |-> r, status |-> req[r].told]}
          /\ Goto(r, "publish")
          /\ UNCHANGED <<rows, published, req, clock, ghosts>>
       \/ Refuse(r)

(* The job is read once more, archived or not, and published; a messaging  *)
(* error is logged and swallowed.                                          *)
PostPublish(r) ==
    /\ At(r, "post", "publish")
    /\ \/ /\ Present
          /\ published' = published \union {[by |-> r, status |-> job.status]}
          /\ Done(r)
          /\ UNCHANGED <<rows, dispatched, req, clock, ghosts>>
       \/ Refuse(r)

-----------------------------------------------------------------------------
(* PUT /jobs/<id>: update_job_by_id. *)

(* get_resource_orm with the If-Match etag, compared here and never later. *)
Found(r) == job.state \in Live /\ job.etag = req[r].ifMatch

PutRead(r) ==
    /\ At(r, "put", "read")
    /\ \/ /\ Found(r)
          /\ req' = [req EXCEPT ![r].seen = job.status, ![r].seenState = job.state]
          /\ Goto(r, IF req[r].asked \notin {None, job.status} THEN "insert" ELSE "write")
          /\ UNCHANGED <<rows, messages, clock, ghosts>>
       \/ ~Found(r) /\ Refuse(r)

PutInsert(r) ==
    /\ At(r, "put", "insert")
    /\ \/ /\ Present
          /\ InsertJobstate(r, req[r].asked, clock)
          /\ clock' = clock + 1
          /\ req' = [req EXCEPT ![r].recorded = req[r].asked]
          /\ Goto(r, IF req[r].asked \in Final THEN "event" ELSE "write")
          /\ UNCHANGED <<job, events, messages, finishes>>
       \/ ~Present /\ Refuse(r)

PutEvent(r) ==
    /\ At(r, "put", "event")
    /\ \/ /\ Present
          /\ CreateEvent(r, req[r].asked)
          /\ Goto(r, "write")
          /\ UNCHANGED <<job, jobstates, messages, req, clock, ghosts>>
       \/ ~Present /\ Refuse(r)

BugPutStatusUnchanged(r) == job.status
BugPutStateWholeRow(r)   == IF req[r].state # None THEN req[r].state
                                                   ELSE req[r].seenState

(* After a commit the job is expired and the UPDATE holds every column the *)
(* request gives; without one, only those that differ from what it read.   *)
Expired(r)   == req[r].recorded # None
PutStatus(r) == IF Expired(r) THEN req[r].asked ELSE job.status
PutState(r)  ==
    IF req[r].state # None /\ (Expired(r) \/ req[r].state # req[r].seenState)
    THEN req[r].state ELSE job.state

PutWrite(r) ==
    /\ At(r, "put", "write")
    /\ \/ /\ Present
          /\ WriteJob(PutStatus(r), PutState(r))
          /\ Done(r)
          /\ UNCHANGED <<jobstates, events, messages, req, clock, history>>
       \/ ~Present /\ Refuse(r)

-----------------------------------------------------------------------------
(* DELETE /jobs/<id>, POST /jobs/purge, DELETE /jobstates/<id>. *)

DeleteRead(r) ==
    /\ At(r, "delete", "read")
    /\ \/ /\ Found(r)
          /\ Goto(r, "write")
          /\ UNCHANGED <<rows, messages, req, clock, ghosts>>
       \/ ~Found(r) /\ Refuse(r)

DeleteWrite(r) ==
    /\ At(r, "delete", "write")
    /\ \/ /\ Present
          /\ WriteJob(job.status, "archived")
          /\ Done(r)
          /\ UNCHANGED <<jobstates, events, messages, req, clock, history>>
       \/ ~Present /\ Refuse(r)

(* The jobstates go with the row (ON DELETE CASCADE), the events stay. *)
Purge(r) ==
    /\ At(r, "purge", "read")
    /\ \/ /\ job.state = "archived"
          /\ job' = [job EXCEPT !.state = "purged"]
          /\ jobstates' = {}
          /\ Done(r)
          /\ UNCHANGED <<events, messages, req, clock, ghosts>>
       \/ job.state # "archived" /\ Refuse(r)

DropRead(r) ==
    /\ At(r, "drop", "read")
    /\ \/ /\ job.state \in Live
          /\ \E j \in jobstates : req' = [req EXCEPT ![r].target = j.by]
          /\ Goto(r, "write")
          /\ UNCHANGED <<rows, messages, clock, ghosts>>
       \/ (job.state \notin Live \/ jobstates = {}) /\ Refuse(r)

DropWrite(r) ==
    /\ At(r, "drop", "write")
    /\ jobstates' = {j \in jobstates : j.by # req[r].target}
    /\ Done(r)
    /\ UNCHANGED <<job, events, messages, req, clock, ghosts>>

-----------------------------------------------------------------------------
(* The worker process that serves the request dies: what it committed      *)
(* stays, the rest of the handler never runs.                              *)
Crash(r) ==
    /\ AllowCrash
    /\ r \in InFlight
    /\ Goto(r, "crashed")
    /\ UNCHANGED <<rows, messages, req, clock, ghosts>>

Post(r) == \/ PostRead(r) \/ PostInsert(r) \/ PostReread(r) \/ PostWrite(r)
           \/ PostSerialize(r) \/ PostEvent(r) \/ PostDispatch(r) \/ PostPublish(r)
Put(r) == PutRead(r) \/ PutInsert(r) \/ PutEvent(r) \/ PutWrite(r)
Remove(r) == DeleteRead(r) \/ DeleteWrite(r) \/ Purge(r) \/ DropRead(r) \/ DropWrite(r)
Serve(r) == Post(r) \/ Put(r) \/ Remove(r)

Next == \E r \in Requests : Arrive(r) \/ Serve(r) \/ Crash(r)

Spec == Init /\ [][Next]_vars

(* A worker goes on with the request it serves. *)
FairSpec == Spec /\ \A r \in Requests : WF_vars(Serve(r))

-----------------------------------------------------------------------------
Labels == {"idle", "read", "insert", "reread", "write", "serialize", "event",
           "dispatch", "publish", "done", "crashed"}
StatusOrNone == AllStatuses \union {None}

RequestRecord ==
    [kind: AllKinds \union {None}, asked: StatusOrNone,
     state: Live \union {"archived", None}, at: Nat, ifMatch: Nat,
     recorded: StatusOrNone, seen: StatusOrNone,
     seenState: Live \union {None}, told: StatusOrNone,
     target: Requests \union {None}, overlaps: BOOLEAN]

(* What each variable holds: rows and messages name the request that wrote *)
(* them, and a request keeps what it read (models2.Job, Jobstate, JobEvent).*)
TypeOK ==
    /\ job \in [state: Live \union {"archived", "purged"}, status: AllStatuses,
                etag: Nat]
    /\ jobstates \subseteq [by: Requests, status: AllStatuses, at: Nat]
    /\ events \subseteq [by: Requests, status: AllStatuses]
    /\ dispatched \subseteq [by: Requests, status: AllStatuses]
    /\ published \subseteq [by: Requests, status: AllStatuses]
    /\ pc \in [Requests -> Labels]
    /\ req \in [Requests -> RequestRecord]
    /\ clock \in Nat
    /\ history \subseteq [by: Requests, asked: AllStatuses, status: AllStatuses]
    /\ finishes \in Nat

(* jobs.status and the jobstates history are written by different commits: *)
(* whatever interleaves or dies, the row never shows a status nobody had   *)
(* recorded as a jobstate first (create_jobstates, update_job_by_id).      *)
StatusIsRecorded ==
    job.status = "new" \/ \E h \in history : h.asked = job.status

(* The feed never announces a final status that its own request had not    *)
(* made durable as a jobstate (create_event runs after the insert).        *)
EventIsRecorded ==
    \A e \in events : \E h \in history : h.by = e.by /\ h.status = e.status

(* No message leaves the server about an event a crash could still lose:   *)
(* mails and job_finished follow the committed event, in that order.       *)
MessagesFollowEvents ==
    /\ \A m \in dispatched : \E e \in events : e.by = m.by
    /\ \A m \in published : \E d \in dispatched : d.by = m.by

(* An agent's POST announces the end of a job only once the row has really *)
(* been final, even when a concurrent request moves it on at once.         *)
AnnouncedOnlyAfterFinish ==
    (\E e \in events : req[e.by].kind = "post") => finishes > 0

(* A deleted job stays deleted whatever requests were in flight when it    *)
(* was: an UPDATE writes the columns it changes, never the whole row.  A   *)
(* PUT that itself carries a state and read the row before the deletion is *)
(* the exception (see the README), so concurrent runs send none.           *)
ArchivedIsForGood ==
    [][/\ job.state = "archived" => job'.state \in {"archived", "purged"}
       /\ job.state = "purged" => job'.state = "purged"]_vars

(* "Notification should be sent just one time": one dispatch each time the *)
(* job goes from running to finished (is_job_final_state).                 *)
NotifiedOnce == Cardinality(dispatched) <= finishes

(* No request arrived while another was being served. *)
OneByOne == \A r \in Requests : ~req[r].overlaps

(* Agents that wait for each answer are notified just once.             *)
NotifiedOnceOneByOne == OneByOne => NotifiedOnce

(* The three places that tell the end of a job tell the same end: the feed *)
(* and the mail differ only for an early failure, an error in the feed.    *)
MessageMatchesEvent ==
    OneByOne =>
        \A m \in dispatched, e \in events :
            m.by = e.by => \/ m.status = e.status
                           \/ m.status = "failure" /\ e.status = "error"

(* No request is being served and none has died or overlapped another. *)
Quiet == OneByOne /\ \A r \in Requests : pc[r] \in {"idle", "done"}

(* Between requests, the row shows the status of the jobstate the API      *)
(* lists last (Job.jobstates is ordered by created_at), early failures     *)
(* excepted, and no time the job finished is missing from the feed.        *)
QuietAgreement ==
    Quiet =>
        /\ \A j \in jobstates :
             (\A k \in jobstates : k.at <= j.at) =>
                 \/ j.status = job.status
                 \/ j.status = "error" /\ job.status = "failure"
        /\ finishes <= Cardinality(events)

(* A job that finished reaches the feed, unless it is deleted first: some  *)
(* request saw it running and its create_event runs in the end.            *)
FinalIsAnnounced ==
    job.status \in Final ~> (events # {} \/ job.state \in {"archived", "purged"})
=============================================================================
