----------------------------- MODULE EventsFeed -----------------------------
(* The feed of the events of finished jobs (dci/api/v1/jobs_events.py): the *)
(* rows that requests insert, the counter of the consumers, and consumers   *)
(* that follow the feed as its API and its tests use it: read the counter,  *)
(* read one page of events from there in the order of their ids, handle     *)
(* them, and put the counter after the last one with the etag they read.    *)
(* Ids are drawn by the INSERT and seen at the COMMIT of the transaction.   *)
EXTENDS Naturals, Sequences, FiniteSets

CONSTANTS
  Consumers,
  Jobs,
  Limit,       \* events a page holds
  MaxEvents,   \* bound: events inserted
  MaxFaults    \* bound: jobs purged, purges of the feed, restarts of consumers

ASSUME LimitAssumption == Limit \in Nat \ {0}

VARIABLES
  events,    \* the event of every id drawn so far
  jobs,      \* the jobs that are not purged
  counter,   \* the row `jobs_events` of the table counter; etag 0: no row
  reader,    \* what each consumer does, and what it was answered
  put,       \* the PUT of the counter each consumer has in the server
  handled,   \* the ids some consumer handled
  faults     \* how many of these there were

vars == <<events, jobs, counter, reader, put, handled, faults>>

Ids == DOMAIN events
NoPut == [stage |-> "none", etag |-> 0, sequence |-> 0, overlapped |-> FALSE]
Idle == [at |-> "idle", etag |-> 0, sequence |-> 0, page |-> {}]

-----------------------------------------------------------------------------
Init ==
  /\ events = <<>>
  /\ jobs = Jobs
  /\ counter = [sequence |-> 0, etag |-> 0]
  /\ reader = [c \in Consumers |-> Idle]
  /\ put = [c \in Consumers |-> NoPut]
  /\ handled = {}
  /\ faults = 0

(* create_event: the INSERT of a request that finishes job j draws the next *)
(* id, and the request commits later, or it fails and the id is lost.       *)
CreateEvent(j) ==
  /\ j \in jobs
  /\ Len(events) < MaxEvents
  /\ events' = Append(events, [job |-> j, stage |-> "open", overtaken |-> FALSE])
  /\ UNCHANGED <<jobs, counter, reader, put, handled, faults>>

(* A consumer may have read past an id whose transaction is still open: the *)
(* event is overtaken when a later one was seen first.                      *)
Overtaken(e) == \E later \in Ids : later > e /\ events[later].stage \in {"seen", "purged"}

CommitEvent(e) ==
  /\ events[e].stage = "open"
  /\ events' = [events EXCEPT ![e].stage = "seen", ![e].overtaken = Overtaken(e)]
  /\ UNCHANGED <<jobs, counter, reader, put, handled, faults>>

LoseEvent(e) ==
  /\ events[e].stage = "open"
  /\ events' = [events EXCEPT ![e].stage = "lost"]
  /\ UNCHANGED <<jobs, counter, reader, put, handled, faults>>

(* The job is archived and purged; nothing links its events to it but the   *)
(* join of the feed.                                                        *)
PurgeJob(j) ==
  /\ j \in jobs
  /\ faults < MaxFaults
  /\ faults' = faults + 1
  /\ jobs' = jobs \ {j}
  /\ UNCHANGED <<events, counter, reader, put, handled>>

purge_jobs_events_from_sequence(sequence) ==
  /\ faults < MaxFaults
  /\ events' = [e \in Ids |-> IF e >= sequence /\ events[e].stage = "seen"
                              THEN [events[e] EXCEPT !.stage = "purged"] ELSE events[e]]
  /\ faults' = faults + 1
  /\ UNCHANGED <<jobs, counter, reader, put, handled>>

-----------------------------------------------------------------------------
(* Variants named Bug... are mistakes a change of the code could make; no   *)
(* action uses them, the mutation runs put them in place of the original.   *)

Token(c) == [Idle EXCEPT !.at = "read", !.etag = counter.etag,
                         !.sequence = counter.sequence]

(* get_current_sequence: the first reader finds no counter.                 *)
GetSequence(c) ==
  /\ reader[c].at = "idle"
  /\ reader' = [reader EXCEPT ![c] = IF counter.etag = 0
                                     THEN [Idle EXCEPT !.at = "creating"] ELSE Token(c)]
  /\ UNCHANGED <<events, jobs, counter, put, handled, faults>>

(* create_sequence: the name is the primary key, so the second of two first *)
(* readers is refused with 409. Both read the counter next.                 *)
CreateSequence(c) ==
  /\ reader[c].at = "creating"
  /\ \/ /\ counter.etag = 0
        /\ counter' = [sequence |-> 0, etag |-> 1]
     \/ /\ counter.etag # 0
        /\ UNCHANGED counter
  /\ reader' = [reader EXCEPT ![c] = Idle]
  /\ UNCHANGED <<events, jobs, put, handled, faults>>

(* get_jobs_events_from_sequence, sorted by id.                             *)
BugVisible(sequence) ==
  {e \in Ids : e > sequence /\ events[e].stage = "seen" /\ events[e].job \in jobs}

Visible(sequence) ==
  {e \in Ids : e >= sequence /\ events[e].stage = "seen" /\ events[e].job \in jobs}

BugPage(sequence) ==
  {e \in Visible(sequence) : Cardinality({f \in Visible(sequence) : f > e}) < Limit}

Page(sequence) ==
  {e \in Visible(sequence) : Cardinality({f \in Visible(sequence) : f < e}) < Limit}

GetEvents(c) ==
  LET page == Page(reader[c].sequence)
  IN  /\ reader[c].at = "read"
      /\ reader' = [reader EXCEPT ![c] =
           IF page = {} THEN Idle ELSE [reader[c] EXCEPT !.at = "handling", !.page = page]]
      /\ UNCHANGED <<events, jobs, counter, put, handled, faults>>

(* The consumer handles the page, then asks to put the counter after it.    *)
Handle(c) ==
  /\ reader[c].at = "handling"
  /\ put[c].stage = "none"
  /\ handled' = handled \cup reader[c].page
  /\ \E last \in reader[c].page :
       /\ \A e \in reader[c].page : e <= last
       /\ put' = [put EXCEPT ![c] = [stage |-> "asked", etag |-> reader[c].etag,
                                     sequence |-> last + 1, overlapped |-> FALSE]]
  /\ reader' = [reader EXCEPT ![c] = [Idle EXCEPT !.at = "waiting"]]
  /\ UNCHANGED <<events, jobs, counter, faults>>

(* A consumer that waits for an answer stops waiting when there is one.     *)
Answered(c) ==
  [reader EXCEPT ![c] = IF reader[c].at = "waiting" THEN Idle ELSE reader[c]]

BugPutSelect(c) ==
  /\ put[c].stage = "asked"
  /\ put' = [put EXCEPT ![c].stage = "checked"]
  /\ UNCHANGED <<events, jobs, counter, reader, handled, faults>>

(* put_current_sequence: the SELECT by etag, 409 when it finds no counter.  *)
PutSelect(c) ==
  /\ put[c].stage = "asked"
  /\ \/ /\ put[c].etag = counter.etag
        /\ put' = [put EXCEPT ![c].stage = "checked", ![c].etag = 0]
        /\ UNCHANGED reader
     \/ /\ put[c].etag # counter.etag
        /\ put' = [put EXCEPT ![c] = NoPut]
        /\ reader' = Answered(c)
  /\ UNCHANGED <<events, jobs, counter, handled, faults>>

(* The UPDATE, by primary key: it overlaps the PUTs that are checked.       *)
PutUpdate(c) ==
  /\ put[c].stage = "checked"
  /\ counter' = [sequence |-> put[c].sequence, etag |-> counter.etag + 1]
  /\ put' = [d \in Consumers |->
               IF d = c THEN NoPut
               ELSE IF put[d].stage = "checked" THEN [put[d] EXCEPT !.overlapped = TRUE]
               ELSE put[d]]
  /\ reader' = Answered(c)
  /\ UNCHANGED <<events, jobs, handled, faults>>

(* The consumer restarts or gives up on its request; a PUT it sent goes on. *)
Restart(c) ==
  /\ reader[c].at # "idle"
  /\ faults < MaxFaults
  /\ faults' = faults + 1
  /\ reader' = [reader EXCEPT ![c] = Idle]
  /\ UNCHANGED <<events, jobs, counter, put, handled>>

-----------------------------------------------------------------------------
Read(c) == GetSequence(c) \/ CreateSequence(c) \/ GetEvents(c) \/ Handle(c)
Put(c) == PutSelect(c) \/ PutUpdate(c)

Next ==
  \/ \E j \in Jobs : CreateEvent(j) \/ PurgeJob(j)
  \/ \E e \in Ids : CommitEvent(e) \/ LoseEvent(e)
  \/ \E sequence \in Ids : purge_jobs_events_from_sequence(sequence)
  \/ \E c \in Consumers : Read(c) \/ Put(c) \/ Restart(c)

Spec == Init /\ [][Next]_vars

(* Consumers poll for ever, and the server goes on with the PUTs it checks; *)
(* nothing is assumed of the transactions that insert events.               *)
FairSpec == Spec /\ \A c \in Consumers : WF_vars(Read(c)) /\ WF_vars(Put(c))

-----------------------------------------------------------------------------
TypeOK ==
  /\ events \in Seq([job : Jobs, stage : {"open", "seen", "lost", "purged"},
                     overtaken : BOOLEAN])
  /\ jobs \subseteq Jobs
  /\ counter \in [sequence : Nat, etag : Nat]
  /\ reader \in [Consumers ->
       [at : {"idle", "creating", "read", "handling", "waiting"},
        etag : 0..counter.etag, sequence : Nat, page : SUBSET Ids]]
  /\ \A c \in Consumers : reader[c].at = "read" => reader[c].etag # 0
  /\ put \in [Consumers -> [stage : {"none", "asked", "checked"}, etag : Nat,
                            sequence : Nat, overlapped : BOOLEAN]]
  /\ handled \subseteq Ids
  /\ faults \in Nat

(* What happened to an event the counter is past: it was handled, it or its *)
(* job is gone, its transaction failed, or it was overtaken by a later one  *)
(* that committed first, which is the one way to miss an event.             *)
Accounted(e) ==
  \/ e \in handled
  \/ events[e].stage \in {"lost", "purged"}
  \/ events[e].job \notin jobs
  \/ events[e].stage = "seen" /\ events[e].overtaken
  \/ events[e].stage = "open" /\ Overtaken(e)

(* The consumers miss no event but those that were overtaken, however their *)
(* reads, their PUTs of the counter, restarts and purges interleave         *)
(* (get_jobs_events_from_sequence, put_current_sequence).                   *)
NoEventSkipped == \A e \in Ids : e < counter.sequence => Accounted(e)

(* put_current_sequence compares the etag in its SELECT and writes by       *)
(* primary key: the counter goes back only when a PUT wrote after another   *)
(* one did between its SELECT and its UPDATE. A first read never resets it. *)
MovesBackOnlyOnOverlap ==
  [][counter'.sequence < counter.sequence =>
       \E c \in Consumers : put[c].overlapped /\ put'[c] = NoPut]_vars

(* Whatever PUTs are refused or overlap, an event that was seen in order is *)
(* handled in the end, or it or its job is purged.                          *)
Due(e) ==
  /\ e \in Ids \ handled
  /\ events[e].stage = "seen" /\ ~events[e].overtaken /\ events[e].job \in jobs
EventuallyHandled == \A e \in 1..MaxEvents : Due(e) ~> ~Due(e)
=============================================================================
