-------------------------- MODULE ConditionalUpdate --------------------------
(***************************************************************************)
(* Updates and deletions of one row under an If-Match header.  The API has *)
(* two protocols for them:                                                 *)
(*   - teams, users and the deletion of products issue one UPDATE whose    *)
(*     WHERE clause holds the etag (compare and set);                      *)
(*   - jobs, topics, remotecis, feeders, pipelines, components and the     *)
(*     update of products load the row with that etag, then write it back  *)
(*     by primary key (read, check, write).                                *)
(* Both are refined, or not, to EtagContract.                              *)
(***************************************************************************)
EXTENDS Integers, Sequences, FiniteSets

CONSTANTS
    Clients,        \* each has one request in flight at most
    Columns,        \* the columns a PUT may give
    Handlers,       \* the handlers the clients call
    PutStates,      \* what the bodies of PUTs say of the state column
    MaxVersion,     \* bound on the versions of the row
    Concurrency,    \* how many requests are served at the same time
    Overlapping,    \* the handlers whose requests may overlap
    AllowCrash      \* whether a worker may die while it serves a request

CasPuts  == {"put_team", "put_user", "put_current_user", "put_identity"}
Cas      == CasPuts \union {"delete_cas"}
Orm      == {"put_orm", "delete_orm"}
Deletes  == {"delete_cas", "delete_orm"}
SelfPuts == {"put_current_user", "put_identity"}
States   == {"active", "inactive", "archived"}

ASSUME HandlersAssumption == Handlers \subseteq Cas \union Orm
ASSUME PutStatesAssumption == PutStates \subseteq States \union {"none"}
ASSUME MaxVersionAssumption == MaxVersion \in Nat
ASSUME ConcurrencyAssumption == Concurrency \in Nat \ {0}
ASSUME OverlappingAssumption == Overlapping \subseteq Handlers
ASSUME AllowCrashAssumption == AllowCrash \in BOOLEAN

VARIABLES
    row,        \* etag, state, and for each column the version that set it
    known,      \* the etag each client last got, from a GET or an answer
    pc,         \* the next round trip of each client's request
    req,        \* what each request carries and has read
    log,        \* ghost: the changes made to the row
    acked       \* ghost: the updates a client was told have succeeded

vars == <<row, known, pc, req, log, acked>>

(* No etag, or one that no row has: what put_identity may answer. *)
Unstored == -1

Busy == {c \in Clients : pc[c] # "idle"}
Handles(c, handlers, label) == req[c].handler \in handlers /\ pc[c] = label
Goto(c, label) == pc' = [pc EXCEPT ![c] = label]

NoRequest == [handler |-> "none", given |-> {}, state |-> "none", seen |-> "none",
              read |-> [k \in Columns |-> 0]]

(* The request is over: its session and what it read are gone. *)
End(c) == Goto(c, "idle") /\ req' = [req EXCEPT ![c] = NoRequest]
Answer(c, etag) == End(c) /\ known' = [known EXCEPT ![c] = etag]

Init ==
    /\ row = [etag |-> 0, state |-> "active", cols |-> [k \in Columns |-> 0]]
    /\ known = [c \in Clients |-> Unstored]
    /\ pc = [c \in Clients |-> "idle"]
    /\ req = [c \in Clients |-> NoRequest]
    /\ log = <<>>
    /\ acked = {}

(* GET /<resources>/<id>: the ETag header of a row that is not archived. *)
Get(c) ==
    /\ pc[c] = "idle" /\ row.state # "archived" /\ known[c] # row.etag
    /\ known' = [known EXCEPT ![c] = row.etag]
    /\ UNCHANGED <<row, pc, req, log, acked>>

(* Variants named Bug... are mistakes a change of the code could make; no   *)
(* action uses them, the mutation runs put them in place of the original.  *)

BugAuthenticatedNever(h) == [k \in Columns |-> 0]

(* Authentication loads the caller's own row; users/me falls back on it.   *)
Authenticated(h) == row.cols

(* What a request asks of the state column: a deletion archives, the schema *)
(* of users/me and identity has no state, the other PUTs may give one.     *)
StatesAsked(h) ==
    IF h \in Deletes THEN {"archived"} ELSE IF h \in SelfPuts THEN {"none"} ELSE PutStates

(* The request arrives with the etag its client knows; users and identity  *)
(* go straight to the UPDATE, the others look the resource up first.       *)
Send(c) ==
    /\ pc[c] = "idle" /\ known[c] # Unstored
    /\ row.etag < MaxVersion
    /\ Cardinality(Busy) < Concurrency
    /\ \E h \in Handlers : \E given \in SUBSET Columns, asked \in StatesAsked(h) :
         /\ Busy = {} \/ {h} \union {req[d].handler : d \in Busy} \subseteq Overlapping
         /\ h \in Deletes => given = {}
         /\ h \in SelfPuts => row.state = "active"
         /\ req' = [req EXCEPT ![c] = [handler |-> h, given |-> given,
                                      state |-> asked, seen |-> "none",
                                      read |-> Authenticated(h)]]
         /\ Goto(c, IF h \in {"put_team", "delete_cas"} \union Orm
                    THEN "check" ELSE "write")
    /\ UNCHANGED <<row, known, log, acked>>

(* 404 and 409: the client keeps its etag and nothing is written. *)
Refuse(c) == End(c) /\ UNCHANGED <<row, known, log, acked>>

(* Columns a PUT sets: those given and, under users/me, all the others     *)
(* with the values authentication read.                                    *)
NewColumns(c) ==
    [k \in Columns |->
        CASE k \in req[c].given                -> row.etag + 1
          [] req[c].handler \in SelfPuts       -> req[c].read[k]
          [] OTHER                             -> row.cols[k]]

(* The ORM leaves out of the UPDATE a column whose value did not change     *)
(* since the row was loaded; Query.update writes all that was given.       *)
NewState(c) ==
    IF req[c].state \in {"none", req[c].seen} THEN row.state ELSE req[c].state

(* Every UPDATE draws a new etag (given, or onupdate=gen_etag). *)
Apply(c) ==
    /\ row' = [etag  |-> row.etag + 1,
               state |-> NewState(c),
               cols  |-> NewColumns(c)]
    /\ log' = Append(log, [by |-> c, base |-> known[c], etag |-> row.etag + 1])
    /\ Goto(c, "answer")

-----------------------------------------------------------------------------
(* put_team, put_user, put_current_user, put_identity, delete_team_by_id,  *)
(* delete_user_by_id, delete_product_by_id.                                *)

CasCheck(c) ==
    /\ Handles(c, {"put_team", "delete_cas"}, "check")
    /\ \/ /\ row.state # "archived"
          /\ Goto(c, "write")
          /\ UNCHANGED <<row, known, req, log, acked>>
       \/ row.state = "archived" /\ Refuse(c)

BugMatchesAlways(c) == TRUE

(* The WHERE clause of the UPDATE. *)
Matches(c) == row.etag = known[c]

BugChecksRowsNot(c) == req[c].handler \notin {"put_identity", "put_user"}

(* put_identity does not look at the number of updated rows. *)
ChecksRows(c) == req[c].handler # "put_identity"

CasWrite(c) ==
    /\ Handles(c, Cas, "write")
    /\ \/ Matches(c) /\ Apply(c) /\ UNCHANGED <<known, req, acked>>
       \/ /\ ~Matches(c)
          /\ ~ChecksRows(c)
          /\ Goto(c, "unsaved")
          /\ UNCHANGED <<row, known, req, log, acked>>
       \/ ~Matches(c) /\ ChecksRows(c) /\ Refuse(c)

(* The etag a PUT answers is the one it drew, not one it reads back. Only  *)
(* put_identity reads the user again with a filter on the state.           *)
OwnVersion(c) == (CHOOSE i \in DOMAIN log :
                    log[i].by = c /\ \A j \in DOMAIN log : log[j].by = c => j <= i)

Acknowledge(c) ==
    acked' = acked \union {[by |-> c, base |-> known[c], handler |-> req[c].handler]}

ReadsBack(c) == req[c].handler = "put_identity" => row.state # "archived"

CasAnswer(c) ==
    /\ Handles(c, Cas, "answer")
    /\ \/ /\ req[c].handler \in Deletes
          /\ End(c) /\ UNCHANGED known
          /\ Acknowledge(c)
       \/ /\ req[c].handler \notin Deletes /\ ReadsBack(c)
          /\ Answer(c, log[OwnVersion(c)].etag)
          /\ Acknowledge(c)
       \/ /\ ~ReadsBack(c)
          /\ End(c) /\ UNCHANGED <<known, acked>>
    /\ UNCHANGED <<row, log>>

(* put_identity answers 200 with an etag that was never stored, unless the *)
(* user is gone.                                                           *)
CasUnsaved(c) ==
    /\ Handles(c, Cas, "unsaved")
    /\ \/ /\ ReadsBack(c)
          /\ Answer(c, Unstored)
          /\ Acknowledge(c)
          /\ UNCHANGED <<row, log>>
       \/ ~ReadsBack(c) /\ Refuse(c)

-----------------------------------------------------------------------------
(* base.get_resource_orm(table, id, etag), then base.update_resource_orm.  *)

Found(c) == row.state # "archived" /\ Matches(c)

OrmCheck(c) ==
    /\ Handles(c, Orm, "check")
    /\ \/ /\ Found(c)
          /\ Goto(c, "write")
          /\ req' = [req EXCEPT ![c].seen = row.state]
          /\ UNCHANGED <<row, known, log, acked>>
       \/ ~Found(c) /\ Refuse(c)

OrmWrite(c) ==
    /\ Handles(c, Orm, "write")
    /\ Apply(c)
    /\ UNCHANGED <<known, req, acked>>

(* The answer of a PUT is the row read back: 404 once it is archived. *)
OrmAnswer(c) ==
    /\ Handles(c, Orm, "answer")
    /\ \/ /\ req[c].handler \in Deletes
          /\ End(c) /\ UNCHANGED known
          /\ Acknowledge(c)
       \/ /\ req[c].handler \notin Deletes /\ row.state # "archived"
          /\ Answer(c, row.etag)
          /\ Acknowledge(c)
       \/ /\ req[c].handler \notin Deletes /\ row.state = "archived"
          /\ End(c) /\ UNCHANGED <<known, acked>>
    /\ UNCHANGED <<row, log>>

-----------------------------------------------------------------------------
Crash(c) ==
    /\ AllowCrash /\ c \in Busy
    /\ Refuse(c)

Next == \E c \in Clients :
    \/ Get(c) \/ Send(c) \/ Crash(c)
    \/ CasCheck(c) \/ CasWrite(c) \/ CasAnswer(c) \/ CasUnsaved(c)
    \/ OrmCheck(c) \/ OrmWrite(c) \/ OrmAnswer(c)

Spec == Init /\ [][Next]_vars

-----------------------------------------------------------------------------
Changes == [by: Clients, base: Int, etag: Nat]
Acks == [by: Clients, base: Int, handler: Cas \union Orm]

(* A row, the etags the clients hold and the requests in flight. *)
TypeOK ==
    /\ row \in [etag: Nat, state: States, cols: [Columns -> Nat]]
    /\ known \in [Clients -> Nat \union {Unstored}]
    /\ pc \in [Clients -> {"idle", "check", "write", "answer", "unsaved"}]
    /\ req \in [Clients -> [handler: Cas \union Orm \union {"none"},
                            given: SUBSET Columns, state: States \union {"none"},
                            seen: States \union {"none"},
                            read: [Columns -> Nat]]]
    /\ log \in Seq(Changes)
    /\ acked \subseteq Acks

Contract == INSTANCE EtagContract WITH version <- row.etag

(* The promise of docs/API.md: no request changes, or deletes, a version   *)
(* its client has not read.                                                *)
EtagIsHonoured == Contract!Spec

(* The same promise as a state predicate on the log: the version a change  *)
(* replaced is the one its client named in If-Match.                       *)
ChangedWhatWasRead ==
    \A i \in DOMAIN log : log[i].etag = log[i].base + 1

(* A 200 means the update was made: every acknowledged request is in the   *)
(* log, naming the etag its client sent.  put_identity is the exception:   *)
(* it answers 200 to an etag that matches no row (CasUnsaved).             *)
AckedIsApplied ==
    \A a \in acked : a.handler # "put_identity" =>
        \E i \in DOMAIN log : log[i].by = a.by /\ log[i].base = a.base

(* No column goes back to an older value: the values users/me falls back   *)
(* on, read at authentication, are still the row's when they are written.  *)
ColumnsMoveForward ==
    [][\A k \in Columns : row'.cols[k] >= row.cols[k]]_vars
=============================================================================
