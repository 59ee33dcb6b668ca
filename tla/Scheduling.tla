----------------------------- MODULE Scheduling -----------------------------
(***************************************************************************)
(* How a job gets its components (internal_create_jobs, _build_job and the *)
(* update/upgrade handlers of jobs.py; the selection in components.py),    *)
(* while feeders publish, deactivate and delete components.                *)
(*                                                                         *)
(* The components are chosen by one query per component type, the job row  *)
(* is committed before any component is attached, it is read again, and     *)
(* each component is looked up again and attached in a commit of its own,  *)
(* while anyone who sees the job may add components to it or remove some,  *)
(* and the job itself may be deleted.                                      *)
(***************************************************************************)
EXTENDS Integers, Sequences, FiniteSets

CONSTANTS
    Requests,       \* the requests that create a job of one remoteci and topic
    Kinds,          \* the handlers they call
    Components,     \* the components of the topic
    TypeOf,         \* the type of each component
    ComponentTypes, \* topic.component_types, a sequence
    Existing,       \* the components there from the start, oldest first
    TeamOwned,      \* the components that belong to a team
    Forbidden,      \* those of them the remoteci has no access to
    GivenIds,       \* the lists of component ids a request may give
    MaxChanges,     \* bound: what others do to the components, remoteci, topic and jobs
    AllowCrash      \* whether a worker may die while it serves a request

AllKinds == {"schedule", "create", "update", "upgrade"}

ASSUME KindsAssumption == Kinds \subseteq AllKinds
ASSUME TypeOfAssumption == Components = DOMAIN TypeOf
ASSUME ComponentTypesAssumption == ComponentTypes \in Seq({TypeOf[c] : c \in Components})
ASSUME ExistingAssumption == Existing \in Seq(Components)
ASSUME TeamAssumption == Forbidden \subseteq TeamOwned /\ TeamOwned \subseteq Components
ASSUME GivenAssumption == GivenIds \subseteq Seq(Components)
ASSUME MaxChangesAssumption == MaxChanges \in Nat
ASSUME AllowCrashAssumption == AllowCrash \in BOOLEAN

VARIABLES
    components,     \* the state of each component, "none" before it is created
    created,        \* the components in the order of their created_at
    remoteci,       \* the state of the remoteci
    topic,          \* the state of the topic
    jobs,           \* the requests whose job is stored
    archived,       \* those whose job is archived
    attached,       \* jobs_components: the components of each job
    started,        \* the jobs a job_started message was published for
    pc,             \* the next step of each request
    req,            \* its kind, the ids it gives, the components it chose, and
                    \* which of them is to be attached next
    fresh,          \* ghost: what was the latest of its type since it arrived
    deleted,        \* ghost: the components that were archived once
    withdrawn,      \* ghost: the requests whose job was archived once
    added, removed, \* ghosts: what others did to the components of a job
    changes         \* how many things others did

admin == <<components, created, remoteci, topic, archived, deleted, withdrawn, added, removed,
           changes>>
vars == <<admin, jobs, attached, started, pc, req, fresh>>

Ended == {"idle", "answered", "refused", "crashed"}
InFlight == {r \in Requests : pc[r] \notin Ended}
Goto(r, label) == pc' = [pc EXCEPT ![r] = label]
Handles(r, kinds, label) == req[r].kind \in kinds /\ pc[r] = label

NoRequest == [kind |-> "none", given |-> <<>>, chosen |-> <<>>, next |-> 1]
Chosen(r) == {req[r].chosen[i] : i \in DOMAIN req[r].chosen}

(* The active public components of a type, and the one created last.       *)
Candidates(type, states) ==
    {i \in DOMAIN created : /\ TypeOf[created[i]] = type
                            /\ created[i] \notin TeamOwned
                            /\ states[created[i]] = "active"}
Latest(type, states) ==
    LET S == Candidates(type, states)
    IN  {created[i] : i \in {k \in S : \A j \in S : j <= k}}

Init ==
    /\ components = [c \in Components |->
                       IF \E i \in DOMAIN Existing : Existing[i] = c
                       THEN "active" ELSE "none"]
    /\ created = Existing
    /\ remoteci = "active"
    /\ topic = "active"
    /\ jobs = {} /\ archived = {} /\ withdrawn = {}
    /\ attached = [r \in Requests |-> {}]
    /\ started = {}
    /\ pc = [r \in Requests |-> "idle"]
    /\ req = [r \in Requests |-> NoRequest]
    /\ fresh = [r \in Requests |-> {}]
    /\ deleted = {}
    /\ added = [r \in Requests |-> {}] /\ removed = [r \in Requests |-> {}]
    /\ changes = 0

-----------------------------------------------------------------------------
(* Feeders and administrators: create_components, update_components and    *)
(* delete_component_by_id; put_remoteci and put_topic for their state.     *)

(* Ghost: a request in flight may choose whatever is the latest from now.  *)
Refresh(states, order) ==
    fresh' = [r \in Requests |->
                IF r \notin InFlight THEN fresh[r]
                ELSE fresh[r] \union
                     {c \in Components :
                        /\ states[c] = "active" /\ c \notin TeamOwned
                        /\ \E i \in DOMAIN order :
                             /\ order[i] = c
                             /\ \A j \in DOMAIN order :
                                  /\ TypeOf[order[j]] = TypeOf[c]
                                  /\ order[j] \notin TeamOwned
                                  /\ states[order[j]] = "active"
                                  => j <= i}]

Change == changes < MaxChanges /\ changes' = changes + 1

CreateComponent(c) ==
    /\ components[c] = "none"
    /\ components' = [components EXCEPT ![c] = "active"]
    /\ created' = Append(created, c)
    /\ Refresh(components', created')
    /\ UNCHANGED <<remoteci, topic, jobs, archived, withdrawn, attached, started, pc, req, deleted,
                   added, removed>>

(* A PUT that read a component before it was deleted, and that names a      *)
(* state, writes it after: an archived component may come back.             *)
UpdateComponent(c) ==
    /\ components[c] # "none"
    /\ \E s \in {"active", "inactive", "archived"} \ {components[c]} :
         /\ components' = [components EXCEPT ![c] = s]
         /\ deleted' = IF s = "archived" THEN deleted \union {c} ELSE deleted
    /\ Refresh(components', created)
    /\ UNCHANGED <<created, remoteci, topic, jobs, archived, withdrawn, attached, started, pc, req,
                   added, removed>>

(* Variants named Bug... are mistakes a change of the code could make; no   *)
(* action uses them, the mutation runs put them in place of the original.  *)

Toggle(state) == IF state = "active" THEN "inactive" ELSE "active"
ToggleRemoteci ==
    /\ remoteci' = Toggle(remoteci)
    /\ UNCHANGED <<components, created, topic, jobs, archived, withdrawn, attached, started, pc,
                   req, fresh, deleted, added, removed>>
ToggleTopic ==
    /\ topic' = Toggle(topic)
    /\ UNCHANGED <<components, created, remoteci, jobs, archived, withdrawn, attached, started,
                   pc, req, fresh, deleted, added, removed>>

(* DELETE /jobs/<id>, of its remoteci or of its team, or a PUT that names   *)
(* the state; a PUT that read the job before it was archived may bring it   *)
(* back. A job whose POST gives the state archived is stored, then archived.*)
ArchiveJob(r) ==
    /\ r \in jobs
    /\ \/ /\ r \notin archived
          /\ archived' = archived \union {r}
          /\ withdrawn' = withdrawn \union {r}
       \/ /\ r \in archived
          /\ archived' = archived \ {r}
          /\ UNCHANGED withdrawn
    /\ UNCHANGED <<components, created, remoteci, topic, jobs, attached, started, pc, req, fresh,
                   deleted, added, removed>>

(* POST and DELETE /jobs/<id>/components, by anyone who sees the job in the *)
(* list from the moment it is stored. Each is one transaction; what it read *)
(* before decides only between a success and an error.                      *)
AddComponentToJob(r, c) ==
    /\ r \in jobs \ archived /\ components[c] \in {"active", "inactive"}
    /\ c \notin attached[r]
    /\ attached' = [attached EXCEPT ![r] = @ \union {c}]
    /\ added' = [added EXCEPT ![r] = @ \union {c}]
    /\ UNCHANGED <<components, created, remoteci, topic, jobs, archived, withdrawn, started, pc,
                   req, fresh, deleted, removed>>

RemoveComponentFromJob(r, c) ==
    /\ r \in jobs \ archived /\ components[c] \in {"active", "inactive"}
    /\ c \in attached[r]
    /\ attached' = [attached EXCEPT ![r] = @ \ {c}]
    /\ removed' = [removed EXCEPT ![r] = @ \union {c}]
    /\ UNCHANGED <<components, created, remoteci, topic, jobs, archived, withdrawn, started, pc,
                   req, fresh, deleted, added>>

-----------------------------------------------------------------------------
(* POST /jobs/schedule, POST /jobs, POST /jobs/<id>/update, /jobs/upgrade. *)
(* A request that is refused whatever the state (its caller, an access to   *)
(* the topic, a previous job that is not there) changes nothing.            *)

Arrive(r) ==
    /\ pc[r] = "idle"
    /\ \E kind \in Kinds, given \in GivenIds :
         /\ kind \in {"update", "upgrade"} => given = <<>>
         /\ req' = [req EXCEPT ![r] = [kind |-> kind, given |-> given, chosen |-> <<>>, next |-> 1]]
    /\ Goto(r, "check")
    /\ fresh' = [fresh EXCEPT ![r] =
                   UNION {Latest(TypeOf[c], components) : c \in Components}]
    /\ UNCHANGED <<admin, jobs, attached, started>>

Refuse(r) ==
    Goto(r, "refused") /\ UNCHANGED <<admin, jobs, attached, started, req, fresh>>

(* An inactive remoteci or topic refuses a job, but not an update or an    *)
(* upgrade: those only need rows that are not archived.                    *)
Accepted(r) ==
    req[r].kind \in {"schedule", "create"} => remoteci = "active" /\ topic = "active"

CheckRequest(r) ==
    /\ pc[r] = "check"
    /\ \/ /\ Accepted(r)
          /\ Goto(r, CASE req[r].kind = "create"                           -> "store"
                       [] req[r].kind # "create" /\ req[r].given = <<>>    -> "select"
                       [] OTHER                                            -> "verify")
          /\ UNCHANGED <<admin, jobs, attached, started, req, fresh>>
       \/ ~Accepted(r) /\ Refuse(r)

(* The components the request gives: there, and accessible to the remoteci.*)
Accessible(ids) ==
    \A i \in DOMAIN ids : /\ components[ids[i]] \in {"active", "inactive"}
                          /\ ids[i] \notin Forbidden

(* verify_and_get_components_ids: as many as the topic has types, active,  *)
(* and no type twice.                                                      *)
Verified(ids) ==
    /\ Len(ids) = Len(ComponentTypes)
    /\ \A i \in DOMAIN ids : components[ids[i]] = "active"
    /\ \A i, j \in DOMAIN ids : i # j => TypeOf[ids[i]] # TypeOf[ids[j]]

VerifyGiven(r) ==
    /\ Handles(r, {"schedule"}, "verify")
    /\ \/ /\ Accessible(req[r].given) /\ Verified(req[r].given)
          /\ req' = [req EXCEPT ![r].chosen = req[r].given]
          /\ Goto(r, "store")
          /\ UNCHANGED <<admin, jobs, attached, started, fresh>>
       \/ ~(Accessible(req[r].given) /\ Verified(req[r].given)) /\ Refuse(r)

BugSelectableAny(r) ==
    LET type == ComponentTypes[Len(req[r].chosen) + 1]
    IN  {created[i] : i \in {i \in DOMAIN created : TypeOf[created[i]] = type}}

(* get_last_components_by_type, one query: the latest active component of  *)
(* the next type, refused when there is none or when it is chosen already  *)
(* (a type the topic lists twice).                                         *)
Selectable(r) ==
    Latest(ComponentTypes[Len(req[r].chosen) + 1], components)
        \ {req[r].chosen[i] : i \in DOMAIN req[r].chosen}

SelectComponent(r) ==
    /\ pc[r] = "select"
    /\ \/ /\ Len(req[r].chosen) < Len(ComponentTypes)
          /\ \/ /\ \E c \in Selectable(r) :
                     req' = [req EXCEPT ![r].chosen = Append(@, c)]
                /\ UNCHANGED <<admin, jobs, attached, started, pc, fresh>>
             \/ Selectable(r) = {} /\ Refuse(r)
       \/ /\ Len(req[r].chosen) = Len(ComponentTypes)
          /\ Goto(r, "store")
          /\ UNCHANGED <<admin, jobs, attached, started, req, fresh>>

(* base.create_resource_orm(Job): committed with no component yet. *)
StoreJob(r) ==
    /\ pc[r] = "store"
    /\ jobs' = jobs \union {r}
    /\ Goto(r, "read")
    /\ UNCHANGED <<admin, attached, started, req, fresh>>

(* base.get_resource_orm(Job): the handler reads its own job, a 404 when it *)
(* was archived since the commit. Nothing looks at its state after that.    *)
ReadJob(r) ==
    /\ pc[r] = "read"
    /\ \/ r \in archived /\ Refuse(r)
       \/ /\ r \notin archived
          /\ Goto(r, IF req[r].kind = "create" THEN "permit" ELSE "attach")
          /\ UNCHANGED <<admin, jobs, attached, started, req, fresh>>

(* POST /jobs looks at the components only once the job is stored. *)
PermitComponents(r) ==
    /\ Handles(r, {"create"}, "permit")
    /\ \/ /\ Accessible(req[r].given)
          /\ req' = [req EXCEPT ![r].chosen = req[r].given]
          /\ Goto(r, "attach")
          /\ UNCHANGED <<admin, jobs, attached, started, fresh>>
       \/ ~Accessible(req[r].given) /\ Refuse(r)

(* What the handler does once every component is attached. *)
Finish(r) ==
    /\ req[r].next > Len(req[r].chosen)
    /\ Goto(r, IF req[r].kind \in {"schedule", "create"} THEN "publish" ELSE "answered")
    /\ UNCHANGED <<admin, jobs, attached, started, req, fresh>>

BugLookUpComponent(r) ==
    /\ pc[r] = "attach"
    /\ \/ LET c == req[r].chosen[req[r].next]
           IN  /\ req[r].next <= Len(req[r].chosen)
               /\ \/ /\ components[c] # "archived" /\ c \notin attached[r]
                     /\ Goto(r, "insert") /\ UNCHANGED req
                  \/ /\ components[c] = "archived" \/ c \in attached[r]
                     /\ req' = [req EXCEPT ![r].next = @ + 1] /\ UNCHANGED pc
               /\ UNCHANGED <<admin, jobs, attached, started, fresh>>
       \/ Finish(r)

BugLookUpNeedsActive(r) ==
    /\ pc[r] = "attach"
    /\ \/ LET c == req[r].chosen[req[r].next]
           IN  /\ req[r].next <= Len(req[r].chosen)
               /\ \/ components[c] # "active" /\ Goto(r, "refused") /\ UNCHANGED req
                  \/ /\ components[c] = "active" /\ c \notin attached[r]
                     /\ Goto(r, "insert") /\ UNCHANGED req
                  \/ /\ components[c] = "active" /\ c \in attached[r]
                     /\ req' = [req EXCEPT ![r].next = @ + 1] /\ UNCHANGED pc
               /\ UNCHANGED <<admin, jobs, attached, started, fresh>>
       \/ Finish(r)

(* The components are attached in the order they were chosen. Each is       *)
(* looked up again: one archived since ends the request with a 404 and      *)
(* leaves the job with the components it has. One that j.components has     *)
(* already is not inserted again.                                           *)
LookUpComponent(r) ==
    /\ pc[r] = "attach"
    /\ \/ LET c == req[r].chosen[req[r].next]
           IN  /\ req[r].next <= Len(req[r].chosen)
               /\ \/ components[c] = "archived" /\ Goto(r, "refused") /\ UNCHANGED req
                  \/ /\ components[c] # "archived" /\ c \notin attached[r]
                     /\ Goto(r, "insert") /\ UNCHANGED req
                  \/ /\ components[c] # "archived" /\ c \in attached[r]
                     /\ req' = [req EXCEPT ![r].next = @ + 1] /\ UNCHANGED pc
               /\ UNCHANGED <<admin, jobs, attached, started, fresh>>
       \/ Finish(r)

(* The INSERT of the link: a 409 when another request made it meanwhile.    *)
AttachComponent(r) ==
    LET c == req[r].chosen[req[r].next]
    IN  /\ pc[r] = "insert"
        /\ \/ /\ c \notin attached[r]
              /\ attached' = [attached EXCEPT ![r] = @ \union {c}]
              /\ req' = [req EXCEPT ![r].next = @ + 1]
              /\ Goto(r, "attach")
              /\ UNCHANGED <<admin, jobs, started, fresh>>
           \/ c \in attached[r] /\ Refuse(r)

(* job_started; a messaging error is swallowed. *)
PublishStarted(r) ==
    /\ Handles(r, {"schedule", "create"}, "publish")
    /\ \E sent \in {{}, {r}} : started' = started \union sent
    /\ Goto(r, "answered")
    /\ UNCHANGED <<admin, jobs, attached, req, fresh>>

Crash(r) ==
    /\ AllowCrash /\ r \in InFlight
    /\ Goto(r, "crashed")
    /\ UNCHANGED <<admin, jobs, attached, started, req, fresh>>

Serve(r) ==
    \/ CheckRequest(r) \/ VerifyGiven(r) \/ SelectComponent(r) \/ StoreJob(r)
    \/ ReadJob(r) \/ PermitComponents(r) \/ LookUpComponent(r) \/ AttachComponent(r) \/ PublishStarted(r)

Others ==
    /\ Change
    /\ \/ \E c \in Components : CreateComponent(c) \/ UpdateComponent(c)
       \/ ToggleRemoteci \/ ToggleTopic
       \/ \E r \in Requests : ArchiveJob(r)
       \/ \E r \in Requests, c \in Components :
            AddComponentToJob(r, c) \/ RemoveComponentFromJob(r, c)

Next == (\E r \in Requests : Arrive(r) \/ Serve(r) \/ Crash(r)) \/ Others

Spec == Init /\ [][Next]_vars

-----------------------------------------------------------------------------
(* Components, job rows and the requests that build them. *)
TypeOK ==
    /\ components \in [Components -> {"none", "active", "inactive", "archived"}]
    /\ created \in Seq(Components)
    /\ {remoteci, topic} \subseteq {"active", "inactive"}
    /\ {jobs, archived, withdrawn, started} \subseteq SUBSET Requests
    /\ {attached, fresh, added, removed} \subseteq [Requests -> SUBSET Components]
    /\ pc \in [Requests -> {"check", "verify", "select", "store", "read", "permit",
                            "attach", "insert", "publish"} \union Ended]
    /\ req \in [Requests -> [kind: AllKinds \union {"none"}, given: Seq(Components),
                             chosen: Seq(Components), next: Nat \ {0}]]
    /\ deleted \subseteq Components
    /\ changes \in 0..MaxChanges

(* As many components as the topic has types: one of each type, or those    *)
(* the request gave, no two of a type; only their number is compared with   *)
(* the topic (verify_and_get_components_ids).                               *)
CompleteChoice(r) ==
    /\ Len(req[r].chosen) = Len(ComponentTypes)
    /\ \/ \A i \in DOMAIN ComponentTypes : TypeOf[req[r].chosen[i]] = ComponentTypes[i]
       \/ req[r].chosen = req[r].given
    /\ \A i, j \in DOMAIN req[r].chosen :
         i # j => req[r].chosen[i] # req[r].chosen[j]

(* The job has what its handler chose, but for what others did to it.       *)
Built(r) ==
    /\ Chosen(r) \subseteq attached[r] \union removed[r]
    /\ attached[r] \subseteq Chosen(r) \union added[r]

(* A job that is answered, or published as job_started, has all that its    *)
(* handler chose and nothing else, whatever is published, deleted, added to *)
(* the job or removed from it while it is built, and what was chosen for a  *)
(* scheduled, updated or upgraded one is complete (_build_job).             *)
AnsweredIsComplete ==
    \A r \in Requests :
        pc[r] = "answered" \/ r \in started =>
            /\ Built(r)
            /\ req[r].kind # "create" => CompleteChoice(r)

(* A remoteci never gets a component that was already superseded or         *)
(* withdrawn when it asked for one (order_by created_at desc, active).      *)
ChosenWasLatest ==
    \A r \in Requests :
        req[r].given = <<>> => \A i \in DOMAIN req[r].chosen :
                                  req[r].chosen[i] \in fresh[r]

(* A stored job that is refused lacks components it was to have for one of  *)
(* three reasons: it was itself archived before its handler read it again,  *)
(* which then attached none; one that was chosen was deleted meanwhile; or  *)
(* another request added one of them first (_build_job stores the job       *)
(* first). A created one may also have been given components it has no      *)
(* access to.                                                               *)
PartialHasAReason ==
    \A r \in jobs :
        /\ pc[r] = "refused" /\ req[r].kind # "create"
        /\ ~(Chosen(r) \subseteq attached[r] \union removed[r])
        => \/ r \in withdrawn /\ attached[r] \subseteq added[r]
           \/ Chosen(r) \intersect (deleted \union added[r]) # {}
=============================================================================
