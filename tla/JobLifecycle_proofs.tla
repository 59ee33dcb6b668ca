------------------------ MODULE JobLifecycle_proofs ------------------------
(***************************************************************************)
(* What holds of JobLifecycle for any number of requests, any statuses and *)
(* any concurrency.                                                        *)
(***************************************************************************)
EXTENDS JobLifecycle, FiniteSetTheorems, TLAPS

(* The jobstate a request inserted is the one it meant to insert. *)
Evidence(r) ==
    \E h \in history : /\ h.by = r
                       /\ h.asked = req[r].asked
                       /\ h.status = req[r].recorded

(* What a POST has done by the time it reaches a label. *)
PostProgress(r) ==
    req[r].kind = "post" =>
        /\ req[r].asked \in AllStatuses
        /\ pc[r] = "insert" => req[r].recorded \in AllStatuses
        /\ pc[r] \in {"reread", "write", "serialize", "event", "dispatch", "publish"}
             => req[r].recorded \in AllStatuses /\ Evidence(r)
        /\ pc[r] \in {"serialize", "event", "dispatch", "publish"} => finishes > 0
        /\ pc[r] \in {"event", "dispatch"} => req[r].told \in AllStatuses
        /\ pc[r] \in {"dispatch", "publish"} => \E e \in events : e.by = r
        /\ pc[r] = "publish" => \E d \in dispatched : d.by = r

(* What a PUT has done by then. *)
PutProgress(r) ==
    req[r].kind = "put" =>
        /\ pc[r] = "insert" => req[r].asked \in AllStatuses
        /\ pc[r] = "event" => req[r].recorded # None
        /\ req[r].recorded # None =>
             /\ req[r].asked \in AllStatuses
             /\ req[r].recorded = req[r].asked
             /\ Evidence(r)

Progress(r) == PostProgress(r) /\ PutProgress(r)

(* A row that shows a final status got it from a write that was counted. *)
FinalIsCounted == job.status \in Final => finishes > 0

(* Events come from requests that have arrived. *)
EventsOfArrived == \A e \in events : pc[e.by] # "idle"

Written ==
    /\ StatusIsRecorded
    /\ EventIsRecorded
    /\ MessagesFollowEvents
    /\ AnnouncedOnlyAfterFinish
    /\ FinalIsCounted
    /\ EventsOfArrived

IInv == TypeOK /\ Written /\ \A r \in Requests : Progress(r)

Step(r) == Arrive(r) \/ Serve(r) \/ Crash(r)

-----------------------------------------------------------------------------
LEMMA CallsType ==
    ASSUME NEW c \in Calls
    PROVE  /\ c.kind \in AllKinds
           /\ c.asked \in StatusOrNone
           /\ c.state \in Live \union {"archived", None}
           /\ c.kind = "post" => c.asked \in AllStatuses
           /\ PutStates \subseteq {None} => c.state = None
BY StatusesAssumption, PutStatesAssumption, NoneAssumption
   DEF Calls, AllKinds, StatusOrNone

LEMMA InitInv == Init => IInv
<1> SUFFICES ASSUME Init PROVE IInv
  OBVIOUS
<1> USE DEF Init
<1>1. TypeOK
  BY DEF TypeOK, NoRequest, RequestRecord, Labels, StatusOrNone,
         AllStatuses, Early, Live
<1>2. Written
  BY DEF Written, StatusIsRecorded, EventIsRecorded, MessagesFollowEvents,
         AnnouncedOnlyAfterFinish, FinalIsCounted, EventsOfArrived, Final
<1>3. \A r \in Requests : Progress(r)
  BY NoneAssumption
  DEF Progress, PostProgress, PutProgress, NoRequest, AllKinds
<1> QED
  BY <1>1, <1>2, <1>3 DEF IInv

(* A record of the request's handler with one field set keeps its type. *)
LEMMA RecordField ==
    ASSUME NEW q \in RequestRecord, NEW s \in StatusOrNone
    PROVE  /\ [q EXCEPT !.recorded = s] \in RequestRecord
           /\ [q EXCEPT !.seen = s] \in RequestRecord
           /\ [q EXCEPT !.told = s] \in RequestRecord
           /\ \A p \in Requests : [q EXCEPT !.target = p] \in RequestRecord
           /\ \A t \in Live : [q EXCEPT !.seen = s, !.seenState = t] \in RequestRecord
BY DEF RequestRecord

LEMMA WriteJobType ==
    ASSUME TypeOK, NEW s \in AllStatuses, NEW t \in Live \union {"archived", "purged"},
           WriteJob(s, t)
    PROVE  /\ job' \in [state: Live \union {"archived", "purged"}, status: AllStatuses,
                        etag: Nat]
           /\ finishes' \in Nat
           /\ finishes' >= finishes
           /\ FinalIsCounted => (s \in Final => finishes' > 0)
           /\ job'.status = s
BY DEF TypeOK, WriteJob, FinalIsCounted

-----------------------------------------------------------------------------
(* Every variable keeps its type.                                          *)
LEMMA TypeStep == ASSUME IInv, NEW r \in Requests, Step(r) PROVE TypeOK'
<1> USE DEF IInv, rows, messages, ghosts, Goto, Done, At
<1>0. ASSUME Refuse(r) PROVE TypeOK'
  BY <1>0 DEF Refuse, TypeOK, Labels
<1>1. ASSUME Arrive(r) PROVE TypeOK'
  <2>1. PICK c \in Calls :
          req' = [req EXCEPT ![r] =
                    [NoRequest EXCEPT !.kind = c.kind, !.asked = c.asked,
                                      !.state = c.state, !.at = clock,
                                      !.ifMatch = job.etag,
                                      !.overlaps = InFlight # {}]]
    BY <1>1 DEF Arrive
  <2>2. req' \in [Requests -> RequestRecord]
    BY <2>1, CallsType DEF TypeOK, NoRequest, RequestRecord, StatusOrNone
  <2> QED
    BY <1>1, <2>2 DEF Arrive, TypeOK, Labels
<1>2. ASSUME Post(r) PROVE TypeOK'
  <2>1. CASE PostRead(r)
    <3>1. CASE job.state \in Live
      <4>1. Recorded(req[r].asked, job.status) \in StatusOrNone
        BY DEF Recorded, TypeOK, RequestRecord, StatusOrNone, AllStatuses, Final
      <4>2. req' = [req EXCEPT ![r].recorded = Recorded(req[r].asked, job.status)]
        BY <2>1, <3>1 DEF PostRead
      <4>3. req' \in [Requests -> RequestRecord]
        BY <4>1, <4>2, RecordField DEF TypeOK
      <4> QED
        BY <2>1, <3>1, <4>3 DEF PostRead, TypeOK, Labels
    <3> QED
      BY <2>1, <3>1, <1>0 DEF PostRead
  <2>2. CASE PostInsert(r)
    <3>1. req[r].asked \in AllStatuses /\ req[r].recorded \in AllStatuses /\ req[r].at \in Nat
      BY <2>2 DEF PostInsert, Progress, PostProgress, TypeOK, RequestRecord
    <3> QED
      BY <2>2, <3>1, <1>0 DEF PostInsert, InsertJobstate, TypeOK, Labels
  <2>3. CASE PostReread(r)
    <3>1. CASE Present
      <4>1. job.status \in StatusOrNone
        BY DEF TypeOK, StatusOrNone
      <4>2. req' = [req EXCEPT ![r].seen = job.status]
        BY <2>3, <3>1 DEF PostReread
      <4>3. req' \in [Requests -> RequestRecord]
        BY <4>1, <4>2, RecordField DEF TypeOK
      <4> QED
        BY <2>3, <3>1, <4>3 DEF PostReread, TypeOK, Labels
    <3> QED
      BY <2>3, <3>1, <1>0 DEF PostReread
  <2>4. CASE PostWrite(r)
    <3>1. req[r].asked \in AllStatuses
      BY <2>4 DEF PostWrite, Progress, PostProgress
    <3> QED
      BY <2>4, <3>1, <1>0, WriteJobType DEF PostWrite, TypeOK, Labels
  <2>5. CASE PostSerialize(r)
    <3>1. CASE job.state \in Live
      <4>1. Told(r) \in StatusOrNone
        BY DEF Told, TypeOK, StatusOrNone
      <4>2. req' = [req EXCEPT ![r].told = Told(r)]
        BY <2>5, <3>1 DEF PostSerialize
      <4>3. req' \in [Requests -> RequestRecord]
        BY <4>1, <4>2, RecordField DEF TypeOK
      <4> QED
        BY <2>5, <3>1, <4>3 DEF PostSerialize, TypeOK, Labels
    <3> QED
      BY <2>5, <3>1, <1>0 DEF PostSerialize
  <2>6. CASE PostEvent(r)
    <3>1. req[r].recorded \in AllStatuses
      BY <2>6 DEF PostEvent, Progress, PostProgress
    <3> QED
      BY <2>6, <3>1 DEF PostEvent, CreateEvent, TypeOK, Labels
  <2>7. CASE PostDispatch(r)
    <3>1. req[r].told \in AllStatuses
      BY <2>7 DEF PostDispatch, Progress, PostProgress
    <3> QED
      BY <2>7, <3>1, <1>0 DEF PostDispatch, TypeOK, Labels
  <2>8. CASE PostPublish(r)
    BY <2>8, <1>0 DEF PostPublish, TypeOK, Labels
  <2> QED
    BY <1>2, <2>1, <2>2, <2>3, <2>4, <2>5, <2>6, <2>7, <2>8 DEF Post
<1>3. ASSUME Put(r) PROVE TypeOK'
  <2>1. CASE PutRead(r)
    <3>1. CASE Found(r)
      <4>1. job.status \in StatusOrNone /\ job.state \in Live
        BY <3>1 DEF Found, TypeOK, StatusOrNone
      <4>2. req' = [req EXCEPT ![r].seen = job.status, ![r].seenState = job.state]
        BY <2>1, <3>1 DEF PutRead
      <4>3. req' \in [Requests -> RequestRecord]
        BY <4>1, <4>2, RecordField DEF TypeOK
      <4> QED
        BY <2>1, <3>1, <4>3 DEF PutRead, TypeOK, Labels
    <3> QED
      BY <2>1, <3>1, <1>0 DEF PutRead
  <2>2. CASE PutInsert(r)
    <3>1. req[r].asked \in AllStatuses
      BY <2>2 DEF PutInsert, Progress, PutProgress
    <3>2. CASE Present
      <4>1. req' = [req EXCEPT ![r].recorded = req[r].asked]
        BY <2>2, <3>2 DEF PutInsert
      <4>2. req' \in [Requests -> RequestRecord]
        BY <3>1, <4>1, RecordField DEF TypeOK, StatusOrNone
      <4> QED
        BY <2>2, <3>1, <3>2, <4>2 DEF PutInsert, InsertJobstate, TypeOK, Labels
    <3> QED
      BY <2>2, <3>2, <1>0 DEF PutInsert
  <2>3. CASE PutEvent(r)
    <3>1. req[r].asked \in AllStatuses
      BY <2>3 DEF PutEvent, Progress, PutProgress
    <3> QED
      BY <2>3, <3>1, <1>0 DEF PutEvent, CreateEvent, TypeOK, Labels
  <2>4. CASE PutWrite(r)
    <3>1. PutStatus(r) \in AllStatuses
      BY <2>4 DEF PutWrite, PutStatus, Expired, Progress, PutProgress, TypeOK
    <3>2. PutState(r) \in Live \union {"archived", "purged"}
      BY DEF PutState, TypeOK, RequestRecord
    <3> QED
      BY <2>4, <3>1, <3>2, <1>0, WriteJobType DEF PutWrite, TypeOK, Labels
  <2> QED
    BY <1>3, <2>1, <2>2, <2>3, <2>4 DEF Put
<1>4. ASSUME Remove(r) PROVE TypeOK'
  <2>1. CASE DeleteRead(r)
    BY <2>1, <1>0 DEF DeleteRead, TypeOK, Labels
  <2>2. CASE DeleteWrite(r)
    <3>1. job.status \in AllStatuses
      BY DEF TypeOK
    <3> QED
      BY <2>2, <3>1, <1>0, WriteJobType DEF DeleteWrite, TypeOK, Labels
  <2>3. CASE Purge(r)
    BY <2>3, <1>0 DEF Purge, TypeOK, Labels
  <2>4. CASE DropRead(r)
    <3>1. CASE job.state \in Live /\ jobstates # {}
      <4>1. None \in StatusOrNone /\ \A j \in jobstates : j.by \in Requests
        BY DEF TypeOK, StatusOrNone
      <4>2. PICK j \in jobstates : req' = [req EXCEPT ![r].target = j.by]
        BY <2>4, <3>1 DEF DropRead
      <4>3. req' \in [Requests -> RequestRecord]
        BY <4>1, <4>2, RecordField DEF TypeOK
      <4> QED
        BY <2>4, <3>1, <4>3 DEF DropRead, TypeOK, Labels
    <3> QED
      BY <2>4, <3>1, <1>0 DEF DropRead
  <2>5. CASE DropWrite(r)
    BY <2>5 DEF DropWrite, TypeOK, Labels
  <2> QED
    BY <1>4, <2>1, <2>2, <2>3, <2>4, <2>5 DEF Remove
<1>5. ASSUME Crash(r) PROVE TypeOK'
  BY <1>5 DEF Crash, TypeOK, Labels
<1> QED
  BY <1>1, <1>2, <1>3, <1>4, <1>5 DEF Step, Serve

-----------------------------------------------------------------------------
(* A step of a request leaves the others where they are, and nothing that  *)
(* was recorded, announced or counted is lost.                             *)
LEMMA Frame ==
    ASSUME TypeOK, NEW r \in Requests, Step(r)
    PROVE  /\ \A q \in Requests \ {r} : pc'[q] = pc[q] /\ req'[q] = req[q]
           /\ pc'[r] # "idle"
           /\ history \subseteq history'
           /\ events \subseteq events'
           /\ dispatched \subseteq dispatched'
           /\ finishes' >= finishes
<1> USE DEF rows, messages, ghosts, Goto, Done, Refuse, At, TypeOK
<1>1. CASE Arrive(r)
  BY <1>1 DEF Arrive
<1>2. CASE Post(r)
  BY <1>2
  DEF Post, PostRead, PostInsert, PostReread, PostWrite, PostSerialize, PostEvent,
      PostDispatch, PostPublish, InsertJobstate, WriteJob, CreateEvent
<1>3. CASE Put(r)
  BY <1>3
  DEF Put, PutRead, PutInsert, PutEvent, PutWrite, InsertJobstate, WriteJob, CreateEvent
<1>4. CASE Remove(r)
  BY <1>4
  DEF Remove, DeleteRead, DeleteWrite, Purge, DropRead, DropWrite, WriteJob
<1>5. CASE Crash(r)
  BY <1>5 DEF Crash
<1> QED
  BY <1>1, <1>2, <1>3, <1>4, <1>5 DEF Step, Serve

LEMMA OthersProgress ==
    ASSUME IInv, NEW r \in Requests, Step(r), NEW q \in Requests \ {r}
    PROVE  Progress(q)'
<1>1. Progress(q) /\ finishes \in Nat
  BY DEF IInv, TypeOK
<1>2. finishes' \in Nat
  BY TypeStep DEF TypeOK
<1> QED
  BY <1>1, <1>2, Frame DEF IInv, Progress, PostProgress, PutProgress, Evidence

(* A request that ends, refused or with its worker, writes nothing. *)
LEMMA EndProgress ==
    ASSUME IInv, NEW r \in Requests, NEW label \in {"done", "crashed"}, Goto(r, label),
           UNCHANGED <<rows, messages, req, clock, ghosts>>
    PROVE  Progress(r)'
<1>1. pc'[r] = label
  BY DEF IInv, TypeOK, Goto
<1>2. Evidence(r)' <=> Evidence(r)
  BY DEF Evidence, ghosts
<1>3. PostProgress(r)' 
  BY <1>1 DEF IInv, Progress, PostProgress
<1>4. PutProgress(r)'
  BY <1>1, <1>2 DEF IInv, Progress, PutProgress
<1> QED
  BY <1>3, <1>4 DEF Progress

LEMMA RefuseProgress ==
    ASSUME IInv, NEW r \in Requests, Refuse(r)
    PROVE  Progress(r)'
BY EndProgress DEF Refuse, Done

LEMMA OwnProgress ==
    ASSUME IInv, NEW r \in Requests, Step(r)
    PROVE  Progress(r)'
<1> USE DEF IInv, rows, messages, ghosts, Goto, Done, At
<1>1. CASE Arrive(r)
  BY <1>1, CallsType, NoneAssumption
  DEF Arrive, TypeOK, NoRequest, Progress, PostProgress, PutProgress
<1>2. CASE Post(r)
  <2>0. req[r].kind = "post" /\ req[r] \in RequestRecord /\ pc \in [Requests -> Labels]
        /\ req \in [Requests -> RequestRecord]
    BY <1>2 DEF TypeOK, Post, PostRead, PostInsert, PostReread, PostWrite, PostSerialize,
           PostEvent, PostDispatch, PostPublish
  <2> USE DEF Progress, PostProgress, PutProgress
  <2>1. CASE PostRead(r)
    <3>1. CASE job.state \in Live
      <4>1. Recorded(req[r].asked, job.status) \in AllStatuses
        BY <2>0, <2>1 DEF PostRead, Recorded, AllStatuses, Final
      <4>2. pc'[r] = "insert" /\ req'[r].kind = "post" /\ req'[r].asked = req[r].asked
            /\ req'[r].recorded = Recorded(req[r].asked, job.status)
        BY <2>0, <2>1, <3>1 DEF PostRead, RequestRecord
      <4> QED
        BY <2>0, <2>1, <4>1, <4>2 DEF PostRead
    <3> QED
      BY <2>1, <3>1, RefuseProgress DEF PostRead
  <2>2. CASE PostInsert(r)
    <3>1. CASE Present
      <4>1. /\ pc'[r] = "reread" /\ req' = req
            /\ [by |-> r, asked |-> req[r].asked, status |-> req[r].recorded] \in history'
        BY <2>0, <2>2, <3>1 DEF PostInsert, InsertJobstate
      <4>2. req[r].asked \in AllStatuses /\ req[r].recorded \in AllStatuses
        BY <2>0, <2>2 DEF PostInsert
      <4> QED
        BY <2>0, <4>1, <4>2 DEF Evidence
    <3> QED
      BY <2>2, <3>1, RefuseProgress DEF PostInsert
  <2>3. CASE PostReread(r)
    BY <2>0, <2>3, RefuseProgress DEF PostReread, RequestRecord, Evidence
  <2>4. CASE PostWrite(r)
    <3>1. CASE Present
      <4>1. /\ req[r].asked \in AllStatuses
            /\ req[r].recorded \in AllStatuses
            /\ Evidence(r)
        BY <2>0, <2>4 DEF PostWrite
      <4>2. Evidence(r)'
        BY <4>1, <2>4, <3>1 DEF PostWrite, Evidence
      <4>3. Announces(r) => finishes' > 0
        <5>1. Announces(r) => WriteJob(req[r].asked, job.state) /\ req[r].asked \in Final
          BY <2>4, <3>1 DEF PostWrite, Announces
        <5>2. job.state \in Live \union {"archived", "purged"} /\ FinalIsCounted
          BY DEF TypeOK, Written
        <5> QED
          BY <4>1, <5>1, <5>2, WriteJobType
      <4>4. /\ pc'[r] \in {"serialize", "done"} /\ req' = req
            /\ pc'[r] = "serialize" => Announces(r)
        BY <2>0, <2>4, <3>1 DEF PostWrite
      <4> QED
        BY <2>0, <4>1, <4>2, <4>3, <4>4
    <3> QED
      BY <2>4, <3>1, RefuseProgress DEF PostWrite
  <2>5. CASE PostSerialize(r)
    <3>1. CASE job.state \in Live
      <4>1. pc'[r] = "event" /\ job.status \in AllStatuses
        BY <2>0, <2>5, <3>1 DEF PostSerialize, TypeOK
      <4>2. /\ req'[r].kind = "post" /\ req'[r].asked = req[r].asked
            /\ req'[r].recorded = req[r].recorded /\ req'[r].told = job.status
        BY <2>0, <2>5, <3>1 DEF PostSerialize, Told, RequestRecord
      <4>3. /\ req[r].asked \in AllStatuses /\ req[r].recorded \in AllStatuses
            /\ Evidence(r) /\ finishes > 0
        BY <2>0, <2>5 DEF PostSerialize
      <4>4. Evidence(r)' /\ finishes' > 0
        BY <2>5, <3>1, <4>2, <4>3 DEF PostSerialize, Evidence
      <4> QED
        BY <4>1, <4>2, <4>3, <4>4
    <3> QED
      BY <2>5, <3>1, RefuseProgress DEF PostSerialize
  <2>6. CASE PostEvent(r)
    <3>1. pc'[r] = "dispatch" /\ req' = req /\ UNCHANGED <<history, finishes>>
      BY <2>0, <2>6 DEF PostEvent
    <3>2. [by |-> r, status |-> req[r].recorded] \in events'
      BY <2>6 DEF PostEvent, CreateEvent
    <3>3. /\ req[r].asked \in AllStatuses /\ req[r].recorded \in AllStatuses
          /\ Evidence(r) /\ finishes > 0 /\ req[r].told \in AllStatuses
      BY <2>0, <2>6 DEF PostEvent
    <3>4. Evidence(r)'
      BY <3>1, <3>3 DEF Evidence
    <3> QED
      BY <2>0, <3>1, <3>2, <3>3, <3>4
  <2>7. CASE PostDispatch(r)
    <3>1. CASE Refuse(r)
      BY <3>1, RefuseProgress
    <3>2. CASE ~Refuse(r)
      <4>1. /\ pc'[r] = "publish" /\ req' = req /\ UNCHANGED <<events, history, finishes>>
            /\ [by |-> r, status |-> req[r].told] \in dispatched'
        BY <2>0, <2>7, <3>2 DEF PostDispatch
      <4>2. /\ req[r].asked \in AllStatuses /\ req[r].recorded \in AllStatuses
            /\ Evidence(r) /\ finishes > 0 /\ \E e \in events : e.by = r
        BY <2>0, <2>7 DEF PostDispatch
      <4>3. Evidence(r)'
        BY <4>1, <4>2 DEF Evidence
      <4> QED
        BY <2>0, <4>1, <4>2, <4>3
    <3> QED
      BY <3>1, <3>2
  <2>8. CASE PostPublish(r)
    <3>1. CASE Refuse(r)
      BY <3>1, RefuseProgress
    <3>2. CASE ~Refuse(r)
      <4>1. pc'[r] = "done" /\ req' = req
        BY <2>0, <2>8, <3>2 DEF PostPublish
      <4>2. req[r].asked \in AllStatuses
        BY <2>0, <2>8 DEF PostPublish
      <4> QED
        BY <2>0, <4>1, <4>2
    <3> QED
      BY <3>1, <3>2
  <2> QED
    BY <1>2, <2>1, <2>2, <2>3, <2>4, <2>5, <2>6, <2>7, <2>8 DEF Post
<1>3. CASE Put(r)
  <2>0. /\ req[r].kind = "put" /\ req[r] \in RequestRecord
        /\ pc \in [Requests -> Labels] /\ req \in [Requests -> RequestRecord]
    BY <1>3 DEF TypeOK, Put, PutRead, PutInsert, PutEvent, PutWrite
  <2> USE DEF Progress, PostProgress, PutProgress
  <2>1. CASE PutRead(r)
    <3>1. CASE Found(r)
      <4>1. /\ pc'[r] \in {"insert", "write"}
            /\ pc'[r] = "insert" => req[r].asked # None
        BY <2>0, <2>1, <3>1 DEF PutRead
      <4>2. req'[r].kind = "put" /\ req'[r].asked = req[r].asked
            /\ req'[r].recorded = req[r].recorded
        BY <2>0, <2>1, <3>1 DEF PutRead, RequestRecord
      <4>3. req[r].asked # None => req[r].asked \in AllStatuses
        BY <2>0 DEF RequestRecord, StatusOrNone
      <4>4. req[r].recorded # None => Evidence(r)'
        BY <2>0, <2>1, <3>1, <4>2 DEF PutRead, Evidence
      <4> QED
        BY <2>0, <4>1, <4>2, <4>3, <4>4
    <3> QED
      BY <2>1, <3>1, RefuseProgress DEF PutRead
  <2>2. CASE PutInsert(r)
    <3>1. CASE Present
      <4>1. req[r].asked \in AllStatuses
        BY <2>0, <2>2 DEF PutInsert
      <4>2. /\ req'[r].kind = "put" /\ req'[r].asked = req[r].asked
            /\ req'[r].recorded = req[r].asked
        BY <2>0, <2>2, <3>1 DEF PutInsert, RequestRecord
      <4>3. pc'[r] \in {"event", "write"}
        BY <2>0, <2>2, <3>1 DEF PutInsert
      <4>4. Evidence(r)'
        <5>1. [by |-> r, asked |-> req[r].asked, status |-> req[r].asked] \in history'
          BY <2>2, <3>1 DEF PutInsert, InsertJobstate
        <5> QED
          BY <4>2, <5>1 DEF Evidence
      <4>5. req'[r].recorded # None
        BY <4>1, <4>2, NoneAssumption
      <4> QED
        BY <4>1, <4>2, <4>3, <4>4, <4>5
    <3> QED
      BY <2>2, <3>1, RefuseProgress DEF PutInsert
  <2>3. CASE PutEvent(r)
    <3>1. CASE Present
      <4>1. pc'[r] = "write" /\ req' = req /\ history' = history
        BY <2>0, <2>3, <3>1 DEF PutEvent
      <4> QED
        BY <2>0, <4>1 DEF Evidence
    <3> QED
      BY <2>3, <3>1, RefuseProgress DEF PutEvent
  <2>4. CASE PutWrite(r)
    <3>1. CASE Present
      <4>1. pc'[r] = "done" /\ req' = req /\ history' = history
        BY <2>0, <2>4, <3>1 DEF PutWrite
      <4> QED
        BY <2>0, <4>1 DEF Evidence
    <3> QED
      BY <2>4, <3>1, RefuseProgress DEF PutWrite
  <2> QED
    BY <1>3, <2>1, <2>2, <2>3, <2>4 DEF Put
<1>4. CASE Remove(r)
  <2>1. req'[r].kind = req[r].kind /\ req[r].kind \in {"delete", "purge", "drop"}
    BY <1>4 DEF Remove, DeleteRead, DeleteWrite, Purge, DropRead, DropWrite, Refuse,
                TypeOK, RequestRecord
  <2> QED
    BY <2>1 DEF Progress, PostProgress, PutProgress
<1>5. CASE Crash(r)
  BY <1>5, EndProgress DEF Crash
<1> QED
  BY <1>1, <1>2, <1>3, <1>4, <1>5 DEF Step, Serve

-----------------------------------------------------------------------------
(* What is recorded, announced and counted, action by action. *)

(* A request keeps its handler once it has arrived. *)
LEMMA KindKept ==
    ASSUME IInv, NEW r \in Requests, Step(r), NEW q \in Requests, pc[q] # "idle"
    PROVE  req'[q].kind = req[q].kind
<1>1. CASE q # r
  BY <1>1, Frame DEF IInv
<1>2. CASE q = r
  <2>1. ~Arrive(r)
    BY <1>2 DEF Arrive
  <2> QED
    BY <1>2, <2>1
    DEF IInv, TypeOK, RequestRecord, Step, Serve, Crash, Refuse,
        Post, PostRead, PostInsert, PostReread, PostWrite, PostSerialize, PostEvent,
        PostDispatch, PostPublish,
        Put, PutRead, PutInsert, PutEvent, PutWrite,
        Remove, DeleteRead, DeleteWrite, Purge, DropRead, DropWrite
<1> QED
  BY <1>1, <1>2

(* WriteJob: the row takes a status its request recorded, or keeps its own. *)
LEMMA WrittenByRow ==
    ASSUME IInv, NEW r \in Requests, Step(r), NEW s \in AllStatuses,
           NEW t \in Live \union {"archived", "purged"}, WriteJob(s, t),
           s = job.status \/ \E h \in history : h.asked = s,
           UNCHANGED <<history, events, dispatched, published>>
    PROVE  Written'
<1>1. EventIsRecorded' /\ MessagesFollowEvents'
  BY DEF IInv, Written, EventIsRecorded, MessagesFollowEvents
<1>2. job'.status = s /\ finishes \in Nat /\ finishes' \in Nat /\ finishes' >= finishes
  BY WriteJobType DEF IInv, TypeOK
<1>3. StatusIsRecorded'
  BY <1>2 DEF IInv, Written, StatusIsRecorded
<1>4. FinalIsCounted'
  BY <1>2, WriteJobType DEF IInv, Written, FinalIsCounted
<1>5. \A e \in events : e.by \in Requests /\ pc[e.by] # "idle"
  BY DEF IInv, TypeOK, Written, EventsOfArrived
<1>6. EventsOfArrived'
  BY <1>5, Frame DEF IInv, EventsOfArrived
<1>7. \A q \in Requests : pc[q] # "idle" => req'[q].kind = req[q].kind
  BY KindKept
<1>8. AnnouncedOnlyAfterFinish'
  BY <1>2, <1>5, <1>7 DEF IInv, Written, AnnouncedOnlyAfterFinish
<1> QED
  BY <1>1, <1>3, <1>4, <1>6, <1>8 DEF Written

(* A step that announces nothing and keeps the status of the row: it may   *)
(* insert a jobstate.                                                      *)
LEMMA WrittenKept ==
    ASSUME IInv, NEW r \in Requests, Step(r),
           job'.status = job.status,
           UNCHANGED <<events, dispatched, published, finishes>>
    PROVE  Written'
<1>1. history \subseteq history'
  BY Frame DEF IInv
<1>2. StatusIsRecorded' /\ EventIsRecorded' /\ MessagesFollowEvents' /\ FinalIsCounted'
  BY <1>1 DEF IInv, Written, StatusIsRecorded, EventIsRecorded, MessagesFollowEvents,
         FinalIsCounted
<1>3. \A e \in events : e.by \in Requests /\ pc[e.by] # "idle"
  BY DEF IInv, TypeOK, Written, EventsOfArrived
<1>4. EventsOfArrived'
  BY <1>3, Frame DEF IInv, EventsOfArrived
<1>5. \A q \in Requests : pc[q] # "idle" => req'[q].kind = req[q].kind
  BY KindKept
<1>6. AnnouncedOnlyAfterFinish'
  BY <1>3, <1>5 DEF IInv, Written, AnnouncedOnlyAfterFinish
<1> QED
  BY <1>2, <1>4, <1>6 DEF Written

(* CreateEvent: the event tells what its own request inserted. *)
LEMMA WrittenByEvent ==
    ASSUME IInv, NEW r \in Requests, Step(r), NEW s, CreateEvent(r, s),
           req[r].recorded = s, Evidence(r), req[r].kind = "post" => finishes > 0,
           UNCHANGED <<job, history, dispatched, published, finishes, req>>
    PROVE  Written'
<1>1. StatusIsRecorded' /\ FinalIsCounted'
  BY DEF IInv, Written, StatusIsRecorded, FinalIsCounted
<1>2. events' = events \union {[by |-> r, status |-> s]}
  BY DEF CreateEvent
<1>3. EventIsRecorded'
  BY <1>2 DEF IInv, Written, EventIsRecorded, Evidence
<1>4. MessagesFollowEvents'
  BY <1>2 DEF IInv, Written, MessagesFollowEvents
<1>5. AnnouncedOnlyAfterFinish'
  BY <1>2 DEF IInv, Written, AnnouncedOnlyAfterFinish
<1>6. \A e \in events : e.by \in Requests /\ pc[e.by] # "idle"
  BY DEF IInv, TypeOK, Written, EventsOfArrived
<1>7. EventsOfArrived'
  BY <1>2, <1>6, Frame DEF IInv, EventsOfArrived
<1> QED
  BY <1>1, <1>3, <1>4, <1>5, <1>7 DEF Written

(* A message leaves: the event, or the mail, went before it. *)
LEMMA WrittenByMessage ==
    ASSUME IInv, NEW r \in Requests, Step(r),
           \A m \in dispatched' \ dispatched : \E e \in events : e.by = m.by,
           dispatched \subseteq dispatched',
           \A m \in published' \ published : \E d \in dispatched : d.by = m.by,
           UNCHANGED <<job, history, events, finishes, req>>
    PROVE  Written'
<1>1. /\ StatusIsRecorded' /\ EventIsRecorded' /\ FinalIsCounted'
      /\ AnnouncedOnlyAfterFinish'
  BY DEF IInv, Written, StatusIsRecorded, EventIsRecorded, FinalIsCounted,
         AnnouncedOnlyAfterFinish
<1>2. MessagesFollowEvents'
  BY DEF IInv, Written, MessagesFollowEvents
<1>3. \A e \in events : e.by \in Requests /\ pc[e.by] # "idle"
  BY DEF IInv, TypeOK, Written, EventsOfArrived
<1>4. EventsOfArrived'
  BY <1>3, Frame DEF IInv, EventsOfArrived
<1> QED
  BY <1>1, <1>2, <1>4 DEF Written

LEMMA WrittenStep ==
    ASSUME IInv, NEW r \in Requests, Step(r)
    PROVE  Written'
<1> USE DEF rows, messages, ghosts, Goto, Done
<1>0. CASE Refuse(r)
  BY <1>0, WrittenKept DEF Refuse
<1>1. CASE Arrive(r)
  BY <1>1, WrittenKept DEF Arrive
<1>2. CASE Post(r)
  <2>1. CASE PostRead(r) \/ PostReread(r) \/ PostSerialize(r)
    BY <1>0, <2>1, WrittenKept DEF PostRead, PostReread, PostSerialize
  <2>2. CASE PostInsert(r)
    BY <1>0, <2>2, WrittenKept DEF PostInsert, InsertJobstate
  <2>3. CASE PostWrite(r)
    <3>1. CASE Present
      <4>1. PICK s : /\ WriteJob(s, job.state)
                     /\ s = req[r].asked \/ s = job.status
        BY <2>3, <3>1 DEF PostWrite
      <4>2. req[r].asked \in AllStatuses /\ \E h \in history : h.asked = req[r].asked
        BY <2>3 DEF PostWrite, At, IInv, Progress, PostProgress, Evidence
      <4>3. s \in AllStatuses /\ job.state \in Live \union {"archived", "purged"}
        BY <4>1, <4>2 DEF IInv, TypeOK
      <4> QED
        BY <2>3, <3>1, <4>1, <4>2, <4>3, WrittenByRow DEF PostWrite
    <3> QED
      BY <1>0, <2>3, <3>1 DEF PostWrite
  <2>4. CASE PostEvent(r)
    BY <2>4, WrittenByEvent DEF PostEvent, At, IInv, Progress, PostProgress
  <2>5. CASE PostDispatch(r)
    <3>1. \E e \in events : e.by = r
      BY <2>5 DEF PostDispatch, At, IInv, Progress, PostProgress
    <3> QED
      BY <1>0, <2>5, <3>1, WrittenByMessage DEF PostDispatch
  <2>6. CASE PostPublish(r)
    <3>1. \E d \in dispatched : d.by = r
      BY <2>6 DEF PostPublish, At, IInv, Progress, PostProgress
    <3> QED
      BY <1>0, <2>6, <3>1, WrittenByMessage DEF PostPublish
  <2> QED
    BY <1>2, <2>1, <2>2, <2>3, <2>4, <2>5, <2>6 DEF Post
<1>3. CASE Put(r)
  <2>1. CASE PutRead(r)
    BY <1>0, <2>1, WrittenKept DEF PutRead
  <2>2. CASE PutInsert(r)
    BY <1>0, <2>2, WrittenKept DEF PutInsert, InsertJobstate
  <2>3. CASE PutEvent(r)
    <3>1. req[r].recorded = req[r].asked /\ Evidence(r) /\ req[r].kind # "post"
      BY <2>3 DEF PutEvent, At, IInv, Progress, PutProgress
    <3> QED
      BY <1>0, <2>3, <3>1, WrittenByEvent DEF PutEvent
  <2>4. CASE PutWrite(r)
    <3>1. CASE Present
      <4>1. /\ PutStatus(r) \in AllStatuses
            /\ PutStatus(r) = job.status \/ \E h \in history : h.asked = PutStatus(r)
        BY <2>4
        DEF PutWrite, At, PutStatus, Expired, IInv, TypeOK, Progress, PutProgress, Evidence
      <4>2. PutState(r) \in Live \union {"archived", "purged"}
        BY DEF PutState, IInv, TypeOK, RequestRecord
      <4> QED
        BY <2>4, <3>1, <4>1, <4>2, WrittenByRow DEF PutWrite
    <3> QED
      BY <1>0, <2>4, <3>1 DEF PutWrite
  <2> QED
    BY <1>3, <2>1, <2>2, <2>3, <2>4 DEF Put
<1>4. CASE Remove(r)
  <2>1. CASE DeleteRead(r) \/ DropRead(r) \/ DropWrite(r)
    BY <1>0, <2>1, WrittenKept DEF DeleteRead, DropRead, DropWrite
  <2>2. CASE DeleteWrite(r)
    <3>1. job.status \in AllStatuses
      BY DEF IInv, TypeOK
    <3> QED
      BY <1>0, <2>2, <3>1, WrittenByRow DEF DeleteWrite
  <2>3. CASE Purge(r)
    <3>1. job.state = "archived" => job'.status = job.status
      BY <2>3 DEF Purge, IInv, TypeOK
    <3> QED
      BY <1>0, <2>3, <3>1, WrittenKept DEF Purge
  <2> QED
    BY <1>4, <2>1, <2>2, <2>3 DEF Remove
<1>5. CASE Crash(r)
  BY <1>5, WrittenKept DEF Crash
<1> QED
  BY <1>1, <1>2, <1>3, <1>4, <1>5 DEF Step, Serve

-----------------------------------------------------------------------------
LEMMA IInvInvariant == Spec => []IInv
<1>1. IInv /\ [Next]_vars => IInv'
  <2> SUFFICES ASSUME IInv, [Next]_vars PROVE IInv'
    OBVIOUS
  <2>1. ASSUME NEW r \in Requests, Step(r) PROVE IInv'
    <3>1. TypeOK'
      BY <2>1, TypeStep
    <3>2. Written'
      BY <2>1, WrittenStep
    <3>3. \A q \in Requests : Progress(q)'
      BY <2>1, OwnProgress, OthersProgress
    <3> QED
      BY <3>1, <3>2, <3>3 DEF IInv
  <2>2. CASE UNCHANGED vars
    BY <2>2
    DEF vars, rows, messages, ghosts, IInv, TypeOK, Written, StatusIsRecorded,
        EventIsRecorded, MessagesFollowEvents, AnnouncedOnlyAfterFinish, FinalIsCounted,
        EventsOfArrived, Progress, PostProgress, PutProgress, Evidence, Final
  <2> QED
    BY <2>1, <2>2 DEF Next, Step
<1> QED
  BY InitInv, <1>1, PTL DEF Spec

(* Rows, messages and requests keep their shape, with any number of        *)
(* requests in flight (Job, Jobstate and JobEvent of models2.py).          *)
THEOREM TypeCorrect == Spec => []TypeOK
BY IInvInvariant, PTL DEF IInv

(* Whatever requests interleave or die, the row only shows a status that   *)
(* was first recorded as a jobstate (jobstates.py, jobs.py).               *)
THEOREM StatusRecorded == Spec => []StatusIsRecorded
<1>1. IInv => StatusIsRecorded
  BY DEF IInv, Written
<1> QED
  BY <1>1, IInvInvariant, PTL

(* The feed of jobs_events only tells what the same request made durable   *)
(* as a jobstate.                                                          *)
THEOREM EventRecorded == Spec => []EventIsRecorded
<1>1. IInv => EventIsRecorded
  BY DEF IInv, Written
<1> QED
  BY <1>1, IInvInvariant, PTL

(* Mails and job_finished messages only leave after the committed event.   *)
THEOREM MessagesFollow == Spec => []MessagesFollowEvents
<1>1. IInv => MessagesFollowEvents
  BY DEF IInv, Written
<1> QED
  BY <1>1, IInvInvariant, PTL

(* An agent's POST announces the end of a job only after the row has been  *)
(* final (is_job_final_state, update_resource_orm).                        *)
THEOREM AnnouncedAfterFinish == Spec => []AnnouncedOnlyAfterFinish
<1>1. IInv => AnnouncedOnlyAfterFinish
  BY DEF IInv, Written
<1> QED
  BY <1>1, IInvInvariant, PTL

-----------------------------------------------------------------------------
(* Requests that carry no resource state. *)
Stateless == \A r \in Requests : req[r].state = None

LEMMA StatelessStep ==
    ASSUME PutStates \subseteq {None}, TypeOK, Stateless, NEW r \in Requests, Step(r)
    PROVE  Stateless'
<1>1. \A q \in Requests \ {r} : req'[q].state = None
  BY Frame DEF Stateless
<1>2. req'[r].state = None
  <2>1. CASE Arrive(r)
    BY <2>1, CallsType DEF Arrive, TypeOK, NoRequest
  <2>2. CASE ~Arrive(r)
    BY <2>2
    DEF TypeOK, RequestRecord, Stateless, Step, Serve, Crash, Refuse, ghosts, messages, rows,
        Post, PostRead, PostInsert, PostReread, PostWrite, PostSerialize, PostEvent,
        PostDispatch, PostPublish,
        Put, PutRead, PutInsert, PutEvent, PutWrite,
        Remove, DeleteRead, DeleteWrite, Purge, DropRead, DropWrite
  <2> QED
    BY <2>1, <2>2
<1> QED
  BY <1>1, <1>2 DEF Stateless

(* Only an UPDATE that carries a state moves a row out of "archived". *)
LEMMA ArchivedStep ==
    ASSUME TypeOK, Stateless, NEW r \in Requests, Step(r)
    PROVE  /\ job.state = "archived" => job'.state \in {"archived", "purged"}
           /\ job.state = "purged" => job'.state = "purged"
<1> USE DEF TypeOK, rows, messages, ghosts, Refuse, Present, WriteJob
<1>1. CASE Arrive(r) \/ Crash(r)
  BY <1>1 DEF Arrive, Crash
<1>2. CASE Post(r)
  BY <1>2
  DEF Post, PostRead, PostInsert, PostReread, PostWrite, PostSerialize, PostEvent,
      PostDispatch, PostPublish
<1>3. CASE Put(r)
  BY <1>3 DEF Put, PutRead, PutInsert, PutEvent, PutWrite, PutState, Stateless
<1>4. CASE Remove(r)
  BY <1>4 DEF Remove, DeleteRead, DeleteWrite, Purge, DropRead, DropWrite
<1> QED
  BY <1>1, <1>2, <1>3, <1>4 DEF Step, Serve

(* A deleted job stays deleted, and a purged one purged, whatever requests *)
(* were in flight when it was, if none of them carries a state itself      *)
(* (delete_job_by_id, update_resource_orm).                                *)
THEOREM DeletedStaysDeleted ==
    ASSUME PutStates \subseteq {None}
    PROVE  Spec => ArchivedIsForGood
<1>1. Init => Stateless
  BY DEF Init, Stateless, NoRequest
<1>2. TypeOK /\ Stateless /\ [Next]_vars => Stateless'
  <2> SUFFICES ASSUME TypeOK, Stateless, [Next]_vars PROVE Stateless'
    OBVIOUS
  <2>1. CASE UNCHANGED vars
    BY <2>1 DEF vars, Stateless
  <2> QED
    BY <2>1, StatelessStep DEF Next, Step
<1>3. TypeOK /\ Stateless /\ [Next]_vars
        => [/\ job.state = "archived" => job'.state \in {"archived", "purged"}
            /\ job.state = "purged" => job'.state = "purged"]_vars
  BY ArchivedStep DEF Next, Step
<1> QED
  BY <1>1, <1>2, <1>3, TypeCorrect, PTL DEF Spec, ArchivedIsForGood

-----------------------------------------------------------------------------
(***************************************************************************)
(* Requests that come one by one. At most one is in flight, so what it has *)
(* read is still there when it writes.                                     *)
(***************************************************************************)

(* What a jobstate or an event records of a status that was asked: itself, *)
(* or an error for a failure of a job that had not started.                *)
Records(recorded, asked) ==
    recorded = asked \/ (recorded = "error" /\ asked = "failure")

Posting(r, labels) == req[r].kind = "post" /\ pc[r] \in labels

(* What a POST is to record is its status, from the time it has read the job. *)
RecordsAsked(r) ==
    Posting(r, {"insert", "reread", "write", "serialize", "event", "dispatch", "publish"})
        => Records(req[r].recorded, req[r].asked)

(* A request is of a kind that is served, and draws its date on arrival; a  *)
(* PUT records nothing before its insert.                                  *)
Arrived(r) ==
    /\ req[r].kind \in Kinds \union {None}
    /\ req[r].at < clock
    /\ pc[r] = "idle" => ~req[r].overlaps
    /\ req[r].kind = "put" /\ pc[r] \in {"read", "insert"} => req[r].recorded = None

(* Events and messages name the request that made them, which is past that. *)
TracesLeft ==
    /\ \A e \in events :
         \/ Posting(e.by, {"dispatch", "publish", "done", "crashed"})
            /\ Records(e.status, req[e.by].asked)
         \/ req[e.by].kind = "put" /\ pc[e.by] \in {"write", "done", "crashed"}
    /\ \A m \in dispatched : Posting(m.by, {"publish", "done", "crashed"})
    /\ \A j \in jobstates : j.at < clock
    /\ IsFiniteSet(events) /\ IsFiniteSet(dispatched)

TraceInv == TracesLeft /\ \A r \in Requests : RecordsAsked(r) /\ Arrived(r)

AtMostOne == \A r, s \in InFlight : r = s

(* The request that is to notify of an end that was counted. *)
Owed(labels) == IF \E r \in Requests : Posting(r, labels) THEN 1 ELSE 0

(* What no crash can break. *)
OneByOneInv ==
    /\ AtMostOne
    /\ \A r \in Requests :
         /\ Posting(r, {"write"}) => req[r].seen = job.status
         /\ Posting(r, {"serialize"}) => job.status = req[r].asked
         /\ Posting(r, {"event", "dispatch"}) => req[r].told = req[r].asked
    /\ \A m \in dispatched : m.status = req[m.by].asked
    /\ Cardinality(dispatched) + Owed({"serialize", "event", "dispatch"}) <= finishes

(* A request that inserted its jobstate and has not written the row yet. *)
Pending(r) ==
    \/ Posting(r, {"reread", "write"})
    \/ req[r].kind = "put" /\ req[r].recorded # None /\ pc[r] \in {"event", "write"}

IsLatest(j) == \A k \in jobstates : k.at <= j.at

(* What holds as long as none died, and no jobstate is dropped. *)
CalmInv ==
    /\ \A r \in Requests :
         /\ Posting(r, {"insert", "reread", "write", "serialize"}) => job.state \in Live
         /\ req[r].kind = "put" /\ pc[r] \in {"insert", "event", "write"}
              => job.state \in Live
         /\ Posting(r, {"read", "insert"})
              => \A j \in jobstates : j.at < req[r].at
         /\ Pending(r)
              => \A j \in jobstates : IsLatest(j) => j.status = req[r].recorded
         /\ req[r].kind = "put" /\ pc[r] = "write" /\ req[r].recorded \in Final
              => finishes < Cardinality(events)
    /\ (\A r \in Requests : ~Pending(r))
         => \A j \in jobstates : IsLatest(j) => Records(j.status, job.status)
    /\ finishes <= Cardinality(events) + Owed({"serialize", "event"})

Calm == OneByOne /\ "drop" \notin Kinds /\ \A r \in Requests : pc[r] # "crashed"

SeqInv ==
    /\ IInv /\ TraceInv
    /\ OneByOne => OneByOneInv
    /\ Calm => CalmInv

LEMMA Carried ==
    ASSUME TypeOK, NEW r \in Requests, Step(r), NEW q \in Requests, pc[q] # "idle"
    PROVE  /\ req'[q].kind = req[q].kind /\ req'[q].asked = req[q].asked
           /\ req'[q].at = req[q].at /\ req'[q].overlaps = req[q].overlaps
           /\ pc'[q] # "idle"
<1>1. CASE q # r
  BY <1>1, Frame
<1>2. CASE q = r
  <2>1. ~Arrive(r)
    BY <1>2 DEF Arrive
  <2> QED
    BY <1>2, <2>1, Frame
    DEF TypeOK, RequestRecord, Step, Serve, Crash, Refuse, ghosts, messages, rows,
        Post, PostRead, PostInsert, PostReread, PostWrite, PostSerialize, PostEvent,
        PostDispatch, PostPublish,
        Put, PutRead, PutInsert, PutEvent, PutWrite,
        Remove, DeleteRead, DeleteWrite, Purge, DropRead, DropWrite
<1> QED
  BY <1>1, <1>2

(* What a round trip of a POST leads to. *)
LEMMA PostNext ==
    ASSUME TypeOK, NEW r \in Requests, Post(r)
    PROVE  /\ req[r].kind = "post"
           /\ pc[r] \in {"read", "insert", "reread", "write", "serialize", "event",
                         "dispatch", "publish"}
           /\ \/ pc'[r] = "done"
              \/ pc[r] = "read" /\ pc'[r] = "insert"
              \/ pc[r] = "insert" /\ pc'[r] = "reread"
              \/ pc[r] = "reread" /\ pc'[r] = "write"
              \/ pc[r] = "write" /\ pc'[r] = "serialize"
              \/ pc[r] = "serialize" /\ pc'[r] = "event"
              \/ pc[r] = "event" /\ pc'[r] = "dispatch"
              \/ pc[r] = "dispatch" /\ pc'[r] = "publish"
           /\ pc[r] # "read" => req'[r].recorded = req[r].recorded
BY DEF TypeOK, RequestRecord, Post, At, Goto, Done, Refuse, PostRead, PostInsert, PostReread,
       PostWrite, PostSerialize, PostEvent, PostDispatch, PostPublish

LEMMA ClockGrows ==
    ASSUME TypeOK, NEW r \in Requests, Step(r)
    PROVE  clock \in Nat /\ clock' \in {clock, clock + 1}
<1> USE DEF rows, messages, ghosts, Refuse
<1>1. CASE Arrive(r) \/ Crash(r)
  BY <1>1 DEF Arrive, Crash, TypeOK
<1>2. CASE Post(r)
  BY <1>2 DEF TypeOK, Post, PostRead, PostInsert, PostReread, PostWrite, PostSerialize,
              PostEvent, PostDispatch, PostPublish
<1>3. CASE Put(r)
  BY <1>3 DEF TypeOK, Put, PutRead, PutInsert, PutEvent, PutWrite
<1>4. CASE Remove(r)
  BY <1>4 DEF TypeOK, Remove, DeleteRead, DeleteWrite, Purge, DropRead, DropWrite
<1> QED
  BY <1>1, <1>2, <1>3, <1>4 DEF Step, Serve

LEMMA ArrivedStep ==
    ASSUME IInv, TraceInv, NEW r \in Requests, Step(r), NEW q \in Requests
    PROVE  Arrived(q)'
<1>1. TypeOK /\ Arrived(q) /\ req[q].at \in Nat
  BY DEF IInv, TraceInv, TypeOK, RequestRecord
<1>2. clock \in Nat /\ clock' \in Nat /\ clock' >= clock
  BY <1>1, ClockGrows
<1>3. CASE q # r
  <2>1. pc'[q] = pc[q] /\ req'[q] = req[q]
    BY <1>1, <1>3, Frame
  <2> QED
    BY <1>1, <1>2, <2>1 DEF Arrived
<1>4. CASE q = r /\ Arrive(r)
  <2>1. /\ req'[r].at = clock /\ clock' = clock + 1
        /\ req'[r].recorded = None /\ req'[r].kind \in Kinds
    BY <1>1, <1>4 DEF Arrive, TypeOK, NoRequest, Calls
  <2>2. pc'[r] # "idle"
    BY <1>1, Frame
  <2> QED
    BY <1>2, <1>4, <2>1, <2>2 DEF Arrived
<1>5. CASE q = r /\ ~Arrive(r)
  <2>1. pc[r] # "idle"
    BY <1>5 DEF Step, Serve, Crash, InFlight, Post, Put, Remove, At, PostRead, PostInsert,
         PostReread, PostWrite, PostSerialize, PostEvent, PostDispatch, PostPublish, PutRead,
         PutInsert, PutEvent, PutWrite, DeleteRead, DeleteWrite, Purge, DropRead, DropWrite
  <2>2. /\ req'[r].kind = req[r].kind /\ req'[r].at = req[r].at
        /\ req'[r].overlaps = req[r].overlaps /\ pc'[r] # "idle"
    BY <1>1, <2>1, Carried
  <2>3. ASSUME req[r].kind = "put", pc'[r] \in {"read", "insert"}
        PROVE  req'[r].recorded = None
    <3>1. PutRead(r) /\ ~Refuse(r)
      BY <1>1, <1>5, <2>3
      DEF Step, Serve, Post, Put, Remove, At, PostRead, PostInsert, PostReread, PostWrite,
          PostSerialize, PostEvent, PostDispatch, PostPublish, PutInsert, PutEvent, PutWrite,
          DeleteRead, DeleteWrite, Purge, DropRead, DropWrite, Crash, Goto, Done, Refuse, TypeOK
    <3> QED
      BY <1>1, <1>5, <2>3, <3>1 DEF PutRead, At, TypeOK, RequestRecord, Arrived
  <2> QED
    BY <1>1, <1>2, <1>5, <2>2, <2>3 DEF Arrived
<1> QED
  BY <1>3, <1>4, <1>5

LEMMA TraceStep ==
    ASSUME IInv, TraceInv, NEW r \in Requests, Step(r)
    PROVE  TraceInv'
<1>0. /\ TypeOK /\ TypeOK' /\ NoRequest.kind = None /\ NoRequest.at = 0
      /\ req[r] \in RequestRecord
  BY TypeStep DEF IInv, NoRequest, TypeOK
<1>1. \A q \in Requests \ {r} : RecordsAsked(q)'
  BY <1>0, Frame DEF TraceInv, RecordsAsked, Posting
<1>2. RecordsAsked(r)'
  <2>1. CASE Arrive(r)
    BY <1>0, <2>1 DEF Arrive, Goto, TypeOK, RecordsAsked, Posting
  <2>2. CASE Post(r)
    <3>1. CASE PostRead(r)
      <4>1. job.state \in Live
              => req'[r].recorded = Recorded(req[r].asked, job.status)
        BY <1>0, <3>1 DEF PostRead, TypeOK, RequestRecord
      <4>2. Records(Recorded(req[r].asked, job.status), req[r].asked)
        BY DEF Records, Recorded
      <4>3. CASE job.state \in Live
        BY <1>0, <2>2, <4>1, <4>2, <4>3, <3>1, Carried DEF PostRead, At, RecordsAsked, Posting
      <4>4. CASE job.state \notin Live
        BY <1>0, <3>1, <4>4 DEF PostRead, Refuse, Done, Goto, TypeOK, RecordsAsked, Posting
      <4> QED
        BY <4>3, <4>4
    <3>2. CASE ~PostRead(r)
      <4>1. pc[r] # "read" /\ pc[r] # "idle"
        BY <1>0, <2>2, <3>2, PostNext
        DEF Post, At, PostInsert, PostReread, PostWrite, PostSerialize, PostEvent,
            PostDispatch, PostPublish
      <4> QED
        BY <1>0, <2>2, <4>1, PostNext, Carried DEF TraceInv, RecordsAsked, Posting
    <3> QED
      BY <3>1, <3>2
  <2>3. CASE Put(r) \/ Remove(r)
    <3>1. req[r].kind # "post" /\ pc[r] # "idle"
      BY <2>3 DEF Put, Remove, At, PutRead, PutInsert, PutEvent, PutWrite, DeleteRead, DeleteWrite,
                  Purge, DropRead, DropWrite
    <3> QED
      BY <1>0, <3>1, Carried DEF RecordsAsked, Posting
  <2>4. CASE Crash(r)
    BY <1>0, <2>4 DEF Crash, Goto, TypeOK, RecordsAsked, Posting
  <2> QED
    BY <2>1, <2>2, <2>3, <2>4 DEF Step, Serve
<1>3. ASSUME NEW e \in events
      PROVE  \/ /\ Posting(e.by, {"dispatch", "publish", "done", "crashed"})'
                /\ Records(e.status, req'[e.by].asked)
             \/ req'[e.by].kind = "put" /\ pc'[e.by] \in {"write", "done", "crashed"}
  <2>1. e.by \in Requests /\ pc[e.by] # "idle"
    BY <1>0 DEF TraceInv, TracesLeft, Posting, TypeOK
  <2>2. CASE e.by # r
    BY <1>0, <2>1, <2>2, Frame DEF TraceInv, TracesLeft, Posting
  <2>3. CASE e.by = r
    <3>1. pc[r] \in {"dispatch", "publish", "done", "crashed", "write"}
      BY <2>3 DEF TraceInv, TracesLeft, Posting
    <3>2. CASE Post(r)
      <4>1. pc'[r] \in {"publish", "done"}
        BY <1>0, <2>3, <3>1, <3>2, PostNext DEF TraceInv, TracesLeft, Posting
      <4> QED
        BY <1>0, <2>1, <2>3, <3>2, <4>1, PostNext, Carried DEF TraceInv, TracesLeft, Posting
    <3>3. CASE Put(r)
      <4>1. req[r].kind = "put" /\ pc'[r] = "done"
        BY <1>0, <3>1, <3>3 DEF Put, PutRead, PutInsert, PutEvent, PutWrite, Refuse, Done, Goto, At,
                          TypeOK
      <4> QED
        BY <1>0, <2>1, <2>3, <3>3, <4>1, Carried
    <3>4. CASE Remove(r)
      BY <2>3, <3>4 DEF TraceInv, TracesLeft, Posting, Remove, At, DeleteRead, DeleteWrite,
                        Purge, DropRead, DropWrite
    <3>5. CASE Crash(r)
      BY <1>0, <2>1, <2>3, <3>5, Carried DEF Crash, Goto, TypeOK, TraceInv, TracesLeft, Posting
    <3>6. ~Arrive(r)
      BY <2>1, <2>3 DEF Arrive
    <3> QED
      BY <3>2, <3>3, <3>4, <3>5, <3>6 DEF Step, Serve
  <2> QED
    BY <2>2, <2>3
<1>4. ASSUME NEW e \in events' \ events
      PROVE  \/ /\ Posting(e.by, {"dispatch", "publish", "done", "crashed"})'
                /\ Records(e.status, req'[e.by].asked)
             \/ req'[e.by].kind = "put" /\ pc'[e.by] \in {"write", "done", "crashed"}
  <2>1. (PostEvent(r) \/ PutEvent(r)) /\ ~Refuse(r)
    BY DEF Step, Arrive, Serve, Crash, Refuse, ghosts, messages, rows,
           Post, PostRead, PostInsert, PostReread, PostWrite, PostSerialize,
           PostDispatch, PostPublish, Put, PutRead, PutInsert, PutWrite,
           Remove, DeleteRead, DeleteWrite, Purge, DropRead, DropWrite
  <2>2. CASE PostEvent(r)
    BY <1>0, <2>2
    DEF PostEvent, CreateEvent, At, Goto, TypeOK, TraceInv, RecordsAsked, Posting
  <2>3. CASE PutEvent(r)
    BY <1>0, <2>1, <2>3 DEF PutEvent, CreateEvent, At, Goto, TypeOK
  <2> QED
    BY <2>1, <2>2, <2>3
<1>5. ASSUME NEW m \in dispatched'
      PROVE  Posting(m.by, {"publish", "done", "crashed"})'
  <2>1. CASE m \in dispatched
    <3>1. /\ m.by \in Requests /\ req[m.by].kind = "post"
          /\ pc[m.by] \in {"publish", "done", "crashed"}
      BY <1>0, <2>1 DEF TraceInv, TracesLeft, Posting, TypeOK
    <3>2. req'[m.by].kind = "post"
      BY <1>0, <3>1, Carried
    <3>3. CASE m.by # r
      BY <1>0, <3>1, <3>3, Frame DEF Posting
    <3>4. CASE m.by = r /\ Post(r)
      BY <1>0, <3>1, <3>2, <3>4, PostNext DEF Posting
    <3>5. CASE m.by = r /\ ~Post(r)
      BY <1>0, <3>1, <3>2, <3>5
      DEF Posting, Step, Arrive, Serve, Crash, Goto, TypeOK, Put, Remove, At, PutRead,
          PutInsert, PutEvent, PutWrite, DeleteRead, DeleteWrite, Purge, DropRead, DropWrite
    <3> QED
      BY <3>3, <3>4, <3>5
  <2>2. CASE m \notin dispatched
    <3>1. PostDispatch(r) /\ ~Refuse(r)
      BY <2>2
      DEF Step, Arrive, Serve, Crash, Refuse, ghosts, messages, rows,
          Post, PostRead, PostInsert, PostReread, PostWrite, PostSerialize, PostEvent,
          PostPublish, Put, PutRead, PutInsert, PutEvent, PutWrite,
          Remove, DeleteRead, DeleteWrite, Purge, DropRead, DropWrite
    <3> QED
      BY <1>0, <2>2, <3>1 DEF PostDispatch, At, Goto, TypeOK, Posting
  <2> QED
    BY <2>1, <2>2
<1>6. \A j \in jobstates' : j.at < clock'
  <2>1. CASE jobstates' \subseteq jobstates
    <3>1. clock' >= clock
      BY <1>0, ClockGrows
    <3>2. \A j \in jobstates : j.at \in Nat /\ j.at < clock
      BY <1>0 DEF TraceInv, TracesLeft, TypeOK
    <3> QED
      BY <1>0, <2>1, <3>1, <3>2 DEF TypeOK
  <2>2. CASE ~(jobstates' \subseteq jobstates)
    <3>1. (PostInsert(r) \/ PutInsert(r)) /\ ~Refuse(r)
      BY <2>2
      DEF Step, Arrive, Serve, Crash, Refuse, ghosts, messages, rows,
          Post, PostRead, PostReread, PostWrite, PostSerialize, PostEvent, PostDispatch,
          PostPublish, Put, PutRead, PutEvent, PutWrite,
          Remove, DeleteRead, DeleteWrite, Purge, DropRead, DropWrite
    <3> QED
      BY <1>0, <3>1 DEF PostInsert, PutInsert, InsertJobstate, TraceInv, TracesLeft, Arrived, TypeOK,
                  RequestRecord, At
  <2> QED
    BY <2>1, <2>2
<1>7. \A q \in Requests : Arrived(q)'
  BY ArrivedStep
<1>8. IsFiniteSet(events') /\ IsFiniteSet(dispatched')
  <2>1. events' = events \/ \E e : events' = events \union {e}
    BY DEF Step, Arrive, Serve, Crash, Refuse, ghosts, messages, rows, CreateEvent,
           Post, PostRead, PostInsert, PostReread, PostWrite, PostSerialize, PostEvent,
           PostDispatch, PostPublish, Put, PutRead, PutInsert, PutEvent, PutWrite,
           Remove, DeleteRead, DeleteWrite, Purge, DropRead, DropWrite
  <2>2. dispatched' = dispatched \/ \E m : dispatched' = dispatched \union {m}
    BY DEF Step, Arrive, Serve, Crash, Refuse, ghosts, messages, rows,
           Post, PostRead, PostInsert, PostReread, PostWrite, PostSerialize, PostEvent,
           PostDispatch, PostPublish, Put, PutRead, PutInsert, PutEvent, PutWrite,
           Remove, DeleteRead, DeleteWrite, Purge, DropRead, DropWrite
  <2> QED
    BY <2>1, <2>2, FS_AddElement DEF TraceInv, TracesLeft
<1> QED
  BY <1>1, <1>2, <1>3, <1>4, <1>5, <1>6, <1>7, <1>8 DEF TraceInv, TracesLeft

-----------------------------------------------------------------------------
Resting == {"idle", "done", "crashed"}

(* The request that takes a step is the only one in flight. *)
LEMMA Alone ==
    ASSUME IInv, TraceInv, OneByOne => AtMostOne, NEW r \in Requests, Step(r), OneByOne'
    PROVE  /\ OneByOne
           /\ AtMostOne'
           /\ \A q \in Requests \ {r} :
                pc[q] \in Resting /\ pc'[q] = pc[q] /\ req'[q] = req[q]
           /\ pc[r] \in Resting => Arrive(r) /\ pc'[r] = "read"
<1>0. TypeOK
  BY DEF IInv
<1>1. OneByOne
  <2> SUFFICES ASSUME NEW q \in Requests, req[q].overlaps PROVE FALSE
    BY DEF OneByOne
  <2>1. CASE pc[q] # "idle"
    BY <1>0, <2>1, Carried DEF OneByOne
  <2>2. CASE pc[q] = "idle" /\ q # r
    BY <1>0, <2>2, Frame DEF OneByOne
  <2>3. CASE pc[q] = "idle" /\ q = r
    BY <2>3 DEF TraceInv, Arrived
  <2> QED
    BY <2>1, <2>2, <2>3
<1>2. CASE Arrive(r)
  <2>1. InFlight = {}
    BY <1>0, <1>2 DEF Arrive, OneByOne, TypeOK, NoRequest
  <2> QED
    BY <1>0, <1>1, <1>2, <2>1, Frame DEF InFlight, AtMostOne, Resting, Arrive, Goto, TypeOK
<1>3. CASE ~Arrive(r)
  <2>1. r \in InFlight
    BY <1>3 DEF Step, Serve, Crash, InFlight, Post, Put, Remove, At, PostRead, PostInsert,
         PostReread, PostWrite, PostSerialize, PostEvent, PostDispatch, PostPublish, PutRead,
         PutInsert, PutEvent, PutWrite, DeleteRead, DeleteWrite, Purge, DropRead, DropWrite
  <2> QED
    BY <1>0, <1>1, <2>1, Frame DEF InFlight, AtMostOne, Resting
<1> QED
  BY <1>2, <1>3

LEMMA OwedAlone ==
    ASSUME NEW r \in Requests, \A q \in Requests \ {r} : pc[q] \in Resting,
           NEW labels \in SUBSET (Labels \ Resting)
    PROVE  Owed(labels) = IF Posting(r, labels) THEN 1 ELSE 0
BY DEF Owed, Posting

LEMMA OneByOneStep ==
    ASSUME IInv, TraceInv, OneByOne => OneByOneInv, NEW r \in Requests, Step(r), OneByOne'
    PROVE  OneByOneInv'
<1> DEFINE L == {"serialize", "event", "dispatch"}
<1>0. /\ TypeOK /\ TypeOK' /\ req[r] \in RequestRecord
      /\ finishes \in Nat /\ finishes' \in Nat /\ finishes' >= finishes
  BY TypeStep, Frame DEF IInv, TypeOK
<1>1. /\ OneByOneInv /\ AtMostOne'
      /\ \A q \in Requests \ {r} :
           pc[q] \in Resting /\ pc'[q] = pc[q] /\ req'[q] = req[q]
  BY Alone DEF OneByOneInv
<1>2. L \in SUBSET (Labels \ Resting) /\ L = {"serialize", "event", "dispatch"}
  BY DEF Labels, Resting
<1>3. Owed(L) = IF Posting(r, L) THEN 1 ELSE 0
  BY <1>1, <1>2, OwedAlone
<1>4. Owed(L)' = IF Posting(r, L)' THEN 1 ELSE 0
  BY <1>1, <1>2 DEF Owed, Posting, Resting
<1>5. Cardinality(dispatched) \in Nat
  BY FS_CardinalityType DEF TraceInv, TracesLeft
<1>6. Cardinality(dispatched) + (IF Posting(r, L) THEN 1 ELSE 0) <= finishes
  BY <1>1, <1>2, <1>3 DEF OneByOneInv
<1>7. SUFFICES /\ Posting(r, {"write"})' => req'[r].seen = job'.status
               /\ Posting(r, {"serialize"})' => job'.status = req'[r].asked
               /\ Posting(r, {"event", "dispatch"})' => req'[r].told = req'[r].asked
               /\ \A m \in dispatched' : m.status = req'[m.by].asked
               /\ Cardinality(dispatched') + (IF Posting(r, L)' THEN 1 ELSE 0) <= finishes'
  <2>1. Cardinality(dispatched') + Owed({"serialize", "event", "dispatch"})' <= finishes'
    BY <1>2, <1>4, <1>7
  <2>2. \A q \in Requests :
         /\ Posting(q, {"write"})' => req'[q].seen = job'.status
         /\ Posting(q, {"serialize"})' => job'.status = req'[q].asked
         /\ Posting(q, {"event", "dispatch"})' => req'[q].told = req'[q].asked
    BY <1>1, <1>7 DEF Posting, Resting
  <2> QED
    BY <1>1, <1>7, <2>1, <2>2 DEF OneByOneInv
<1>8. \A m \in dispatched : m.status = req'[m.by].asked
  <2> SUFFICES ASSUME NEW m \in dispatched PROVE m.status = req'[m.by].asked
    OBVIOUS
  <2>1. m.by \in Requests /\ pc[m.by] # "idle" /\ m.status = req[m.by].asked
    BY <1>0, <1>1 DEF TraceInv, TracesLeft, Posting, TypeOK, OneByOneInv
  <2> QED
    BY <1>0, <2>1, Carried
<1> HIDE DEF L
(* A step that posts nothing. *)
<1>9. ASSUME ~Posting(r, L)', ~Posting(r, {"write"})', dispatched' = dispatched
      PROVE  /\ Posting(r, {"write"})' => req'[r].seen = job'.status
             /\ Posting(r, {"serialize"})' => job'.status = req'[r].asked
             /\ Posting(r, {"event", "dispatch"})' => req'[r].told = req'[r].asked
             /\ \A m \in dispatched' : m.status = req'[m.by].asked
             /\ Cardinality(dispatched') + (IF Posting(r, L)' THEN 1 ELSE 0) <= finishes'
  <2>1. Cardinality(dispatched') + 0 <= finishes'
    BY <1>0, <1>5, <1>6, <1>9
  <2> QED
    BY <1>2, <1>8, <1>9, <2>1 DEF Posting
<1>10. CASE Arrive(r) \/ Crash(r)
  <2>1. pc'[r] \in {"read", "crashed"}
    BY <1>0, <1>10 DEF Arrive, Crash, Goto, TypeOK
  <2>2. ~Posting(r, L)' /\ ~Posting(r, {"write"})' /\ dispatched' = dispatched
    BY <1>2, <1>10, <2>1 DEF Posting, Arrive, Crash, messages
  <2> QED
    BY <1>9, <2>2
<1>11. CASE Put(r) \/ Remove(r)
  <2>1. req[r].kind # "post" /\ pc[r] # "idle"
    BY <1>11 DEF Put, Remove, At, PutRead, PutInsert, PutEvent, PutWrite, DeleteRead,
                 DeleteWrite, Purge, DropRead, DropWrite
  <2>2. dispatched' = dispatched
    BY <1>11 DEF Put, Remove, PutRead, PutInsert, PutEvent, PutWrite, DeleteRead, rows,
                 DeleteWrite, Purge, DropRead, DropWrite, Refuse, messages
  <2>3. ~Posting(r, L)' /\ ~Posting(r, {"write"})'
    BY <1>0, <2>1, Carried DEF Posting
  <2> QED
    BY <1>9, <2>2, <2>3
<1>12. CASE Post(r)
  <2>0. req'[r].kind = "post" /\ req'[r].asked = req[r].asked /\ req[r].kind = "post"
        /\ pc[r] # "idle"
    BY <1>0, <1>12, PostNext, Carried
  <2>1. CASE Refuse(r) \/ PostRead(r) \/ PostInsert(r) \/ PostPublish(r)
    <3>1. pc'[r] \in {"insert", "reread", "done"} /\ dispatched' = dispatched
      BY <1>0, <2>1 DEF Refuse, PostRead, PostInsert, PostPublish, messages, Goto, Done, TypeOK
    <3>2. ~Posting(r, L)' /\ ~Posting(r, {"write"})'
      BY <1>2, <3>1 DEF Posting
    <3> QED
      BY <1>9, <3>1, <3>2
  <2>2. CASE PostReread(r) /\ ~Refuse(r)
    <3>1. pc'[r] = "write" /\ dispatched' = dispatched /\ req'[r].seen = job'.status
      BY <1>0, <2>2 DEF PostReread, messages, rows, Goto, TypeOK, RequestRecord
    <3>2. ~Posting(r, L)'
      BY <1>2, <3>1 DEF Posting
    <3>3. Cardinality(dispatched') + 0 <= finishes'
      BY <1>0, <1>5, <1>6, <3>1
    <3> QED
      BY <1>8, <3>1, <3>2, <3>3 DEF Posting
  <2>3. CASE PostWrite(r) /\ ~Refuse(r)
    <3>1. Posting(r, {"write"}) /\ ~Posting(r, L) /\ dispatched' = dispatched
      BY <1>2, <2>3 DEF PostWrite, At, Posting, messages
    <3>2. req[r].seen = job.status
      BY <1>1, <3>1 DEF OneByOneInv
    <3>3. CASE Announces(r)
      <4>1. WriteJob(req[r].asked, job.state)
        BY <2>3, <3>2, <3>3 DEF PostWrite, Announces
      <4>2. job'.status = req[r].asked /\ finishes' = finishes + 1
        BY <3>2, <3>3, <4>1 DEF WriteJob, Announces
      <4>3. pc'[r] = "serialize"
        BY <1>0, <2>3, <3>3 DEF PostWrite, Goto, TypeOK
      <4>4. Cardinality(dispatched') + 1 <= finishes'
        BY <1>0, <1>5, <1>6, <3>1, <4>2
      <4>5. Cardinality(dispatched') + (IF Posting(r, L)' THEN 1 ELSE 0) <= finishes'
        BY <1>0, <1>2, <2>0, <4>3, <4>4 DEF Posting
      <4> QED
        BY <1>8, <2>0, <3>1, <4>2, <4>3, <4>5 DEF Posting
    <3>4. CASE ~Announces(r)
      <4>1. pc'[r] = "done"
        BY <1>0, <2>3, <3>4 DEF PostWrite, Goto, TypeOK
      <4>2. ~Posting(r, L)' /\ ~Posting(r, {"write"})'
        BY <1>2, <4>1 DEF Posting
      <4> QED
        BY <1>9, <3>1, <4>2
    <3> QED
      BY <3>3, <3>4
  <2>4. CASE (PostSerialize(r) \/ PostEvent(r)) /\ ~Refuse(r)
    <3>1. Posting(r, L) /\ dispatched' = dispatched
      BY <1>2, <2>4 DEF PostSerialize, PostEvent, At, Posting, messages
    <3>2. pc'[r] \in {"event", "dispatch"}
      BY <1>0, <2>4 DEF PostSerialize, PostEvent, Goto, TypeOK
    <3>3. req'[r].told = req[r].asked
      BY <1>0, <1>1, <2>4
      DEF PostSerialize, PostEvent, At, Posting, OneByOneInv, Told, TypeOK, RequestRecord
    <3>4. Cardinality(dispatched') + (IF Posting(r, L)' THEN 1 ELSE 0) <= finishes'
      BY <1>0, <1>5, <1>6, <3>1
    <3> QED
      BY <1>8, <2>0, <3>1, <3>2, <3>3, <3>4 DEF Posting
  <2>5. CASE PostDispatch(r) /\ ~Refuse(r)
    <3> DEFINE m == [by |-> r, status |-> req[r].told]
    <3>1. Posting(r, L) /\ dispatched' = dispatched \union {m} /\ pc'[r] = "publish"
      BY <1>0, <1>2, <2>5 DEF PostDispatch, At, Posting, Goto, TypeOK
    <3>2. m.status = req'[m.by].asked
      BY <1>0, <1>1, <2>0, <2>5 DEF PostDispatch, At, Posting, OneByOneInv
    <3>3. Cardinality(dispatched') <= Cardinality(dispatched) + 1
      <4>1. IsFiniteSet(dispatched)
        BY DEF TraceInv, TracesLeft
      <4>2. \A x : Cardinality(dispatched \union {x}) \in {Cardinality(dispatched),
                                                        Cardinality(dispatched) + 1}
        BY <4>1, FS_AddElement
      <4>3. Cardinality(dispatched') \in {Cardinality(dispatched), Cardinality(dispatched) + 1}
        BY <3>1, <4>2, Zenon
      <4> QED
        BY <1>5, <4>3
    <3>4. Cardinality(dispatched') \in Nat
      BY FS_CardinalityType, TraceStep DEF TraceInv, TracesLeft
    <3>5. Cardinality(dispatched') + 0 <= finishes'
      BY <1>0, <1>5, <1>6, <3>1, <3>3, <3>4
    <3>6. ~Posting(r, L)'
      BY <1>2, <3>1 DEF Posting
    <3>7. \A k \in dispatched' : k.status = req'[k.by].asked
      BY <1>8, <3>1, <3>2
    <3> QED
      BY <3>1, <3>5, <3>6, <3>7 DEF Posting
  <2> QED
    BY <1>12, <2>1, <2>2, <2>3, <2>4, <2>5 DEF Post
<1> QED
  BY <1>10, <1>11, <1>12 DEF Step, Serve

-----------------------------------------------------------------------------
Unfed == {"serialize", "event"}

(* What CalmInv says of the request in flight, and of the row. *)
CalmOf(r) ==
    /\ Posting(r, {"insert", "reread", "write", "serialize"}) => job.state \in Live
    /\ req[r].kind = "put" /\ pc[r] \in {"insert", "event", "write"} => job.state \in Live
    /\ Posting(r, {"read", "insert"}) => \A j \in jobstates : j.at < req[r].at
    /\ Pending(r) => \A j \in jobstates : IsLatest(j) => j.status = req[r].recorded
    /\ req[r].kind = "put" /\ pc[r] = "write" /\ req[r].recorded \in Final
         => finishes < Cardinality(events)
    /\ ~Pending(r) => \A j \in jobstates : IsLatest(j) => Records(j.status, job.status)
    /\ finishes <= Cardinality(events) + (IF Posting(r, Unfed) THEN 1 ELSE 0)

(* It is enough to look at the one request that is in flight. *)
LEMMA CalmOfOne ==
    ASSUME NEW r \in Requests, \A q \in Requests \ {r} : pc[q] \in Resting, CalmInv
    PROVE  CalmOf(r)
<1>1. Owed(Unfed) = IF Posting(r, Unfed) THEN 1 ELSE 0
  BY DEF Owed, Posting, Unfed, Resting
<1>2. \A q \in Requests \ {r} : ~Pending(q)
  BY DEF Pending, Posting, Resting
<1>3. (\A q \in Requests : ~Pending(q)) <=> ~Pending(r)
  BY <1>2
<1> QED
  BY <1>1, <1>3 DEF CalmInv, CalmOf, Unfed

LEMMA CalmOfAll ==
    ASSUME NEW r \in Requests, \A q \in Requests \ {r} : pc'[q] \in Resting, CalmOf(r)'
    PROVE  CalmInv'
<1>1. Owed(Unfed)' = IF Posting(r, Unfed)' THEN 1 ELSE 0
  BY DEF Owed, Posting, Unfed, Resting
<1>2. \A q \in Requests \ {r} : ~Pending(q)'
  BY DEF Pending, Posting, Resting
<1>3. (\A q \in Requests : ~Pending(q)') <=> ~Pending(r)'
  BY <1>2
<1>4. \A q \in Requests \ {r} :
        /\ pc'[q] \notin {"read", "insert", "event", "write", "reread", "serialize"}
        /\ ~Posting(q, {"insert", "reread", "write", "serialize"})'
        /\ ~Posting(q, {"read", "insert"})'
  BY DEF Posting, Resting
<1> QED
  BY <1>1, <1>2, <1>3, <1>4 DEF CalmInv, CalmOf, Unfed

(* A jobstate dated after all the others is the latest. *)
LEMMA LatestIsNew ==
    ASSUME TypeOK, NEW new, new.at \in Nat, \A j \in jobstates : j.at < new.at,
           jobstates' = jobstates \union {new}, NEW j \in jobstates', IsLatest(j)'
    PROVE  j = new
<1>1. \A k \in jobstates : k.at \in Nat
  BY DEF TypeOK
<1> QED
  BY <1>1 DEF IsLatest

LEMMA EventCounted ==
    ASSUME TypeOK, TraceInv, NEW r \in Requests, NEW s, CreateEvent(r, s),
           pc[r] = "event"
    PROVE  Cardinality(events') = Cardinality(events) + 1
<1>1. [by |-> r, status |-> s] \notin events
  BY DEF TraceInv, TracesLeft, Posting
<1>2. IsFiniteSet(events)
  BY DEF TraceInv, TracesLeft
<1>3. \A x : x \notin events => Cardinality(events \union {x}) = Cardinality(events) + 1
  BY <1>2, FS_AddElement
<1>4. events' = events \union {[by |-> r, status |-> s]}
  BY DEF CreateEvent
<1> QED
  BY <1>1, <1>3, <1>4, Zenon

LEMMA CalmStep ==
    ASSUME IInv, TraceInv, OneByOne => OneByOneInv, Calm => CalmInv,
           NEW r \in Requests, Step(r), Calm'
    PROVE  CalmInv'
<1>0. /\ TypeOK /\ TypeOK' /\ req[r] \in RequestRecord
      /\ finishes \in Nat /\ finishes' \in Nat
      /\ Cardinality(events) \in Nat
  BY TypeStep, FS_CardinalityType DEF IInv, TypeOK, TraceInv, TracesLeft
<1>1. /\ OneByOne /\ OneByOneInv
      /\ \A q \in Requests \ {r} :
           pc[q] \in Resting /\ pc'[q] = pc[q] /\ req'[q] = req[q]
      /\ pc[r] \in Resting => Arrive(r) /\ pc'[r] = "read"
  BY Alone DEF OneByOneInv, Calm
<1>2. Calm
  BY <1>1 DEF Calm, Arrive, Resting
<1>3. CalmOf(r)
  BY <1>1, <1>2, CalmOfOne
<1>4. SUFFICES CalmOf(r)'
  BY <1>1, CalmOfAll
<1>5. RecordsAsked(r) /\ Arrived(r) /\ Progress(r)
  BY DEF TraceInv, IInv
<1>6. CASE Refuse(r)
  <2>1. pc'[r] = "done" /\ UNCHANGED <<job, jobstates, events, finishes>>
    BY <1>0, <1>6 DEF Refuse, Done, Goto, TypeOK, rows, ghosts
  <2>2. ~Arrive(r)
    BY <1>0, <2>1 DEF Arrive, Goto, TypeOK
  <2>3. ~Pending(r) /\ ~Posting(r, Unfed)
    <3> SUFFICES ASSUME Pending(r) \/ Posting(r, Unfed) PROVE FALSE
      OBVIOUS
    <3>1. ~Crash(r)
      BY <1>0, <2>1 DEF Crash, Goto, TypeOK
    <3>2. \A s, t : ~WriteJob(s, t)
      BY <1>0, <2>1 DEF WriteJob, TypeOK
    <3>3. CASE req[r].kind = "post"
      <4>1. CASE pc[r] = "event"
        BY <1>0, <2>1, <2>2, <3>1, <3>3, <4>1
        DEF Step, Serve, Post, Put, Remove, At, PostRead, PostInsert, PostReread, PostWrite,
            PostSerialize, PostEvent, PostDispatch, PostPublish, PutRead, PutInsert, PutEvent,
            PutWrite, DeleteRead, DeleteWrite, Purge, DropRead, DropWrite, Goto, TypeOK
      <4>2. CASE pc[r] \in {"reread", "write", "serialize"}
        <5>1. Present /\ job.state \in Live
          BY <1>3, <3>3, <4>2 DEF CalmOf, Posting, Present, Live
        <5> QED
          BY <1>0, <2>1, <2>2, <3>1, <3>2, <3>3, <4>2, <5>1
          DEF Step, Serve, Post, Put, Remove, At, PostRead, PostInsert, PostReread, PostWrite,
              PostSerialize, PostEvent, PostDispatch, PostPublish, PutRead, PutInsert, PutEvent,
              PutWrite, DeleteRead, DeleteWrite, Purge, DropRead, DropWrite, Goto, TypeOK
      <4> QED
        BY <3>3, <4>1, <4>2 DEF Pending, Posting, Unfed
    <3>4. CASE req[r].kind # "post"
      <4>1. req[r].kind = "put" /\ pc[r] \in {"event", "write"}
        BY <3>4 DEF Pending, Posting
      <4>2. Present
        BY <1>3, <4>1 DEF CalmOf, Present, Live
      <4> QED
        BY <1>0, <2>1, <2>2, <3>1, <3>2, <4>1, <4>2
        DEF Step, Serve, Post, Put, Remove, At, PostRead, PostInsert, PostReread, PostWrite,
            PostSerialize, PostEvent, PostDispatch, PostPublish, PutRead, PutInsert, PutEvent,
            PutWrite, DeleteRead, DeleteWrite, Purge, DropRead, DropWrite, Goto, TypeOK
    <3> QED
      BY <3>3, <3>4
  <2> QED
    BY <1>3, <2>1, <2>3 DEF CalmOf, Pending, Posting, Unfed, IsLatest
<1>7. CASE Arrive(r)
  <2>1. /\ pc[r] = "idle" /\ pc'[r] = "read" /\ UNCHANGED <<job, jobstates, events, finishes>>
        /\ req'[r].at = clock
    BY <1>0, <1>7 DEF Arrive, Goto, TypeOK, rows, ghosts, NoRequest
  <2>2. \A j \in jobstates : j.at < req'[r].at
    BY <2>1 DEF TraceInv, TracesLeft
  <2> QED
    BY <1>3, <2>1, <2>2 DEF CalmOf, Pending, Posting, Unfed, IsLatest
<1>8. CASE Crash(r)
  BY <1>0, <1>8 DEF Crash, Goto, TypeOK, Calm
<1>9. CASE Post(r) /\ ~Refuse(r)
  <2>0. /\ req'[r].kind = "post" /\ req[r].kind = "post" /\ req'[r].asked = req[r].asked
        /\ req'[r].at = req[r].at /\ pc[r] # "idle"
    BY <1>0, <1>9, PostNext, Carried
  <2>1. CASE PostRead(r) /\ ~Refuse(r)
    <3>1. /\ pc[r] = "read" /\ pc'[r] = "insert" /\ job.state \in Live
          /\ UNCHANGED <<job, jobstates, events, finishes>>
      BY <1>0, <2>1 DEF PostRead, At, Goto, TypeOK, rows, ghosts
    <3> QED
      BY <1>3, <2>0, <3>1 DEF CalmOf, Pending, Posting, Unfed, IsLatest
  <2>2. CASE PostInsert(r) /\ ~Refuse(r)
    <3> DEFINE new == [by |-> r, status |-> req[r].recorded, at |-> req[r].at]
    <3>1. /\ pc[r] = "insert" /\ pc'[r] = "reread" /\ req' = req
          /\ jobstates' = jobstates \union {new}
          /\ UNCHANGED <<job, events, finishes>>
      BY <1>0, <2>2 DEF PostInsert, InsertJobstate, At, Goto, TypeOK
    <3>2. new.at \in Nat /\ \A j \in jobstates : j.at < new.at
      BY <1>0, <1>3, <2>0, <3>1 DEF CalmOf, Posting, RequestRecord
    <3>3. \A j \in jobstates' : IsLatest(j)' => j = new
      <4> HIDE DEF new
      <4> QED
        BY <1>0, <3>1, <3>2, LatestIsNew
    <3>4. \A j \in jobstates' : IsLatest(j)' => j.status = req'[r].recorded
      BY <3>1, <3>3
    <3> QED
      BY <1>3, <2>0, <3>1, <3>4 DEF CalmOf, Pending, Posting, Unfed
  <2>3. CASE PostReread(r) /\ ~Refuse(r)
    <3>1. /\ pc[r] = "reread" /\ pc'[r] = "write" /\ req'[r].recorded = req[r].recorded
          /\ UNCHANGED <<job, jobstates, events, finishes>>
      BY <1>0, <2>3 DEF PostReread, At, Goto, TypeOK, RequestRecord, rows, ghosts
    <3> QED
      BY <1>3, <2>0, <3>1 DEF CalmOf, Pending, Posting, Unfed, IsLatest
  <2>4. CASE PostWrite(r) /\ ~Refuse(r)
    <3>1. /\ pc[r] = "write" /\ req' = req
          /\ WriteJob(IF req[r].asked # req[r].seen THEN req[r].asked ELSE job.status,
                      job.state)
          /\ pc'[r] = IF Announces(r) THEN "serialize" ELSE "done"
          /\ UNCHANGED <<jobstates, events>>
      BY <1>0, <2>4 DEF PostWrite, At, Goto, TypeOK
    <3>2. req[r].seen = job.status
      BY <1>1, <2>0, <3>1 DEF OneByOneInv, Posting
    <3>3. job'.status = req[r].asked /\ job'.state = job.state
      BY <3>1, <3>2 DEF WriteJob
    <3>4. finishes' = IF Announces(r) THEN finishes + 1 ELSE finishes
      BY <3>1, <3>2 DEF WriteJob, Announces
    <3>5. finishes' <= Cardinality(events') + (IF Posting(r, Unfed)' THEN 1 ELSE 0)
      BY <1>0, <1>3, <2>0, <3>1, <3>4 DEF CalmOf, Posting, Unfed
    <3>6. \A j \in jobstates' : IsLatest(j)' => Records(j.status, job'.status)
      BY <1>3, <1>5, <2>0, <3>1, <3>3
      DEF CalmOf, Pending, Posting, IsLatest, RecordsAsked
    <3>7. job.state \in Live
      BY <1>3, <2>0, <3>1 DEF CalmOf, Posting
    <3> QED
      BY <2>0, <3>1, <3>3, <3>5, <3>6, <3>7 DEF CalmOf, Pending, Posting
  <2>5. CASE PostSerialize(r) /\ ~Refuse(r)
    <3>1. /\ pc[r] = "serialize" /\ pc'[r] = "event"
          /\ UNCHANGED <<job, jobstates, events, finishes>>
      BY <1>0, <2>5 DEF PostSerialize, At, Goto, TypeOK, rows, ghosts
    <3> QED
      BY <1>3, <2>0, <3>1 DEF CalmOf, Pending, Posting, Unfed, IsLatest
  <2>6. CASE PostEvent(r)
    <3>1. /\ pc[r] = "event" /\ pc'[r] = "dispatch" /\ CreateEvent(r, req[r].recorded)
          /\ UNCHANGED <<job, jobstates, finishes>>
      BY <1>0, <2>6 DEF PostEvent, At, Goto, TypeOK, ghosts
    <3>2. Cardinality(events') = Cardinality(events) + 1
      BY <1>0, <3>1, EventCounted
    <3>3. finishes' <= Cardinality(events') + 0
      BY <1>0, <1>3, <3>1, <3>2 DEF CalmOf
    <3> QED
      BY <1>3, <2>0, <3>1, <3>3 DEF CalmOf, Pending, Posting, Unfed, IsLatest
  <2>7. CASE (PostDispatch(r) \/ PostPublish(r)) /\ ~Refuse(r)
    <3>1. /\ pc[r] \in {"dispatch", "publish"} /\ pc'[r] \in {"publish", "done"}
          /\ UNCHANGED <<job, jobstates, events, finishes>>
      BY <1>0, <2>7 DEF PostDispatch, PostPublish, At, Goto, Done, TypeOK, rows, ghosts
    <3> QED
      BY <1>3, <2>0, <3>1 DEF CalmOf, Pending, Posting, Unfed, IsLatest
  <2> QED
    BY <1>9, <2>1, <2>2, <2>3, <2>4, <2>5, <2>6, <2>7 DEF Post
<1>10. CASE Put(r) /\ ~Refuse(r)
  <2>0. /\ req'[r].kind = "put" /\ req[r].kind = "put" /\ req'[r].asked = req[r].asked
        /\ pc[r] # "idle"
    <3>1. req[r].kind = "put" /\ pc[r] # "idle"
      BY <1>10 DEF Put, At, PutRead, PutInsert, PutEvent, PutWrite
    <3> QED
      BY <1>0, <3>1, Carried
  <2>1. CASE PutRead(r) /\ ~Refuse(r)
    <3>1. /\ pc[r] = "read" /\ pc'[r] \in {"insert", "write"} /\ job.state \in Live
          /\ req'[r].recorded = req[r].recorded
          /\ UNCHANGED <<job, jobstates, events, finishes>>
      BY <1>0, <2>1 DEF PutRead, Found, At, Goto, TypeOK, RequestRecord, rows, ghosts
    <3>2. req'[r].recorded = None /\ None \notin Final
      BY <1>5, <2>0, <3>1, NoneAssumption DEF Arrived, AllStatuses
    <3> QED
      BY <1>3, <2>0, <3>1, <3>2 DEF CalmOf, Pending, Posting, Unfed, IsLatest
  <2>2. CASE PutInsert(r) /\ ~Refuse(r)
    <3> DEFINE new == [by |-> r, status |-> req[r].asked, at |-> clock]
    <3>1. /\ pc[r] = "insert" /\ req'[r].recorded = req[r].asked
          /\ pc'[r] = IF req[r].asked \in Final THEN "event" ELSE "write"
          /\ jobstates' = jobstates \union {new}
          /\ UNCHANGED <<job, events, finishes>>
      BY <1>0, <2>2 DEF PutInsert, InsertJobstate, At, Goto, TypeOK, RequestRecord
    <3>2. new.at \in Nat /\ \A j \in jobstates : j.at < new.at
      BY <1>0 DEF TraceInv, TracesLeft, TypeOK
    <3>3. \A j \in jobstates' : IsLatest(j)' => j = new
      <4> HIDE DEF new
      <4> QED
        BY <1>0, <3>1, <3>2, LatestIsNew
    <3>4. \A j \in jobstates' : IsLatest(j)' => j.status = req'[r].recorded
      BY <3>1, <3>3
    <3>5. req[r].asked # None
      BY <1>5, <2>0, <3>1, NoneAssumption DEF Progress, PutProgress
    <3> QED
      BY <1>3, <2>0, <3>1, <3>4, <3>5 DEF CalmOf, Pending, Posting, Unfed
  <2>3. CASE PutEvent(r) /\ ~Refuse(r)
    <3>1. /\ pc[r] = "event" /\ pc'[r] = "write" /\ CreateEvent(r, req[r].asked)
          /\ req' = req /\ UNCHANGED <<job, jobstates, finishes>>
      BY <1>0, <2>3 DEF PutEvent, At, Goto, TypeOK, ghosts
    <3>2. Cardinality(events') = Cardinality(events) + 1
      BY <1>0, <3>1, EventCounted
    <3>3. finishes' < Cardinality(events')
      BY <1>0, <1>3, <2>0, <3>1, <3>2 DEF CalmOf, Posting
    <3>4. req[r].recorded # None
      BY <1>5, <2>0, <3>1 DEF Progress, PutProgress
    <3>5. finishes' <= Cardinality(events') + 0
      BY <1>0, <3>2, <3>3
    <3> QED
      BY <1>3, <2>0, <3>1, <3>3, <3>4, <3>5 DEF CalmOf, Pending, Posting, Unfed, IsLatest
  <2>4. CASE PutWrite(r) /\ ~Refuse(r)
    <3>1. /\ pc[r] = "write" /\ pc'[r] = "done" /\ req' = req
          /\ WriteJob(PutStatus(r), PutState(r))
          /\ UNCHANGED <<jobstates, events>>
      BY <1>0, <2>4 DEF PutWrite, At, Goto, Done, TypeOK
    <3>2. job'.status = PutStatus(r)
      BY <3>1 DEF WriteJob
    <3>3. finishes <= Cardinality(events)
      BY <1>0, <1>3, <2>0 DEF CalmOf, Posting
    <3>4. CASE req[r].recorded = None
      <4>1. job'.status = job.status /\ finishes' = finishes /\ ~Pending(r)
        BY <2>0, <3>1, <3>2, <3>4 DEF PutStatus, Expired, WriteJob, Pending, Posting
      <4> QED
        BY <1>0, <1>3, <2>0, <3>1, <3>3, <4>1 DEF CalmOf, Pending, Posting, IsLatest
    <3>5. CASE req[r].recorded # None
      <4>1. job'.status = req[r].recorded /\ req[r].asked = req[r].recorded
        BY <1>5, <2>0, <3>2, <3>5 DEF PutStatus, Expired, Progress, PutProgress
      <4>2. \A j \in jobstates' : IsLatest(j)' => Records(j.status, job'.status)
        BY <1>3, <2>0, <3>1, <3>5, <4>1 DEF CalmOf, Pending, IsLatest, Records
      <4>3. CASE req[r].recorded \in Final
        <5>1. finishes < Cardinality(events) /\ finishes' <= finishes + 1
          BY <1>0, <1>3, <2>0, <3>1, <4>3 DEF CalmOf, WriteJob
        <5>2. finishes' <= Cardinality(events') + 0
          BY <1>0, <3>1, <5>1
        <5> QED
          BY <1>0, <2>0, <3>1, <4>2, <5>2 DEF CalmOf, Pending, Posting
      <4>4. CASE req[r].recorded \notin Final
        <5>1. finishes' = finishes
          BY <3>1, <3>2, <4>1, <4>4 DEF WriteJob
        <5>2. finishes' <= Cardinality(events') + 0
          BY <1>0, <3>1, <3>3, <5>1
        <5> QED
          BY <1>0, <2>0, <3>1, <4>2, <5>2 DEF CalmOf, Pending, Posting
      <4> QED
        BY <4>3, <4>4
    <3> QED
      BY <3>4, <3>5
  <2> QED
    BY <1>10, <2>1, <2>2, <2>3, <2>4 DEF Put
<1>11. CASE Remove(r) /\ ~Refuse(r)
  <2>0. req[r].kind \in {"delete", "purge"} /\ pc[r] # "idle"
    BY <1>2, <1>5, <1>11, NoneAssumption
    DEF Remove, At, DeleteRead, DeleteWrite, Purge, DropRead, DropWrite, Arrived, Calm, AllKinds
  <2>1. req'[r].kind = req[r].kind
    BY <1>0, <2>0, Carried
  <2>2. /\ job'.status = job.status /\ events' = events /\ finishes' = finishes
        /\ jobstates' \in {jobstates, {}}
    BY <1>0, <1>11, <2>0
    DEF Remove, At, DeleteRead, DeleteWrite, Purge, DropRead, DropWrite, WriteJob, rows,
        ghosts, TypeOK
  <2> QED
    BY <1>3, <2>0, <2>1, <2>2 DEF CalmOf, Pending, Posting, IsLatest
<1> QED
  BY <1>6, <1>7, <1>8, <1>9, <1>10, <1>11 DEF Step, Serve

LEMMA SeqInvInvariant == Spec => []SeqInv
<1>1. Init => SeqInv
  <2> SUFFICES ASSUME Init PROVE SeqInv
    OBVIOUS
  <2>0. IInv
    BY InitInv
  <2>1. /\ events = {} /\ dispatched = {} /\ jobstates = {} /\ finishes = 0 /\ clock = 1
        /\ \A r \in Requests : pc[r] = "idle" /\ req[r] = NoRequest
    BY DEF Init
  <2>2. TraceInv
    BY <2>1, FS_EmptySet, NoneAssumption
    DEF TraceInv, TracesLeft, RecordsAsked, Arrived, Posting, NoRequest, AllKinds
  <2>3. Cardinality(dispatched) = 0 /\ Cardinality(events) = 0
    BY <2>1, FS_EmptySet
  <2>4. \A labels \in SUBSET (Labels \ Resting) : Owed(labels) = 0
    BY <2>1 DEF Owed, Posting, Resting
  <2>5. OneByOneInv
    <3>1. Owed({"serialize", "event", "dispatch"}) = 0
      BY <2>4 DEF Labels, Resting
    <3> QED
      BY <2>1, <2>3, <3>1 DEF OneByOneInv, AtMostOne, InFlight, Posting
  <2>6. CalmInv
    <3>1. Owed({"serialize", "event"}) = 0
      BY <2>4 DEF Labels, Resting
    <3> QED
      BY <2>1, <2>3, <3>1 DEF CalmInv, Posting, Pending
  <2> QED
    BY <2>0, <2>2, <2>5, <2>6 DEF SeqInv
<1>2. SeqInv /\ [Next]_vars => SeqInv'
  <2> SUFFICES ASSUME SeqInv, [Next]_vars PROVE SeqInv'
    OBVIOUS
  <2>1. ASSUME NEW r \in Requests, Step(r) PROVE SeqInv'
    <3>1. IInv'
      BY <2>1, TypeStep, WrittenStep, OwnProgress, OthersProgress DEF SeqInv, IInv
    <3> QED
      BY <2>1, <3>1, TraceStep, OneByOneStep, CalmStep DEF SeqInv
  <2>2. CASE UNCHANGED vars
    <3>1. IInv'
      BY <2>2
      DEF SeqInv, vars, rows, messages, ghosts, IInv, TypeOK, Written, StatusIsRecorded,
          EventIsRecorded, MessagesFollowEvents, AnnouncedOnlyAfterFinish, FinalIsCounted,
          EventsOfArrived, Progress, PostProgress, PutProgress, Evidence, Final
    <3>2. TraceInv'
      BY <2>2 DEF SeqInv, vars, rows, messages, TraceInv, TracesLeft, RecordsAsked, Arrived,
                  Posting
    <3>3. OneByOne' => OneByOneInv'
      BY <2>2 DEF SeqInv, vars, rows, messages, ghosts, OneByOne, OneByOneInv, AtMostOne,
                  InFlight, Posting, Owed
    <3>4. Calm' => CalmInv'
      BY <2>2 DEF SeqInv, vars, rows, messages, ghosts, OneByOne, Calm, CalmInv, Pending,
                  Posting, Owed, IsLatest
    <3> QED
      BY <3>1, <3>2, <3>3, <3>4 DEF SeqInv
  <2> QED
    BY <2>1, <2>2 DEF Next, Step
<1> QED
  BY <1>1, <1>2, PTL DEF Spec

(* Clients that wait for each answer are notified at most once for each    *)
(* time the job finishes (is_job_final_state, job_dispatcher), even when   *)
(* workers die.                                                            *)
THEOREM NotifiedOnceForEachEnd == Spec => []NotifiedOnceOneByOne
<1>1. SeqInv => NotifiedOnceOneByOne
  <2> SUFFICES ASSUME SeqInv, OneByOne PROVE Cardinality(dispatched) <= finishes
    BY DEF NotifiedOnceOneByOne, NotifiedOnce
  <2>1. Cardinality(dispatched) \in Nat /\ finishes \in Nat
    BY FS_CardinalityType DEF SeqInv, TraceInv, TracesLeft, IInv, TypeOK
  <2>2. Owed({"serialize", "event", "dispatch"}) \in {0, 1}
    BY DEF Owed
  <2> QED
    BY <2>1, <2>2 DEF SeqInv, OneByOneInv
<1> QED
  BY <1>1, SeqInvInvariant, PTL

(* The mail and the feed tell the same end of the job, early failures      *)
(* excepted, which the feed calls errors (create_jobstates).               *)
THEOREM MessagesMatchEvents == Spec => []MessageMatchesEvent
<1>1. SeqInv => MessageMatchesEvent
  <2> SUFFICES ASSUME SeqInv, OneByOne, NEW m \in dispatched, NEW e \in events, m.by = e.by
               PROVE  m.status = e.status \/ (m.status = "failure" /\ e.status = "error")
    BY DEF MessageMatchesEvent
  <2>1. m.status = req[m.by].asked /\ req[m.by].kind = "post"
    BY DEF SeqInv, OneByOneInv, TraceInv, TracesLeft, Posting
  <2>2. Records(e.status, req[m.by].asked)
    BY <2>1 DEF SeqInv, TraceInv, TracesLeft
  <2> QED
    BY <2>1, <2>2 DEF Records
<1> QED
  BY <1>1, SeqInvInvariant, PTL

(* Between requests, the row, the last jobstate of the list and the feed   *)
(* agree on the status of the job, as long as no jobstate is deleted       *)
(* (create_jobstates, update_job_by_id).                                   *)
THEOREM AgreementWhenQuiet ==
    ASSUME "drop" \notin Kinds
    PROVE  Spec => []QuietAgreement
<1>1. SeqInv => QuietAgreement
  <2> SUFFICES ASSUME SeqInv, Quiet
               PROVE  /\ \A j \in jobstates : IsLatest(j) => Records(j.status, job.status)
                      /\ finishes <= Cardinality(events)
    BY DEF QuietAgreement, IsLatest, Records
  <2>1. CalmInv
    BY DEF SeqInv, Quiet, Calm
  <2>2. \A r \in Requests : ~Pending(r)
    BY DEF Quiet, Pending, Posting
  <2>3. Owed({"serialize", "event"}) = 0
    BY DEF Quiet, Owed, Posting
  <2>4. Cardinality(events) \in Nat /\ finishes \in Nat
    BY FS_CardinalityType DEF SeqInv, TraceInv, TracesLeft, IInv, TypeOK
  <2> QED
    BY <2>1, <2>2, <2>3, <2>4 DEF CalmInv
<1> QED
  BY <1>1, SeqInvInvariant, PTL
=============================================================================
