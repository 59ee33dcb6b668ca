------------------------- MODULE Scheduling_proofs -------------------------
(* Proofs of the invariants of Scheduling, for any requests, components,    *)
(* topic and lists of given components.                                     *)
EXTENDS Scheduling, TLAPS

Before == {"idle", "check", "verify", "select", "store"}

(* How far a request has come: nothing is stored before it has chosen, and  *)
(* nothing attached before it has stored.                                   *)
Stage(r) ==
  /\ pc[r] \in Before => r \notin jobs
  /\ pc[r] \in Before \union {"read", "permit"} => req[r].next = 1
  /\ pc[r] \in {"idle", "check", "verify"} => req[r].chosen = <<>>
  /\ pc[r] = "select" => req[r].given = <<>> /\ req[r].kind # "create"
  /\ pc[r] \in {"store", "read", "permit"} /\ req[r].kind = "create" => req[r].chosen = <<>>
  /\ pc[r] = "insert" => req[r].next <= Len(req[r].chosen)
  /\ pc[r] \in {"publish", "answered"} => req[r].next > Len(req[r].chosen)
  /\ r \in started => pc[r] = "answered"

(* What the handler attached is what it chose before the next one.          *)
Attaching(r) ==
  /\ \A i \in DOMAIN req[r].chosen :
       i < req[r].next => req[r].chosen[i] \in attached[r] \union removed[r]
  /\ \A c \in attached[r] \ added[r] :
       \E i \in DOMAIN req[r].chosen : i < req[r].next /\ c = req[r].chosen[i]

Distinct(r) ==
  \A i, j \in DOMAIN req[r].chosen : i # j => req[r].chosen[i] # req[r].chosen[j]

Types(r, n) ==
  /\ Len(req[r].chosen) = n
  /\ \A i \in 1..n : TypeOf[req[r].chosen[i]] = ComponentTypes[i]

(* What a handler that selects or verifies components has chosen.           *)
WellChosen(r) ==
  /\ req[r].kind # "create" => Distinct(r)
  /\ pc[r] = "select" => \E n \in 0..Len(ComponentTypes) : Types(r, n)
  /\ pc[r] \in {"store", "read", "attach", "insert", "publish", "answered"} /\ req[r].kind # "create" =>
       \/ Types(r, Len(ComponentTypes))
       \/ req[r].chosen = req[r].given /\ Len(req[r].given) = Len(ComponentTypes)

(* The latest components are fresh for whoever is being served.             *)
ChosenFresh(r) ==
  /\ r \in InFlight => \A c \in Components : Latest(TypeOf[c], components) \subseteq fresh[r]
  /\ req[r].given = <<>> => \A i \in DOMAIN req[r].chosen : req[r].chosen[i] \in fresh[r]

HasReason(r) ==
  r \in jobs /\ pc[r] = "refused" /\ req[r].kind # "create"
    => \/ Chosen(r) \subseteq attached[r] \union removed[r]
       \/ r \in withdrawn /\ attached[r] \subseteq added[r]
       \/ Chosen(r) \intersect (deleted \union added[r]) # {}

RequestInv(r) ==
  Stage(r) /\ Attaching(r) /\ WellChosen(r) /\ ChosenFresh(r) /\ HasReason(r)

ArchivedWasDeleted ==
  /\ \A c \in Components : components[c] = "archived" => c \in deleted
  /\ archived \subseteq withdrawn

SchedInv == TypeOK /\ ArchivedWasDeleted /\ \A r \in Requests : RequestInv(r)

-----------------------------------------------------------------------------
LEMMA SchedInit == Init => SchedInv
<1> SUFFICES ASSUME Init PROVE SchedInv
  OBVIOUS
<1>1. TypeOK
  BY ExistingAssumption, MaxChangesAssumption DEF Init, TypeOK, NoRequest, Ended
<1>2. ArchivedWasDeleted
  BY DEF Init, ArchivedWasDeleted
<1>3. ASSUME NEW r \in Requests PROVE RequestInv(r)
  <2>1. /\ pc[r] = "idle" /\ jobs = {} /\ attached[r] = {} /\ started = {}
        /\ req[r].chosen = <<>> /\ req[r].next = 1 /\ r \notin InFlight
    BY <1>3 DEF Init, NoRequest, InFlight, Ended
  <2> QED
    BY <2>1 DEF RequestInv, Stage, Attaching, WellChosen, Distinct, ChosenFresh, HasReason
<1> QED
  BY <1>1, <1>2, <1>3 DEF SchedInv

(* The part of the state that a request is judged by.                       *)
Same(q) ==
  /\ pc'[q] = pc[q] /\ req'[q] = req[q] /\ attached'[q] = attached[q]
  /\ fresh'[q] = fresh[q]
  /\ q \in jobs' <=> q \in jobs
  /\ q \in started' <=> q \in started

(* A step of one request: the others stay as they are.                      *)
LEMMA OnlyRequest ==
  ASSUME SchedInv, NEW r \in Requests, TypeOK', UNCHANGED admin, RequestInv(r)',
         \A q \in Requests \ {r} : Same(q)
  PROVE  SchedInv'
<1>1. ASSUME NEW q \in Requests \ {r} PROVE RequestInv(q)'
  <2>1. RequestInv(q) /\ Same(q)
    BY DEF SchedInv
  <2>2. Stage(q)' /\ Attaching(q)'
    BY <2>1 DEF RequestInv, Stage, Attaching, Same, admin
  <2>3. WellChosen(q)'
    BY <2>1 DEF RequestInv, WellChosen, Distinct, Types, Same
  <2>4. HasReason(q)'
    BY <2>1 DEF RequestInv, HasReason, Chosen, Same, admin
  <2>5. ChosenFresh(q)'
    BY <2>1 DEF RequestInv, ChosenFresh, InFlight, Ended, Latest, Candidates, Same, admin
  <2> QED
    BY <2>2, <2>3, <2>4, <2>5 DEF RequestInv
<1>2. ArchivedWasDeleted'
  BY DEF SchedInv, ArchivedWasDeleted, admin
<1> QED
  BY <1>1, <1>2 DEF SchedInv

(* What is known of a request, spelled out.                                 *)
LEMMA RequestType ==
  ASSUME SchedInv, NEW r \in Requests
  PROVE  /\ req[r].kind \in AllKinds \union {"none"}
         /\ req[r].given \in Seq(Components) /\ req[r].chosen \in Seq(Components)
         /\ req[r].next \in Nat \ {0}
         /\ attached[r] \subseteq Components
         /\ RequestInv(r)
BY DEF SchedInv, TypeOK

(* A request goes on to its next stage and changes nothing else.            *)
LEMMA GoesOn ==
  ASSUME SchedInv, NEW r \in Requests,
         NEW label \in {"check", "verify", "select", "store", "read", "permit", "attach",
                        "insert", "publish"} \union Ended,
         Goto(r, label), UNCHANGED <<admin, jobs, attached, started, req, fresh>>,
         r \in InFlight, Stage(r)', WellChosen(r)', HasReason(r)'
  PROVE  SchedInv'
<1>1. TypeOK'
  BY DEF SchedInv, TypeOK, Goto, admin
<1>2. Attaching(r)'
  BY DEF SchedInv, RequestInv, Attaching, admin
<1>3. ChosenFresh(r)'
  BY DEF SchedInv, RequestInv, ChosenFresh, InFlight, Latest, Candidates, admin
<1>4. \A q \in Requests \ {r} : Same(q)
  BY DEF SchedInv, TypeOK, Goto, Same
<1> QED
  BY <1>1, <1>2, <1>3, <1>4, OnlyRequest DEF RequestInv

(* It is refused before its job is stored, or when it only creates one.     *)
LEMMA RefusedEarly ==
  ASSUME SchedInv, NEW r \in Requests, Refuse(r), r \in InFlight,
         r \notin jobs \/ req[r].kind = "create"
  PROVE  SchedInv'
<1>1. RequestInv(r) /\ r \notin started
  BY RequestType DEF RequestInv, Stage, InFlight, Ended
<1>2. pc'[r] = "refused" /\ UNCHANGED <<admin, jobs, attached, started, req, fresh>>
  BY DEF Refuse, Goto, SchedInv, TypeOK
<1>3. Stage(r)' /\ HasReason(r)'
  BY <1>1, <1>2 DEF Stage, HasReason, Before
<1>4. WellChosen(r)'
  BY <1>1, <1>2 DEF RequestInv, WellChosen, Distinct
<1> QED
  BY <1>2, <1>3, <1>4, GoesOn DEF Refuse, Ended

-----------------------------------------------------------------------------
LEMMA ArriveStep ==
  ASSUME SchedInv, NEW r \in Requests, Arrive(r)
  PROVE  SchedInv'
<1>1. PICK kind \in Kinds, given \in GivenIds :
        req' = [req EXCEPT ![r] =
                  [kind |-> kind, given |-> given, chosen |-> <<>>, next |-> 1]]
  BY DEF Arrive
<1>2. /\ pc[r] = "idle" /\ Goto(r, "check") /\ UNCHANGED <<admin, jobs, attached, started>>
      /\ fresh' = [fresh EXCEPT ![r] =
                     UNION {Latest(TypeOf[c], components) : c \in Components}]
  BY DEF Arrive
<1>3. RequestInv(r)
  BY RequestType
<1>4. /\ pc'[r] = "check" /\ req'[r].chosen = <<>> /\ req'[r].next = 1
      /\ fresh'[r] = UNION {Latest(TypeOf[c], components) : c \in Components}
      /\ \A q \in Requests \ {r} : Same(q)
  BY <1>1, <1>2 DEF Goto, SchedInv, TypeOK, NoRequest, Same
<1>5. \A c \in Components : Latest(TypeOf[c], components) \subseteq Components
  BY DEF SchedInv, TypeOK, Latest, Candidates
<1>6. TypeOK'
  <2>1. /\ pc' \in [Requests -> {"check", "verify", "select", "store", "read", "permit",
                                 "attach", "insert", "publish"} \union Ended]
        /\ fresh' \in [Requests -> SUBSET Components]
    BY <1>2, <1>5 DEF SchedInv, TypeOK, Goto
  <2>2. [kind |-> kind, given |-> given, chosen |-> <<>>, next |-> 1] \in
          [kind: AllKinds \union {"none"}, given: Seq(Components), chosen: Seq(Components),
           next: Nat \ {0}]
    <3>1. /\ kind \in AllKinds \union {"none"} /\ given \in Seq(Components)
          /\ <<>> \in Seq(Components) /\ 1 \in Nat \ {0}
      BY KindsAssumption, GivenAssumption
    <3> QED
      BY <3>1
  <2>3. req' \in [Requests -> [kind: AllKinds \union {"none"}, given: Seq(Components),
                               chosen: Seq(Components), next: Nat \ {0}]]
    BY <1>1, <2>2 DEF SchedInv, TypeOK
  <2> QED
    BY <1>2, <2>1, <2>3 DEF SchedInv, TypeOK, admin
<1>7. Stage(r)' /\ Attaching(r)' /\ WellChosen(r)' /\ HasReason(r)'
  BY <1>2, <1>3, <1>4
  DEF RequestInv, Stage, Before, Attaching, WellChosen, Distinct, HasReason, admin
<1>8. ChosenFresh(r)'
  BY <1>2, <1>4 DEF ChosenFresh, Latest, Candidates, admin
<1> QED
  BY <1>2, <1>4, <1>6, <1>7, <1>8, OnlyRequest DEF RequestInv

LEMMA CheckRequestStep ==
  ASSUME SchedInv, NEW r \in Requests, CheckRequest(r)
  PROVE  SchedInv'
<1>1. pc[r] = "check" /\ r \in InFlight
  BY DEF CheckRequest, InFlight, Ended
<1>2. /\ RequestInv(r) /\ req[r].chosen = <<>> /\ r \notin jobs /\ req[r].next = 1
      /\ r \notin started
  BY <1>1, RequestType DEF RequestInv, Stage, Before
<1>3. ASSUME NEW label \in {"store", "select", "verify"}, Goto(r, label),
             UNCHANGED <<admin, jobs, attached, started, req, fresh>>,
             label = "select" => req[r].given = <<>> /\ req[r].kind # "create",
             label = "store" => req[r].kind = "create"
      PROVE  SchedInv'
  <2>1. pc'[r] = label
    BY <1>3 DEF Goto, SchedInv, TypeOK
  <2>2. Stage(r)' /\ HasReason(r)'
    BY <1>2, <1>3, <2>1 DEF Stage, Before, HasReason
  <2>3. Types(r, 0)' /\ Distinct(r)'
    BY <1>2, <1>3 DEF Types, Distinct
  <2>4. WellChosen(r)'
    BY <1>3, <2>1, <2>3, ComponentTypesAssumption DEF WellChosen
  <2> QED
    BY <1>1, <1>3, <2>2, <2>4, GoesOn
<1>4. CASE Refuse(r)
  BY <1>1, <1>2, <1>4, RefusedEarly
<1> QED
  BY <1>3, <1>4 DEF CheckRequest

(* A request chooses, and goes on to the next stage or stays.                *)
LEMMA Chooses ==
  ASSUME SchedInv, NEW r \in Requests, NEW ids \in Seq(Components),
         NEW label \in {"select", "store", "attach"},
         req' = [req EXCEPT ![r].chosen = ids], pc' = [pc EXCEPT ![r] = label],
         UNCHANGED <<admin, jobs, attached, started, fresh>>,
         r \in InFlight, req[r].next = 1, Stage(r)', WellChosen(r)',
         req[r].given = <<>> => \A i \in DOMAIN ids : ids[i] \in fresh[r]
  PROVE  SchedInv'
<1>1. /\ pc'[r] = label /\ req'[r].chosen = ids /\ req'[r].given = req[r].given
      /\ req'[r].kind = req[r].kind /\ req'[r].next = 1
      /\ \A q \in Requests \ {r} : Same(q)
  BY DEF SchedInv, TypeOK, Same
<1>2. TypeOK'
  <2>1. [req[r] EXCEPT !.chosen = ids] \in
          [kind: AllKinds \union {"none"}, given: Seq(Components), chosen: Seq(Components),
           next: Nat \ {0}]
    <3>1. req[r] \in [kind: AllKinds \union {"none"}, given: Seq(Components),
                      chosen: Seq(Components), next: Nat \ {0}]
      BY DEF SchedInv, TypeOK
    <3>2. [req[r] EXCEPT !.chosen = ids] =
            [kind |-> req[r].kind, given |-> req[r].given, chosen |-> ids, next |-> req[r].next]
      BY <3>1
    <3> QED
      BY <3>1, <3>2
  <2>2. req' \in [Requests -> [kind: AllKinds \union {"none"}, given: Seq(Components),
                               chosen: Seq(Components), next: Nat \ {0}]]
    BY <2>1 DEF SchedInv, TypeOK
  <2> QED
    BY <2>2 DEF SchedInv, TypeOK, admin
<1>3. Attaching(r)'
  <2>1. \A i \in DOMAIN ids : ~(i < 1)
    OBVIOUS
  <2>2. attached[r] \subseteq added[r]
    BY RequestType DEF RequestInv, Attaching
  <2> QED
    BY <1>1, <2>1, <2>2 DEF Attaching, admin
<1>4. ChosenFresh(r)'
  BY <1>1 DEF SchedInv, RequestInv, ChosenFresh, InFlight, Latest, Candidates, admin
<1>5. HasReason(r)'
  BY <1>1 DEF HasReason
<1> QED
  BY <1>1, <1>2, <1>3, <1>4, <1>5, OnlyRequest DEF RequestInv

LEMMA VerifyGivenStep ==
  ASSUME SchedInv, NEW r \in Requests, VerifyGiven(r)
  PROVE  SchedInv'
<1> DEFINE given == req[r].given
<1>1. pc[r] = "verify" /\ req[r].kind = "schedule" /\ r \in InFlight
  BY DEF VerifyGiven, Handles, InFlight, Ended
<1>2. /\ RequestInv(r) /\ r \notin jobs /\ req[r].next = 1 /\ r \notin started
      /\ given \in Seq(Components)
  BY <1>1, RequestType DEF RequestInv, Stage, Before
<1>3. CASE /\ Verified(given) /\ req' = [req EXCEPT ![r].chosen = given] /\ Goto(r, "store")
           /\ UNCHANGED <<admin, jobs, attached, started, fresh>>
  <2>1. /\ pc'[r] = "store" /\ req'[r].kind = "schedule" /\ req'[r].chosen = given
        /\ req'[r].given = given /\ req'[r].next = 1
    BY <1>1, <1>2, <1>3 DEF Goto, SchedInv, TypeOK
  <2>2. /\ Len(given) = Len(ComponentTypes)
        /\ \A i, j \in DOMAIN given : i # j => TypeOf[given[i]] # TypeOf[given[j]]
    BY <1>3 DEF Verified
  <2>3. Stage(r)'
    BY <1>2, <1>3, <2>1 DEF Stage, Before
  <2>4. WellChosen(r)'
    BY <2>1, <2>2 DEF WellChosen, Distinct
  <2>5. given = <<>> => \A i \in DOMAIN given : given[i] \in fresh[r]
    OBVIOUS
  <2> QED
    BY <1>1, <1>2, <1>3, <2>3, <2>4, <2>5, Chooses DEF Goto
<1>4. CASE Refuse(r)
  BY <1>1, <1>2, <1>4, RefusedEarly
<1> QED
  BY <1>3, <1>4 DEF VerifyGiven

LEMMA SelectComponentStep ==
  ASSUME SchedInv, NEW r \in Requests, SelectComponent(r)
  PROVE  SchedInv'
<1> DEFINE chosen == req[r].chosen
           n == Len(chosen)
<1>1. pc[r] = "select" /\ r \in InFlight
  BY DEF SelectComponent, InFlight, Ended
<1>2. /\ RequestInv(r) /\ r \notin jobs /\ req[r].next = 1
      /\ r \notin started /\ chosen \in Seq(Components)
      /\ req[r].given = <<>> /\ req[r].kind # "create"
  BY <1>1, RequestType DEF RequestInv, Stage, Before
<1>3. Types(r, n) /\ n \in 0..Len(ComponentTypes) /\ Distinct(r)
  BY <1>1, <1>2 DEF RequestInv, WellChosen, Types
<1>4. ASSUME n < Len(ComponentTypes), NEW c \in Selectable(r),
             req' = [req EXCEPT ![r].chosen = Append(@, c)],
             UNCHANGED <<admin, jobs, attached, started, pc, fresh>>
      PROVE  SchedInv'
  <2> DEFINE ids == Append(chosen, c)
  <2>1. c \in Latest(ComponentTypes[n + 1], components) /\ \A i \in DOMAIN chosen : chosen[i] # c
    BY <1>4 DEF Selectable
  <2>2. c \in Components /\ TypeOf[c] = ComponentTypes[n + 1]
    BY <2>1 DEF Latest, Candidates, SchedInv, TypeOK
  <2>3. /\ ids \in Seq(Components) /\ Len(ids) = n + 1 /\ n \in Nat
        /\ \A i \in DOMAIN chosen : ids[i] = chosen[i]
        /\ ids[n + 1] = c /\ DOMAIN ids = 1..(n + 1) /\ DOMAIN chosen = 1..n
    BY <1>2, <2>2
  <2> HIDE DEF ids
  <2>4. \A i, j \in DOMAIN ids : i # j => ids[i] # ids[j]
    <3>1. \A i, j \in 1..n : i # j => chosen[i] # chosen[j]
      BY <1>3, <2>3 DEF Distinct
    <3>2. \A i \in 1..(n + 1) : i \in 1..n \/ i = n + 1
      BY <2>3
    <3> QED
      BY <2>1, <2>3, <3>1, <3>2
  <2>5. /\ req' = [req EXCEPT ![r].chosen = ids] /\ pc' = [pc EXCEPT ![r] = "select"]
        /\ pc'[r] = "select" /\ req'[r].chosen = ids /\ req'[r].given = <<>>
        /\ req'[r].kind # "create" /\ req'[r].next = 1
    BY <1>1, <1>2, <1>4 DEF SchedInv, TypeOK, ids
  <2>6. Stage(r)'
    BY <1>2, <1>4, <2>5 DEF Stage, Before
  <2>7. \A i \in 1..(n + 1) : TypeOf[ids[i]] = ComponentTypes[i]
    BY <1>3, <2>2, <2>3 DEF Types
  <2>8. WellChosen(r)'
    <3>1. n + 1 \in 0..Len(ComponentTypes)
      BY <1>3, <1>4, <2>3, ComponentTypesAssumption
    <3>2. PICK m \in 0..Len(ComponentTypes) : m = n + 1
      BY <3>1
    <3>3. Types(r, m)'
      BY <2>3, <2>5, <2>7, <3>2 DEF Types
    <3>4. Distinct(r)'
      BY <2>4, <2>5 DEF Distinct
    <3> QED
      BY <2>5, <3>3, <3>4 DEF WellChosen
  <2>9. \A i \in DOMAIN ids : ids[i] \in fresh[r]
    <3>1. c \in fresh[r]
      BY <1>1, <1>2, <2>1, <2>2 DEF RequestInv, ChosenFresh
    <3> QED
      BY <1>2, <2>3, <3>1 DEF RequestInv, ChosenFresh
  <2> QED
    BY <1>1, <1>2, <1>4, <2>3, <2>5, <2>6, <2>8, <2>9, Chooses
<1>5. ASSUME n = Len(ComponentTypes), Goto(r, "store"),
             UNCHANGED <<admin, jobs, attached, started, req, fresh>>
      PROVE  SchedInv'
  <2>1. pc'[r] = "store"
    BY <1>5 DEF Goto, SchedInv, TypeOK
  <2>2. Stage(r)' /\ HasReason(r)'
    BY <1>2, <1>5, <2>1 DEF Stage, Before, HasReason
  <2>3. WellChosen(r)'
    BY <1>3, <1>5, <2>1 DEF WellChosen, Types, Distinct
  <2> QED
    BY <1>1, <1>5, <2>2, <2>3, GoesOn
<1>6. CASE Refuse(r)
  BY <1>1, <1>2, <1>6, RefusedEarly
<1> QED
  BY <1>4, <1>5, <1>6 DEF SelectComponent

-----------------------------------------------------------------------------
LEMMA StoreJobStep ==
  ASSUME SchedInv, NEW r \in Requests, StoreJob(r)
  PROVE  SchedInv'
<1>1. Goto(r, "read")
  BY DEF StoreJob
<1>2. /\ pc[r] = "store" /\ r \in InFlight /\ jobs' = jobs \union {r}
      /\ UNCHANGED <<admin, attached, started, req, fresh>>
  BY DEF StoreJob, InFlight, Ended
<1>3. RequestInv(r) /\ r \notin started
  BY <1>2, RequestType DEF RequestInv, Stage
<1>4. /\ pc'[r] = "read"
      /\ \A q \in Requests \ {r} : Same(q)
  BY <1>1, <1>2 DEF Goto, SchedInv, TypeOK, Same
<1>5. TypeOK'
  <2>1. {jobs, archived, withdrawn, started} \subseteq SUBSET Requests
    BY DEF SchedInv, TypeOK
  <2>2. {jobs', archived', withdrawn', started'} \subseteq SUBSET Requests
    BY <1>2, <2>1 DEF admin
  <2> QED
    BY <1>1, <1>2, <2>2 DEF Goto, SchedInv, TypeOK, admin
<1>6. Stage(r)' /\ HasReason(r)'
  BY <1>1, <1>2, <1>3, <1>4 DEF RequestInv, Stage, Before, HasReason
<1>7. Attaching(r)'
  BY <1>2, <1>3 DEF RequestInv, Attaching, admin
<1>8. WellChosen(r)'
  BY <1>1, <1>2, <1>3, <1>4 DEF RequestInv, WellChosen, Distinct, Types
<1>9. ChosenFresh(r)'
  BY <1>2, <1>3 DEF RequestInv, ChosenFresh, Latest, Candidates, admin
<1> QED
  BY <1>2, <1>4, <1>5, <1>6, <1>7, <1>8, <1>9, OnlyRequest DEF RequestInv

(* It is refused because its job was archived before it was read: nothing   *)
(* is attached yet but what others added.                                   *)
LEMMA ReadJobStep ==
  ASSUME SchedInv, NEW r \in Requests, ReadJob(r)
  PROVE  SchedInv'
<1>1. pc[r] = "read" /\ r \in InFlight
  BY DEF ReadJob, InFlight, Ended
<1>2. RequestInv(r) /\ r \notin started /\ req[r].next = 1 /\ req[r].chosen \in Seq(Components)
  BY <1>1, RequestType DEF RequestInv, Stage
<1>3. CASE r \in archived /\ Refuse(r)
  <2>1. pc'[r] = "refused" /\ UNCHANGED <<admin, jobs, attached, started, req, fresh>>
    BY <1>3 DEF Refuse, Goto, SchedInv, TypeOK
  <2>2. r \in withdrawn
    BY <1>3 DEF SchedInv, ArchivedWasDeleted
  <2>3. attached[r] \subseteq added[r]
    BY <1>2 DEF RequestInv, Attaching
  <2>4. Stage(r)' /\ HasReason(r)'
    BY <1>1, <1>2, <2>1, <2>2, <2>3 DEF RequestInv, Stage, Before, HasReason, admin
  <2>5. WellChosen(r)'
    BY <1>1, <1>2, <2>1 DEF RequestInv, WellChosen, Distinct
  <2> QED
    BY <1>1, <1>3, <2>1, <2>4, <2>5, GoesOn DEF Refuse, Ended
<1>4. ASSUME NEW label \in {"permit", "attach"}, Goto(r, label),
             label = (IF req[r].kind = "create" THEN "permit" ELSE "attach"),
             UNCHANGED <<admin, jobs, attached, started, req, fresh>>
      PROVE  SchedInv'
  <2>1. pc'[r] = label
    BY <1>4 DEF Goto, SchedInv, TypeOK
  <2>2. Stage(r)' /\ HasReason(r)'
    BY <1>1, <1>2, <1>4, <2>1 DEF RequestInv, Stage, Before, HasReason
  <2>3. WellChosen(r)'
    BY <1>1, <1>2, <1>4, <2>1 DEF RequestInv, WellChosen, Distinct, Types
  <2> QED
    BY <1>1, <1>4, <2>2, <2>3, GoesOn
<1> QED
  BY <1>3, <1>4 DEF ReadJob

LEMMA PermitComponentsStep ==
  ASSUME SchedInv, NEW r \in Requests, PermitComponents(r)
  PROVE  SchedInv'
<1> DEFINE given == req[r].given
<1>1. pc[r] = "permit" /\ req[r].kind = "create" /\ r \in InFlight
  BY DEF PermitComponents, Handles, InFlight, Ended
<1>2. /\ RequestInv(r) /\ r \notin started /\ req[r].next = 1
      /\ given \in Seq(Components)
  BY <1>1, RequestType DEF RequestInv, Stage
<1>3. CASE /\ req' = [req EXCEPT ![r].chosen = given] /\ Goto(r, "attach")
           /\ UNCHANGED <<admin, jobs, attached, started, fresh>>
  <2>1. /\ pc'[r] = "attach" /\ req'[r].kind = "create" /\ req'[r].chosen = given
        /\ req'[r].given = given
    BY <1>1, <1>3 DEF Goto, SchedInv, TypeOK
  <2>2. Stage(r)' /\ WellChosen(r)'
    BY <1>2, <1>3, <2>1 DEF Stage, Before, WellChosen
  <2>3. given = <<>> => \A i \in DOMAIN given : given[i] \in fresh[r]
    OBVIOUS
  <2> QED
    BY <1>1, <1>2, <1>3, <2>2, <2>3, Chooses DEF Goto
<1>4. CASE Refuse(r)
  BY <1>1, <1>4, RefusedEarly
<1> QED
  BY <1>3, <1>4 DEF PermitComponents

(* The next component is in the job, and the handler goes on with the one   *)
(* after it.                                                                *)
LEMMA NextOne ==
  ASSUME SchedInv, NEW r \in Requests, pc[r] \in {"attach", "insert"},
         pc' = [pc EXCEPT ![r] = "attach"], req' = [req EXCEPT ![r].next = @ + 1],
         req[r].next <= Len(req[r].chosen),
         attached' = [attached EXCEPT ![r] = @ \union {req[r].chosen[req[r].next]}],
         UNCHANGED <<admin, jobs, started, fresh>>
  PROVE  SchedInv'
<1> DEFINE chosen == req[r].chosen
           next == req[r].next
<1>1. /\ RequestInv(r) /\ r \notin started /\ chosen \in Seq(Components) /\ next \in Nat \ {0}
  BY RequestType DEF RequestInv, Stage
<1>2. /\ pc'[r] = "attach" /\ req'[r].chosen = chosen /\ req'[r].next = next + 1
      /\ req'[r].kind = req[r].kind /\ req'[r].given = req[r].given
      /\ attached'[r] = attached[r] \union {chosen[next]}
      /\ \A q \in Requests \ {r} : Same(q)
  BY DEF SchedInv, TypeOK, Same
<1>3. next \in DOMAIN chosen /\ chosen[next] \in Components
  BY <1>1
<1>4. TypeOK'
  <2>1. [req[r] EXCEPT !.next = next + 1] \in
          [kind: AllKinds \union {"none"}, given: Seq(Components), chosen: Seq(Components),
           next: Nat \ {0}]
    <3>1. req[r] \in [kind: AllKinds \union {"none"}, given: Seq(Components),
                      chosen: Seq(Components), next: Nat \ {0}]
      BY DEF SchedInv, TypeOK
    <3>2. next + 1 \in Nat \ {0}
      BY <1>1
    <3>3. [req[r] EXCEPT !.next = next + 1] =
            [kind |-> req[r].kind, given |-> req[r].given, chosen |-> chosen, next |-> next + 1]
      BY <3>1
    <3> QED
      BY <3>1, <3>2, <3>3
  <2>2. req' \in [Requests -> [kind: AllKinds \union {"none"}, given: Seq(Components),
                               chosen: Seq(Components), next: Nat \ {0}]]
    BY <2>1 DEF SchedInv, TypeOK
  <2>3. attached' \in [Requests -> SUBSET Components]
    BY <1>3 DEF SchedInv, TypeOK
  <2> QED
    BY <2>2, <2>3 DEF SchedInv, TypeOK, admin
<1>5. Attaching(r)'
  <2>1. \A i \in DOMAIN chosen : i < next + 1 => i < next \/ i = next
    BY <1>1
  <2>2. \A i \in DOMAIN chosen : i < next + 1 => chosen[i] \in attached'[r] \union removed[r]
    BY <1>1, <1>2, <2>1 DEF RequestInv, Attaching
  <2>3. \A c \in attached'[r] \ added[r] : \E i \in DOMAIN chosen : i < next + 1 /\ c = chosen[i]
    <3>1. ASSUME NEW c \in attached[r] \ added[r]
          PROVE  \E i \in DOMAIN chosen : i < next + 1 /\ c = chosen[i]
      <4>1. PICK i \in DOMAIN chosen : i < next /\ c = chosen[i]
        BY <1>1, <3>1 DEF RequestInv, Attaching
      <4>2. i < next + 1
        BY <1>1, <4>1
      <4> QED
        BY <4>1, <4>2
    <3>2. next < next + 1
      BY <1>1
    <3> QED
      BY <1>2, <1>3, <3>1, <3>2
  <2> QED
    BY <1>2, <2>2, <2>3 DEF Attaching, admin
<1>6. Stage(r)' /\ HasReason(r)'
  BY <1>1, <1>2 DEF RequestInv, Stage, Before, HasReason
<1>7. WellChosen(r)'
  BY <1>1, <1>2 DEF RequestInv, WellChosen, Distinct, Types
<1>8. ChosenFresh(r)'
  BY <1>1, <1>2 DEF RequestInv, ChosenFresh, InFlight, Ended, Latest, Candidates, admin
<1> QED
  BY <1>2, <1>4, <1>5, <1>6, <1>7, <1>8, OnlyRequest DEF RequestInv

(* It is refused while it attaches: one of its components is the reason.    *)
LEMMA RefusedLate ==
  ASSUME SchedInv, NEW r \in Requests, pc[r] \in {"attach", "insert"}, Refuse(r),
         req[r].kind # "create" => Chosen(r) \intersect (deleted \union added[r]) # {}
  PROVE  SchedInv'
<1>1. RequestInv(r) /\ r \in InFlight /\ r \notin started
  BY RequestType DEF RequestInv, Stage, InFlight, Ended
<1>2. pc'[r] = "refused" /\ UNCHANGED <<admin, jobs, attached, started, req, fresh>>
  BY DEF Refuse, Goto, SchedInv, TypeOK
<1>3. Stage(r)' /\ HasReason(r)'
  BY <1>1, <1>2 DEF RequestInv, Stage, Before, HasReason, Chosen, admin
<1>4. WellChosen(r)'
  BY <1>1, <1>2 DEF RequestInv, WellChosen, Distinct
<1> QED
  BY <1>1, <1>2, <1>3, <1>4, GoesOn DEF Refuse, Ended

LEMMA LookUpComponentStep ==
  ASSUME SchedInv, NEW r \in Requests, LookUpComponent(r)
  PROVE  SchedInv'
<1> DEFINE chosen == req[r].chosen
           c == chosen[req[r].next]
<1>1. pc[r] = "attach" /\ r \in InFlight
  BY DEF LookUpComponent, InFlight, Ended
<1>2. /\ RequestInv(r) /\ r \notin started /\ chosen \in Seq(Components)
      /\ req[r].next \in Nat \ {0}
  BY <1>1, RequestType DEF RequestInv, Stage
<1>3. ASSUME req[r].next <= Len(chosen), components[c] = "archived", Refuse(r)
      PROVE  SchedInv'
  <2>1. c \in Components /\ c \in Chosen(r)
    BY <1>2, <1>3 DEF Chosen
  <2>2. c \in deleted
    BY <1>3, <2>1 DEF SchedInv, ArchivedWasDeleted
  <2> QED
    BY <1>1, <1>3, <2>1, <2>2, RefusedLate
<1>4. ASSUME req[r].next <= Len(chosen), Goto(r, "insert"),
             UNCHANGED <<admin, jobs, attached, started, req, fresh>>
      PROVE  SchedInv'
  <2>1. pc'[r] = "insert"
    BY <1>4 DEF Goto, SchedInv, TypeOK
  <2>2. Stage(r)' /\ HasReason(r)'
    BY <1>1, <1>2, <1>4, <2>1 DEF RequestInv, Stage, Before, HasReason
  <2>3. WellChosen(r)'
    BY <1>1, <1>2, <1>4, <2>1 DEF RequestInv, WellChosen, Distinct, Types
  <2> QED
    BY <1>1, <1>4, <2>2, <2>3, GoesOn
<1>5. ASSUME req[r].next <= Len(chosen), c \in attached[r],
             req' = [req EXCEPT ![r].next = @ + 1],
             UNCHANGED <<pc, admin, jobs, attached, started, fresh>>
      PROVE  SchedInv'
  <2>1. /\ pc' = [pc EXCEPT ![r] = "attach"]
        /\ attached' = [attached EXCEPT ![r] = @ \union {c}]
    BY <1>1, <1>5 DEF SchedInv, TypeOK
  <2> QED
    BY <1>1, <1>5, <2>1, NextOne
<1>6. ASSUME req[r].next > Len(chosen), NEW label \in {"publish", "answered"}, Goto(r, label),
             UNCHANGED <<admin, jobs, attached, started, req, fresh>>
      PROVE  SchedInv'
  <2>1. pc'[r] = label
    BY <1>6 DEF Goto, SchedInv, TypeOK
  <2>2. Stage(r)' /\ HasReason(r)'
    BY <1>1, <1>2, <1>6, <2>1 DEF RequestInv, Stage, Before, HasReason
  <2>3. WellChosen(r)'
    BY <1>1, <1>2, <1>6, <2>1 DEF RequestInv, WellChosen, Distinct, Types
  <2> QED
    BY <1>1, <1>6, <2>2, <2>3, GoesOn DEF Ended
<1> QED
  BY <1>3, <1>4, <1>5, <1>6 DEF LookUpComponent, Finish, Refuse

LEMMA AttachComponentStep ==
  ASSUME SchedInv, NEW r \in Requests, AttachComponent(r)
  PROVE  SchedInv'
<1> DEFINE chosen == req[r].chosen
           next == req[r].next
           c == chosen[next]
<1>1. pc[r] = "insert"
  BY DEF AttachComponent
<1>2. /\ RequestInv(r) /\ chosen \in Seq(Components) /\ next \in Nat \ {0}
      /\ next <= Len(chosen)
  BY <1>1, RequestType DEF RequestInv, Stage
<1>3. CASE /\ attached' = [attached EXCEPT ![r] = @ \union {c}]
           /\ req' = [req EXCEPT ![r].next = @ + 1] /\ Goto(r, "attach")
           /\ UNCHANGED <<admin, jobs, started, fresh>>
  BY <1>1, <1>2, <1>3, NextOne DEF Goto
<1>4. CASE c \in attached[r] /\ Refuse(r)
  <2>1. c \in Chosen(r) /\ next \in DOMAIN chosen
    BY <1>2 DEF Chosen
  <2>2. ASSUME req[r].kind # "create" PROVE c \in added[r]
    <3>1. Distinct(r)
      BY <1>2, <2>2 DEF RequestInv, WellChosen
    <3>2. ASSUME NEW i \in DOMAIN chosen, i < next, c = chosen[i] PROVE FALSE
      BY <1>2, <2>1, <3>1, <3>2 DEF Distinct
    <3> QED
      BY <1>2, <1>4, <3>2 DEF RequestInv, Attaching
  <2> QED
    BY <1>1, <1>4, <2>1, <2>2, RefusedLate
<1> QED
  BY <1>3, <1>4 DEF AttachComponent

LEMMA PublishStartedStep ==
  ASSUME SchedInv, NEW r \in Requests, PublishStarted(r)
  PROVE  SchedInv'
<1>1. /\ pc[r] = "publish" /\ started \subseteq started' /\ started' \subseteq started \union {r}
      /\ Goto(r, "answered") /\ UNCHANGED <<admin, jobs, attached, req, fresh>>
  BY DEF PublishStarted, Handles
<1>2. RequestInv(r)
  BY RequestType
<1>3. pc'[r] = "answered" /\ \A q \in Requests \ {r} : Same(q)
  BY <1>1 DEF Goto, SchedInv, TypeOK, Same
<1>4. TypeOK'
  <2>1. {jobs, archived, withdrawn, started} \subseteq SUBSET Requests
    BY DEF SchedInv, TypeOK
  <2>2. {jobs', archived', withdrawn', started'} \subseteq SUBSET Requests
    BY <1>1, <2>1 DEF admin
  <2> QED
    BY <1>1, <2>2 DEF Goto, SchedInv, TypeOK, admin, Ended
<1>5. Stage(r)' /\ HasReason(r)'
  BY <1>1, <1>2, <1>3 DEF RequestInv, Stage, Before, HasReason
<1>6. Attaching(r)'
  BY <1>1, <1>2 DEF RequestInv, Attaching, admin
<1>7. WellChosen(r)'
  BY <1>1, <1>2, <1>3 DEF RequestInv, WellChosen, Distinct, Types
<1>8. ChosenFresh(r)'
  BY <1>1, <1>2, <1>3 DEF RequestInv, ChosenFresh, InFlight, Ended
<1> QED
  BY <1>1, <1>3, <1>4, <1>5, <1>6, <1>7, <1>8, OnlyRequest DEF RequestInv

LEMMA CrashStep ==
  ASSUME SchedInv, NEW r \in Requests, Crash(r)
  PROVE  SchedInv'
<1>1. /\ r \in InFlight /\ Goto(r, "crashed")
      /\ UNCHANGED <<admin, jobs, attached, started, req, fresh>>
  BY DEF Crash
<1>2. RequestInv(r) /\ pc'[r] = "crashed" /\ pc[r] # "answered"
  BY <1>1, RequestType DEF Goto, SchedInv, TypeOK, InFlight, Ended
<1>3. Stage(r)' /\ HasReason(r)'
  BY <1>1, <1>2 DEF RequestInv, Stage, Before, HasReason
<1>4. WellChosen(r)'
  BY <1>1, <1>2 DEF RequestInv, WellChosen, Distinct
<1> QED
  BY <1>1, <1>3, <1>4, GoesOn DEF Ended

-----------------------------------------------------------------------------
(* What others do to one request: it may be given components, or lose some, *)
(* and what is fresh, was deleted or was withdrawn only grows.              *)
LEMMA OthersStep ==
  ASSUME SchedInv, NEW r \in Requests, UNCHANGED <<jobs, started, pc, req>>,
         attached[r] \union removed[r] \subseteq attached'[r] \union removed'[r],
         attached'[r] \subseteq attached[r] \union added'[r],
         added[r] \subseteq added'[r], deleted \subseteq deleted',
         withdrawn \subseteq withdrawn', fresh[r] \subseteq fresh'[r],
         r \in InFlight => \A c \in Components : Latest(TypeOf[c], components)' \subseteq fresh'[r]
  PROVE  RequestInv(r)'
<1>1. RequestInv(r)
  BY RequestType
<1>2. Stage(r)' /\ WellChosen(r)'
  BY <1>1 DEF RequestInv, Stage, WellChosen, Distinct, Types
<1>3. Attaching(r)'
  BY <1>1 DEF RequestInv, Attaching
<1>4. HasReason(r)'
  BY <1>1 DEF RequestInv, HasReason, Chosen
<1>5. ChosenFresh(r)'
  <2>1. r \in InFlight' => r \in InFlight
    BY DEF InFlight
  <2>2. req[r].given = <<>> => \A i \in DOMAIN req[r].chosen : req[r].chosen[i] \in fresh'[r]
    BY <1>1 DEF RequestInv, ChosenFresh
  <2>3. r \in InFlight' =>
          \A c \in Components : Latest(TypeOf[c], components)' \subseteq fresh'[r]
    BY <2>1
  <2> QED
    BY <2>2, <2>3 DEF ChosenFresh, Latest, Candidates
<1> QED
  BY <1>2, <1>3, <1>4, <1>5 DEF RequestInv

(* Whatever becomes the latest of its type is fresh for those in flight.    *)
LEMMA RefreshCovers ==
  ASSUME SchedInv, NEW r \in Requests, r \in InFlight, NEW t,
         components' \in [Components -> {"none", "active", "inactive", "archived"}],
         created' \in Seq(Components), Refresh(components', created')
  PROVE  Latest(t, components)' \subseteq fresh'[r]
<1> SUFFICES ASSUME NEW c \in Latest(t, components)' PROVE c \in fresh'[r]
  OBVIOUS
<1>1. PICK k \in DOMAIN created' :
        /\ c = created'[k] /\ TypeOf[created'[k]] = t /\ created'[k] \notin TeamOwned
        /\ components'[created'[k]] = "active"
        /\ \A j \in DOMAIN created' :
             /\ TypeOf[created'[j]] = t /\ created'[j] \notin TeamOwned
             /\ components'[created'[j]] = "active"
             => j <= k
  BY DEF Latest, Candidates
<1>2. c \in Components
  BY <1>1
<1> QED
  BY <1>1, <1>2 DEF Refresh

LEMMA RefreshKeeps ==
  ASSUME SchedInv, NEW states, NEW order, Refresh(states, order)
  PROVE  /\ \A r \in Requests : fresh[r] \subseteq fresh'[r]
         /\ fresh' \in [Requests -> SUBSET Components]
BY DEF SchedInv, TypeOK, Refresh

(* Feeders and administrators: an archived component was deleted once.      *)
LEMMA ComponentsStep ==
  ASSUME SchedInv, Change,
         UNCHANGED <<remoteci, topic, jobs, archived, withdrawn, attached, started, pc, req,
                     added, removed>>,
         components' \in [Components -> {"none", "active", "inactive", "archived"}],
         created' \in Seq(Components), Refresh(components', created'),
         deleted \subseteq deleted', deleted' \subseteq Components, ArchivedWasDeleted'
  PROVE  SchedInv'
<1>1. fresh' \in [Requests -> SUBSET Components] /\ \A r \in Requests : fresh[r] \subseteq fresh'[r]
  BY RefreshKeeps
<1>2. TypeOK'
  BY <1>1, MaxChangesAssumption DEF SchedInv, TypeOK, Change
<1>3. ASSUME NEW r \in Requests PROVE RequestInv(r)'
  <2>1. r \in InFlight => \A c \in Components : Latest(TypeOf[c], components)' \subseteq fresh'[r]
    BY RefreshCovers
  <2> QED
    BY <1>1, <2>1, OthersStep
<1> QED
  BY <1>2, <1>3 DEF SchedInv

LEMMA CreateComponentStep ==
  ASSUME SchedInv, Change, NEW c \in Components, CreateComponent(c)
  PROVE  SchedInv'
<1>1. /\ components' = [components EXCEPT ![c] = "active"]
      /\ created' = Append(created, c) /\ Refresh(components', created')
      /\ UNCHANGED <<remoteci, topic, jobs, archived, withdrawn, attached, started, pc, req,
                     deleted, added, removed>>
  BY DEF CreateComponent
<1>2. /\ components' \in [Components -> {"none", "active", "inactive", "archived"}]
      /\ created' \in Seq(Components) /\ deleted \subseteq Components
  BY <1>1 DEF SchedInv, TypeOK
<1>3. ArchivedWasDeleted'
  BY <1>1 DEF SchedInv, TypeOK, ArchivedWasDeleted
<1> QED
  BY <1>1, <1>2, <1>3, ComponentsStep

LEMMA UpdateComponentStep ==
  ASSUME SchedInv, Change, NEW c \in Components, UpdateComponent(c)
  PROVE  SchedInv'
<1>1. PICK s \in {"active", "inactive", "archived"} :
        /\ components' = [components EXCEPT ![c] = s]
        /\ deleted' = IF s = "archived" THEN deleted \union {c} ELSE deleted
  BY DEF UpdateComponent
<1>2. /\ created' = created /\ Refresh(components', created')
      /\ UNCHANGED <<remoteci, topic, jobs, archived, withdrawn, attached, started, pc, req,
                     added, removed>>
  BY DEF UpdateComponent
<1>3. /\ components' \in [Components -> {"none", "active", "inactive", "archived"}]
      /\ created' \in Seq(Components) /\ deleted \subseteq deleted' /\ deleted' \subseteq Components
  BY <1>1, <1>2 DEF SchedInv, TypeOK
<1>4. \A d \in Components : components'[d] = "archived" => d \in deleted'
  BY <1>1 DEF SchedInv, TypeOK, ArchivedWasDeleted
<1>5. ArchivedWasDeleted'
  BY <1>2, <1>4 DEF SchedInv, ArchivedWasDeleted
<1> QED
  BY <1>2, <1>3, <1>5, ComponentsStep

LEMMA ToggleStep ==
  ASSUME SchedInv, Change, ToggleRemoteci \/ ToggleTopic
  PROVE  SchedInv'
<1>1. UNCHANGED <<components, created, jobs, archived, withdrawn, attached, started, pc, req,
                  fresh, deleted, added, removed>>
  BY DEF ToggleRemoteci, ToggleTopic
<1>2. TypeOK'
  BY MaxChangesAssumption
  DEF SchedInv, TypeOK, Change, ToggleRemoteci, ToggleTopic, Toggle
<1>3. ArchivedWasDeleted'
  BY <1>1 DEF SchedInv, ArchivedWasDeleted
<1>4. ASSUME NEW r \in Requests PROVE RequestInv(r)'
  <2>1. r \in InFlight => \A c \in Components : Latest(TypeOf[c], components)' \subseteq fresh'[r]
    BY <1>1, RequestType DEF RequestInv, ChosenFresh, Latest, Candidates
  <2> QED
    BY <1>1, <2>1, OthersStep
<1> QED
  BY <1>2, <1>3, <1>4 DEF SchedInv

LEMMA ArchiveJobStep ==
  ASSUME SchedInv, Change, NEW r \in Requests, ArchiveJob(r)
  PROVE  SchedInv'
<1>1. /\ UNCHANGED <<components, created, remoteci, topic, jobs, attached, started, pc, req,
                     fresh, deleted, added, removed>>
      /\ \/ archived' = archived \union {r} /\ withdrawn' = withdrawn \union {r}
         \/ archived' = archived \ {r} /\ withdrawn' = withdrawn
  BY DEF ArchiveJob
<1>2. /\ {jobs, archived, withdrawn, started} \subseteq SUBSET Requests
      /\ archived \subseteq Requests /\ withdrawn \subseteq Requests
  BY DEF SchedInv, TypeOK
<1>3. {jobs', archived', withdrawn', started'} \subseteq SUBSET Requests
  BY <1>1, <1>2
<1>4. TypeOK'
  BY <1>1, <1>3, MaxChangesAssumption DEF SchedInv, TypeOK, Change
<1>5. ArchivedWasDeleted' /\ withdrawn \subseteq withdrawn'
  BY <1>1 DEF SchedInv, ArchivedWasDeleted
<1>6. ASSUME NEW q \in Requests PROVE RequestInv(q)'
  <2>1. q \in InFlight => \A d \in Components : Latest(TypeOf[d], components)' \subseteq fresh'[q]
    BY <1>1, RequestType DEF RequestInv, ChosenFresh, Latest, Candidates
  <2> QED
    BY <1>1, <1>5, <2>1, OthersStep
<1> QED
  BY <1>4, <1>5, <1>6 DEF SchedInv

LEMMA EditStep ==
  ASSUME SchedInv, Change, NEW r \in Requests, NEW c \in Components,
         AddComponentToJob(r, c) \/ RemoveComponentFromJob(r, c)
  PROVE  SchedInv'
<1>1. UNCHANGED <<components, created, remoteci, topic, jobs, archived, withdrawn, started, pc,
                  req, fresh, deleted>>
  BY DEF AddComponentToJob, RemoveComponentFromJob
<1>2. \/ /\ attached' = [attached EXCEPT ![r] = @ \union {c}]
         /\ added' = [added EXCEPT ![r] = @ \union {c}] /\ removed' = removed
      \/ /\ attached' = [attached EXCEPT ![r] = @ \ {c}]
         /\ removed' = [removed EXCEPT ![r] = @ \union {c}] /\ added' = added
  BY DEF AddComponentToJob, RemoveComponentFromJob
<1>3. /\ {attached, fresh, added, removed} \subseteq [Requests -> SUBSET Components]
      /\ attached \in [Requests -> SUBSET Components] /\ added \in [Requests -> SUBSET Components]
      /\ removed \in [Requests -> SUBSET Components] /\ fresh \in [Requests -> SUBSET Components]
  BY DEF SchedInv, TypeOK
<1>4. /\ attached' \in [Requests -> SUBSET Components]
      /\ added' \in [Requests -> SUBSET Components]
      /\ removed' \in [Requests -> SUBSET Components]
  BY <1>2, <1>3
<1>5. TypeOK'
  BY <1>1, <1>3, <1>4, MaxChangesAssumption DEF SchedInv, TypeOK, Change
<1>6. ArchivedWasDeleted'
  BY <1>1 DEF SchedInv, ArchivedWasDeleted
<1>7. ASSUME NEW q \in Requests PROVE RequestInv(q)'
  <2>1. q \in InFlight => \A d \in Components : Latest(TypeOf[d], components)' \subseteq fresh'[q]
    BY <1>1, RequestType DEF RequestInv, ChosenFresh, Latest, Candidates
  <2>2. /\ attached[q] \union removed[q] \subseteq attached'[q] \union removed'[q]
        /\ attached'[q] \subseteq attached[q] \union added'[q] /\ added[q] \subseteq added'[q]
    BY <1>2, <1>3
  <2> QED
    BY <1>1, <2>1, <2>2, OthersStep
<1> QED
  BY <1>5, <1>6, <1>7 DEF SchedInv

LEMMA SchedNext == SchedInv /\ [Next]_vars => SchedInv'
<1> SUFFICES ASSUME SchedInv, [Next]_vars PROVE SchedInv'
  OBVIOUS
<1>1. ASSUME NEW r \in Requests, Serve(r) PROVE SchedInv'
  BY <1>1, CheckRequestStep, VerifyGivenStep, SelectComponentStep, StoreJobStep, ReadJobStep,
     PermitComponentsStep, LookUpComponentStep, AttachComponentStep, PublishStartedStep DEF Serve
<1>2. CASE Others
  BY <1>2, CreateComponentStep, UpdateComponentStep, ToggleStep, ArchiveJobStep,
     EditStep DEF Others
<1>3. CASE UNCHANGED vars
  <2>1. TypeOK' /\ ArchivedWasDeleted'
    BY <1>3 DEF SchedInv, TypeOK, ArchivedWasDeleted, vars, admin
  <2>2. ASSUME NEW r \in Requests PROVE RequestInv(r)'
    <3>1. r \in InFlight => \A c \in Components : Latest(TypeOf[c], components)' \subseteq fresh'[r]
      BY <1>3, RequestType DEF RequestInv, ChosenFresh, Latest, Candidates, vars, admin
    <3> QED
      BY <1>3, <3>1, OthersStep DEF vars, admin
  <2> QED
    BY <2>1, <2>2 DEF SchedInv
<1> QED
  BY <1>1, <1>2, <1>3, ArriveStep, CrashStep DEF Next

LEMMA SchedAlways == Spec => []SchedInv
BY SchedInit, SchedNext, PTL DEF Spec

-----------------------------------------------------------------------------
(* Every variable keeps its type in every reachable state.                  *)
THEOREM TypeCorrect == Spec => []TypeOK
<1>1. SchedInv => TypeOK
  BY DEF SchedInv
<1> QED
  BY <1>1, SchedAlways, PTL

(* A stored job that was refused lacks components only because it was       *)
(* archived before it was read again, because one of them was deleted after *)
(* it was chosen, or was added by another request first (_build_job).       *)
THEOREM PartialIsExplained == Spec => []PartialHasAReason
<1>1. SchedInv => PartialHasAReason
  BY DEF SchedInv, TypeOK, RequestInv, HasReason, PartialHasAReason
<1> QED
  BY <1>1, SchedAlways, PTL

(* What get_last_components_by_type chose was the latest of its type at     *)
(* some moment since the request arrived.                                   *)
THEOREM SelectionIsRecent == Spec => []ChosenWasLatest
<1>1. SchedInv => ChosenWasLatest
  BY DEF SchedInv, RequestInv, ChosenFresh, ChosenWasLatest
<1> QED
  BY <1>1, SchedAlways, PTL

LEMMA AnsweredIsBuilt ==
  ASSUME SchedInv, NEW r \in Requests, pc[r] = "answered"
  PROVE  Built(r)
<1>1. /\ Attaching(r) /\ req[r].chosen \in Seq(Components) /\ req[r].next \in Nat \ {0}
      /\ req[r].next > Len(req[r].chosen)
  BY RequestType DEF RequestInv, Stage
<1>2. \A i \in DOMAIN req[r].chosen : i < req[r].next
  BY <1>1
<1> QED
  BY <1>1, <1>2 DEF Attaching, Built, Chosen

LEMMA AnsweredChoseAll ==
  ASSUME SchedInv, NEW r \in Requests, pc[r] = "answered", req[r].kind # "create"
  PROVE  CompleteChoice(r)
<1>1. WellChosen(r) /\ Distinct(r)
  BY RequestType DEF RequestInv, WellChosen
<1>2. CASE Types(r, Len(ComponentTypes))
  <2>1. DOMAIN ComponentTypes = 1..Len(ComponentTypes)
    BY ComponentTypesAssumption
  <2> QED
    BY <1>1, <1>2, <2>1 DEF Types, Distinct, CompleteChoice
<1>3. CASE req[r].chosen = req[r].given /\ Len(req[r].given) = Len(ComponentTypes)
  BY <1>1, <1>3 DEF Distinct, CompleteChoice
<1> QED
  BY <1>1, <1>2, <1>3 DEF WellChosen

(* A job that is answered or announced has all its handler chose and        *)
(* nothing else, but for what others did to it: one component of each type  *)
(* of the topic, or those the request gave (internal_create_jobs).          *)
THEOREM AnsweredJobsAreComplete == Spec => []AnsweredIsComplete
<1>1. SchedInv => AnsweredIsComplete
  <2> SUFFICES ASSUME SchedInv PROVE AnsweredIsComplete
    OBVIOUS
  <2>1. \A r \in Requests : r \in started => pc[r] = "answered"
    BY RequestType DEF RequestInv, Stage
  <2> QED
    BY <2>1, AnsweredIsBuilt, AnsweredChoseAll DEF AnsweredIsComplete
<1> QED
  BY <1>1, SchedAlways, PTL
=============================================================================
