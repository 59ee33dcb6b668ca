---------------------- MODULE ConditionalUpdate_proofs ----------------------
(***************************************************************************)
(* The handlers that compare and set (teams, users, identity, the deletion *)
(* of products) implement EtagContract, for any number of clients, columns *)
(* and versions.  The read-check-write handlers do not: TLC shows it.      *)
(***************************************************************************)
EXTENDS ConditionalUpdate, TLAPS

CasOnly == Handlers \subseteq Cas

(* Each change of the row is one entry of the log, numbered by its etag. *)
LogCounts ==
    /\ Len(log) = row.etag
    /\ \A i \in 1..Len(log) : log[i].etag = i

(* An etag a client holds was the row's. *)
KnownIsPast == \A c \in Clients : known[c] <= row.etag

ColumnsArePast == \A k \in Columns : row.cols[k] <= row.etag

(* i is the last change the client made. *)
LastChange(c, i) ==
    /\ i \in 1..Len(log)
    /\ log[i].by = c
    /\ \A j \in 1..Len(log) : log[j].by = c => j <= i

(* A request that has written is in the log with the etag it named; what   *)
(* authentication read is still the row's as long as that etag is.         *)
Progress(c) ==
    /\ req[c].handler \in Cas \union {"none"}
    /\ req[c].handler \in Handlers \union {"none"}
    /\ pc[c] = "unsaved" => req[c].handler = "put_identity"
    /\ pc[c] = "answer" => \E i \in 1..Len(log) :
            /\ LastChange(c, i)
            /\ log[i].base = known[c]
    /\ pc[c] = "write" /\ req[c].handler \in SelfPuts /\ known[c] = row.etag
         => req[c].read = row.cols

IInv ==
    /\ TypeOK
    /\ LogCounts
    /\ KnownIsPast
    /\ ColumnsArePast
    /\ ChangedWhatWasRead
    /\ \A c \in Clients : Progress(c)

-----------------------------------------------------------------------------
LEMMA InitInv == Init => IInv
<1> SUFFICES ASSUME Init PROVE IInv
  OBVIOUS
<1> USE DEF Init
<1>1. TypeOK
  BY DEF TypeOK, NoRequest, Unstored, States
<1>2. LogCounts /\ KnownIsPast /\ ColumnsArePast /\ ChangedWhatWasRead
  BY DEF LogCounts, KnownIsPast, ColumnsArePast, ChangedWhatWasRead, Unstored
<1>3. \A c \in Clients : Progress(c)
  BY DEF Progress, NoRequest
<1> QED
  BY <1>1, <1>2, <1>3 DEF IInv

(* A step that writes no row: an etag learnt, a request sent or ended. *)
LEMMA RowKept ==
    ASSUME IInv, NEW c \in Clients, UNCHANGED <<row, log>>, TypeOK',
           known'[c] <= row.etag,
           \A d \in Clients \ {c} : UNCHANGED <<known[d], pc[d], req[d]>>,
           Progress(c)'
    PROVE  IInv'
<1>1. LogCounts' /\ ColumnsArePast' /\ ChangedWhatWasRead'
  BY DEF IInv, LogCounts, ColumnsArePast, ChangedWhatWasRead
<1>2. KnownIsPast'
  BY DEF IInv, KnownIsPast
<1>3. ASSUME NEW d \in Clients \ {c} PROVE Progress(d)'
  BY DEF IInv, Progress, LastChange
<1> QED
  BY <1>1, <1>2, <1>3 DEF IInv

(* The request is over. *)
LEMMA EndStep ==
    ASSUME IInv, NEW c \in Clients, End(c), UNCHANGED <<row, log>>,
           acked' \subseteq Acks,
           known' \in [Clients -> Nat \union {Unstored}],
           \A d \in Clients \ {c} : known'[d] = known[d],
           known'[c] <= row.etag
    PROVE  IInv'
<1>1. TypeOK'
  BY DEF End, Goto, NoRequest, IInv, TypeOK
<1>2. Progress(c)'
  BY DEF End, Goto, NoRequest, IInv, TypeOK, Progress
<1>3. \A d \in Clients \ {c} : UNCHANGED <<known[d], pc[d], req[d]>>
  BY DEF End, Goto, IInv, TypeOK
<1> QED
  BY <1>1, <1>2, <1>3, RowKept

LEMMA RefuseStep ==
    ASSUME IInv, NEW c \in Clients, Refuse(c)
    PROVE  IInv'
<1>1. known[c] <= row.etag
  BY DEF IInv, KnownIsPast
<1> QED
  BY <1>1, EndStep DEF Refuse, IInv, TypeOK

LEMMA GetStep ==
    ASSUME IInv, NEW c \in Clients, Get(c)
    PROVE  IInv'
<1>1. TypeOK'
  BY DEF Get, IInv, TypeOK
<1>2. Progress(c)'
  BY DEF Get, IInv, Progress
<1>3. known'[c] = row.etag /\ row.etag \in Nat
  BY DEF Get, IInv, TypeOK
<1>4. \A d \in Clients \ {c} : UNCHANGED <<known[d], pc[d], req[d]>>
  BY DEF Get, IInv, TypeOK
<1> QED
  BY <1>1, <1>2, <1>3, <1>4, RowKept DEF Get

LEMMA SendStep ==
    ASSUME CasOnly, IInv, NEW c \in Clients, Send(c)
    PROVE  IInv'
<1>1. PICK h \in Handlers, given \in SUBSET Columns, asked \in States \union {"none"} :
        /\ req' = [req EXCEPT ![c] = [handler |-> h, given |-> given,
                                     state |-> asked, seen |-> "none",
                                     read |-> Authenticated(h)]]
        /\ pc' = [pc EXCEPT ![c] = IF h \in {"put_team", "delete_cas"} \union Orm
                                   THEN "check" ELSE "write"]
  <2>1. \A h \in Handlers : StatesAsked(h) \subseteq States \union {"none"}
    BY PutStatesAssumption DEF StatesAsked, States
  <2> QED
    BY <2>1 DEF Send, Goto
<1>2. row.cols \in [Columns -> Nat] /\ h \in Cas /\ Authenticated(h) = row.cols
  BY DEF IInv, TypeOK, CasOnly, Authenticated
<1>3. TypeOK'
  BY <1>1, <1>2 DEF Send, IInv, TypeOK, Authenticated
<1>4. Progress(c)'
  BY <1>1, <1>2 DEF Send, IInv, TypeOK, Progress
<1>5. known[c] <= row.etag
  BY DEF IInv, KnownIsPast
<1>6. \A d \in Clients \ {c} : UNCHANGED <<known[d], pc[d], req[d]>>
  BY <1>1 DEF Send, IInv, TypeOK
<1> QED
  BY <1>3, <1>4, <1>5, <1>6, RowKept DEF Send

(* The UPDATE: the etag matches, so the version replaced is the one named. *)
LEMMA ApplyStep ==
    ASSUME IInv, NEW c \in Clients, Apply(c), Matches(c), pc[c] = "write",
           UNCHANGED <<known, req, acked>>
    PROVE  IInv'
<1> DEFINE new == [by |-> c, base |-> known[c], etag |-> row.etag + 1]
<1>1. /\ row.etag \in Nat /\ known[c] = row.etag
      /\ log \in Seq(Changes) /\ new \in Changes
      /\ req[c].handler \in Cas \union {"none"}
  BY DEF IInv, TypeOK, KnownIsPast, Matches, Changes, Progress
<1>2. /\ log' = Append(log, new)
      /\ row'.etag = row.etag + 1
      /\ pc' = [pc EXCEPT ![c] = "answer"]
  BY <1>1 DEF Apply, Goto
<1>3. /\ log' \in Seq(Changes) /\ Len(log') = Len(log) + 1
      /\ \A i \in 1..Len(log) : log'[i] = log[i]
      /\ log'[Len(log) + 1] = new
  BY <1>1, <1>2
<1>4. row'.cols \in [Columns -> Nat]
  BY <1>1 DEF Apply, NewColumns, IInv, TypeOK
<1>5. TypeOK'
  <2>1. row' \in [etag: Nat, state: States, cols: [Columns -> Nat]]
    BY <1>1, <1>4 DEF Apply, NewState, States, IInv, TypeOK
  <2> QED
    BY <1>2, <1>3, <2>1 DEF IInv, TypeOK
<1>6. LogCounts'
  BY <1>1, <1>2, <1>3 DEF IInv, LogCounts
<1>7. KnownIsPast'
  <2>1. \A d \in Clients : known[d] \in Int /\ known[d] <= row.etag
    BY DEF IInv, TypeOK, KnownIsPast, Unstored
  <2>2. \A d \in Clients : known[d] <= row.etag + 1 /\ known[d] # row.etag + 1
    BY <1>1, <2>1
  <2> QED
    BY <1>2, <2>2 DEF KnownIsPast
<1>8. ChangedWhatWasRead'
  BY <1>1, <1>2, <1>3 DEF IInv, ChangedWhatWasRead
<1>9. ColumnsArePast'
  <2>1. req[c].handler \in SelfPuts => req[c].read = row.cols
    BY <1>1 DEF IInv, Progress
  <2> QED
    BY <1>1, <2>1 DEF Apply, NewColumns, IInv, TypeOK, ColumnsArePast
<1>10. Progress(c)'
  <2>1. PICK n : n = Len(log) + 1
    OBVIOUS
  <2>2. n \in 1..Len(log') /\ log'[n] = new
    BY <1>1, <1>3, <2>1
  <2>3. LastChange(c, n)'
    BY <1>3, <2>2 DEF LastChange, IInv, LogCounts
  <2>4. pc'[c] = "answer"
    BY <1>2 DEF IInv, TypeOK
  <2>5. /\ req' = req
        /\ req[c].handler \in (Cas \union {"none"}) \intersect (Handlers \union {"none"})
    BY DEF IInv, Progress
  <2> QED
    BY <1>1, <2>2, <2>3, <2>4, <2>5 DEF Progress
<1>11. ASSUME NEW d \in Clients \ {c} PROVE Progress(d)'
  <2>1. pc'[d] = pc[d] /\ Progress(d) /\ known[d] <= row.etag /\ known[d] \in Nat \union {Unstored}
    BY <1>2 DEF IInv, TypeOK, KnownIsPast
  <2>2. \A i \in 1..Len(log) : LastChange(d, i) => LastChange(d, i)'
    BY <1>1, <1>2, <1>3 DEF LastChange, IInv, LogCounts
  <2>3. known[d] # row'.etag
    BY <1>1, <1>2, <2>1 DEF Unstored
  <2> QED
    BY <1>2, <1>3, <2>1, <2>2, <2>3 DEF Progress
<1> QED
  BY <1>5, <1>6, <1>7, <1>8, <1>9, <1>10, <1>11 DEF IInv

LEMMA CasStep ==
    ASSUME IInv, NEW c \in Clients,
           CasCheck(c) \/ CasWrite(c) \/ CasAnswer(c) \/ CasUnsaved(c)
    PROVE  IInv'
<1>0. /\ known[c] \in Nat \union {Unstored} /\ known[c] <= row.etag /\ row.etag \in Nat
  BY DEF IInv, TypeOK, KnownIsPast
<1>1. CASE CasCheck(c)
  <2>1. CASE Refuse(c)
    BY <2>1, RefuseStep
  <2>2. CASE ~Refuse(c)
    <3>1. /\ req[c].handler \in {"put_team", "delete_cas"}
          /\ pc' = [pc EXCEPT ![c] = "write"]
          /\ UNCHANGED <<row, known, req, log, acked>>
      BY <1>1, <2>2 DEF CasCheck, Handles, Goto
    <3>2. TypeOK' /\ Progress(c)'
      BY <3>1 DEF IInv, TypeOK, Progress, SelfPuts, Cas, CasPuts
    <3>3. \A d \in Clients \ {c} : UNCHANGED <<known[d], pc[d], req[d]>>
      BY <3>1 DEF IInv, TypeOK
    <3> QED
      BY <1>0, <3>1, <3>2, <3>3, RowKept
  <2> QED
    BY <2>1, <2>2
<1>2. CASE CasWrite(c)
  <2>1. CASE Refuse(c)
    BY <2>1, RefuseStep
  <2>2. CASE Matches(c)
    BY <1>2, <2>2, ApplyStep DEF CasWrite, Handles
  <2>3. CASE ~Refuse(c) /\ ~Matches(c)
    <3>1. /\ pc' = [pc EXCEPT ![c] = "unsaved"]
          /\ UNCHANGED <<row, known, req, log, acked>>
      BY <1>2, <2>3 DEF CasWrite, Goto
    <3>2. TypeOK' /\ Progress(c)'
      BY <1>2, <2>3, <3>1 DEF CasWrite, ChecksRows, IInv, TypeOK, Progress
    <3>3. \A d \in Clients \ {c} : UNCHANGED <<known[d], pc[d], req[d]>>
      BY <3>1 DEF IInv, TypeOK
    <3> QED
      BY <1>0, <3>1, <3>2, <3>3, RowKept
  <2> QED
    BY <2>1, <2>2, <2>3
<1>3. CASE CasAnswer(c)
  <2>1. acked' \subseteq Acks
    BY <1>0, <1>3 DEF CasAnswer, Handles, Acks, Acknowledge, IInv, TypeOK, Unstored
  <2>2. CASE req[c].handler \in Deletes
    BY <1>0, <1>3, <2>1, <2>2, EndStep DEF CasAnswer, IInv, TypeOK
  <2>3. CASE ~ReadsBack(c) /\ UNCHANGED known /\ End(c)
    BY <1>0, <1>3, <2>1, <2>3, EndStep DEF CasAnswer, IInv, TypeOK
  <2>4. CASE req[c].handler \notin Deletes /\ Answer(c, log[OwnVersion(c)].etag)
    <3>1. LastChange(c, OwnVersion(c))
      <4>1. PICK i \in 1..Len(log) : LastChange(c, i)
        BY <1>3, <2>4 DEF CasAnswer, Handles, IInv, Progress
      <4>2. DOMAIN log = 1..Len(log)
        BY DEF IInv, TypeOK
      <4>3. OwnVersion(c) = i
        BY <4>1, <4>2 DEF OwnVersion, LastChange
      <4> QED
        BY <4>1, <4>3
    <3>2. log[OwnVersion(c)].etag = OwnVersion(c) /\ OwnVersion(c) \in 1..row.etag
      BY <3>1 DEF LastChange, IInv, LogCounts
    <3>3. /\ End(c) /\ UNCHANGED <<row, log>>
          /\ known' = [known EXCEPT ![c] = OwnVersion(c)]
      BY <1>3, <2>4, <3>2 DEF CasAnswer, Answer
    <3>4. /\ known' \in [Clients -> Nat \union {Unstored}]
          /\ known'[c] = OwnVersion(c)
          /\ \A d \in Clients \ {c} : known'[d] = known[d]
      BY <1>0, <3>2, <3>3 DEF IInv, TypeOK
    <3> QED
      BY <1>0, <2>1, <3>1, <3>2, <3>3, <3>4, EndStep
  <2> QED
    BY <1>3, <2>2, <2>3, <2>4 DEF CasAnswer
<1>4. CASE CasUnsaved(c)
  <2>1. CASE Refuse(c)
    BY <2>1, RefuseStep
  <2>2. CASE ~Refuse(c)
    <3>1. /\ End(c) /\ UNCHANGED <<row, log>>
          /\ known' = [known EXCEPT ![c] = Unstored]
          /\ acked' \subseteq Acks
      BY <1>0, <1>4, <2>2
      DEF CasUnsaved, Handles, Acks, Answer, Acknowledge, IInv, TypeOK, Unstored
    <3>2. /\ known' \in [Clients -> Nat \union {Unstored}]
          /\ known'[c] <= row.etag
          /\ \A d \in Clients \ {c} : known'[d] = known[d]
      BY <1>0, <3>1 DEF IInv, TypeOK, Unstored
    <3> QED
      BY <3>1, <3>2, EndStep
  <2> QED
    BY <2>1, <2>2
<1> QED
  BY <1>1, <1>2, <1>3, <1>4

-----------------------------------------------------------------------------
LEMMA IInvStep ==
    ASSUME CasOnly, IInv, [Next]_vars
    PROVE  IInv'
<1>1. CASE UNCHANGED vars
  <2>1. TypeOK'
    BY <1>1 DEF vars, IInv, TypeOK
  <2>2. LogCounts' /\ KnownIsPast' /\ ColumnsArePast' /\ ChangedWhatWasRead'
    BY <1>1 DEF vars, IInv, LogCounts, KnownIsPast, ColumnsArePast, ChangedWhatWasRead
  <2>3. \A c \in Clients : Progress(c)'
    BY <1>1 DEF vars, IInv, Progress, LastChange
  <2> QED
    BY <2>1, <2>2, <2>3 DEF IInv
<1>2. ASSUME NEW c \in Clients, OrmCheck(c) \/ OrmWrite(c) \/ OrmAnswer(c)
      PROVE  FALSE
  BY <1>2 DEF OrmCheck, OrmWrite, OrmAnswer, Handles, Orm, Cas, CasPuts, IInv, Progress
<1> QED
  BY <1>1, <1>2, GetStep, SendStep, CasStep, RefuseStep DEF Next, Crash

LEMMA IInvInvariant == ASSUME CasOnly PROVE Spec => []IInv
BY InitInv, IInvStep, PTL DEF Spec

(* The handlers that compare and set keep the promise of docs/API.md: they *)
(* only replace the version their client had read (teams.py, users.py,     *)
(* identity.py, products.py).                                              *)
THEOREM CasImplementsContract ==
    ASSUME Handlers \subseteq Cas
    PROVE  Spec => EtagIsHonoured
<1>1. Init => Contract!Init
  BY DEF Init, Contract!Init
<1>2. IInv /\ [Next]_vars => [Contract!Next]_(Contract!contractVars)
  <2> SUFFICES ASSUME IInv, [Next]_vars
               PROVE  Contract!Next \/ UNCHANGED <<row.etag, log>>
    BY DEF Contract!contractVars
  <2>1. ASSUME NEW c \in Clients, Apply(c), Matches(c) PROVE Contract!Next
    BY <2>1 DEF Matches, Apply, Contract!Next, Contract!Change
  <2>2. CASE UNCHANGED <<row, log>>
    BY <2>2
  <2>3. ASSUME NEW c \in Clients, OrmCheck(c) \/ OrmWrite(c) \/ OrmAnswer(c)
        PROVE  FALSE
    BY <2>3 DEF OrmCheck, OrmWrite, OrmAnswer, Handles, Orm, Cas, CasPuts, IInv, Progress
  <2> QED
    BY <2>1, <2>2, <2>3
    DEF Next, vars, Get, Send, Crash, Refuse, CasCheck, CasWrite, CasAnswer, CasUnsaved
<1> QED
  BY <1>1, <1>2, IInvInvariant, PTL DEF Spec, EtagIsHonoured, Contract!Spec, CasOnly

(* In particular no change of theirs overwrites a version unread.          *)
THEOREM CasChangesWhatWasRead ==
    ASSUME Handlers \subseteq Cas
    PROVE  Spec => []ChangedWhatWasRead
<1>1. IInv => ChangedWhatWasRead
  BY DEF IInv
<1> QED
  BY <1>1, IInvInvariant, PTL DEF CasOnly

(* A step is a write by compare and set, or it leaves the row alone. *)
LEMMA RowStep ==
    ASSUME IInv, CasOnly, Next
    PROVE  \/ UNCHANGED <<row, log>>
           \/ \E c \in Clients : Apply(c) /\ Matches(c) /\ pc[c] = "write"
<1>1. ASSUME NEW c \in Clients, OrmCheck(c) \/ OrmWrite(c) \/ OrmAnswer(c)
      PROVE  FALSE
  BY <1>1 DEF OrmCheck, OrmWrite, OrmAnswer, Handles, Orm, Cas, CasPuts, IInv, Progress
<1> QED
  BY <1>1 DEF Next, Get, Send, Crash, Refuse, CasCheck, CasWrite, CasAnswer, CasUnsaved, Handles

(* The users/me and identity handlers write back every column they read at *)
(* authentication, and still no column ever goes back to an older value    *)
(* (put_current_user, put_identity).                                       *)
THEOREM ColumnsNeverGoBack ==
    ASSUME Handlers \subseteq Cas
    PROVE  Spec => ColumnsMoveForward
<1>1. ASSUME IInv, CasOnly, [Next]_vars
      PROVE  [\A k \in Columns : row'.cols[k] >= row.cols[k]]_vars
  <2>1. CASE UNCHANGED row
    BY <1>1, <2>1 DEF IInv, TypeOK
  <2>2. ASSUME NEW c \in Clients, Apply(c), Matches(c), pc[c] = "write"
        PROVE  \A k \in Columns : row'.cols[k] >= row.cols[k]
    <3>1. req[c].handler \in SelfPuts => req[c].read = row.cols
      BY <1>1, <2>2 DEF IInv, Progress, Matches
    <3>2. row.cols \in [Columns -> Nat] /\ row.etag \in Nat
      BY <1>1 DEF IInv, TypeOK
    <3> QED
      BY <1>1, <2>2, <3>1, <3>2 DEF Apply, NewColumns, IInv, ColumnsArePast
  <2> QED
    BY <1>1, <2>1, <2>2, RowStep DEF vars
<1> QED
  BY <1>1, IInvInvariant, PTL DEF Spec, ColumnsMoveForward, CasOnly

(* Except under identity, a client that is told 200 has its change in the  *)
(* row's history, naming the etag it sent.                                 *)
THEOREM CasAcksWhatItApplies ==
    ASSUME CasOnly
    PROVE  Spec => []AckedIsApplied
<1>1. CasOnly
  OBVIOUS
<1>2. Init => AckedIsApplied
  BY DEF Init, AckedIsApplied
<1>3. ASSUME IInv, AckedIsApplied, [Next]_vars PROVE AckedIsApplied'
  <2>1. log \in Seq(Changes) /\ DOMAIN log = 1..Len(log)
    BY <1>3 DEF IInv, TypeOK
  <2>2. CASE acked' = acked /\ UNCHANGED log
    BY <1>3, <2>2 DEF AckedIsApplied
  <2>3. ASSUME NEW c \in Clients, CasAnswer(c) PROVE AckedIsApplied'
    <3>1. \E i \in 1..Len(log) : log[i].by = c /\ log[i].base = known[c]
      BY <1>3, <2>3 DEF CasAnswer, Handles, IInv, Progress, LastChange
    <3> QED
      BY <1>3, <2>1, <2>3, <3>1 DEF CasAnswer, Acknowledge, AckedIsApplied
  <2>4. ASSUME NEW c \in Clients, CasWrite(c), Apply(c) PROVE AckedIsApplied'
    <3>1. acked' = acked /\ \E new \in Changes : log' = Append(log, new)
      <4>1. acked' = acked
        BY <2>4 DEF CasWrite, Refuse
      <4>2. [by |-> c, base |-> known[c], etag |-> row.etag + 1] \in Changes
        BY <1>3 DEF Changes, IInv, TypeOK, Unstored
      <4> QED
        BY <2>4, <4>1, <4>2 DEF Apply
    <3>2. DOMAIN log \subseteq DOMAIN log' /\ \A i \in DOMAIN log : log'[i] = log[i]
      BY <2>1, <3>1
    <3> QED
      BY <1>3, <3>1, <3>2 DEF AckedIsApplied
  <2>5. ASSUME NEW c \in Clients, OrmCheck(c) \/ OrmWrite(c) \/ OrmAnswer(c)
        PROVE  FALSE
    BY <1>3, <2>5
    DEF OrmCheck, OrmWrite, OrmAnswer, Handles, Orm, Cas, CasPuts, IInv, Progress
  <2>6. ASSUME NEW c \in Clients, CasUnsaved(c) PROVE AckedIsApplied'
    <3>1. req[c].handler = "put_identity" /\ UNCHANGED log
      BY <1>3, <2>6 DEF CasUnsaved, Refuse, Handles, IInv, Progress
    <3>2. \A a \in acked' : a \in acked \/ a.handler = "put_identity"
      BY <2>6, <3>1 DEF CasUnsaved, Acknowledge, Refuse
    <3> QED
      BY <1>3, <3>1, <3>2 DEF AckedIsApplied
  <2> QED
    BY <1>3, <2>2, <2>3, <2>4, <2>5, <2>6
    DEF Next, vars, Get, Send, Crash, Refuse, CasCheck, CasWrite
<1> QED
  BY <1>1, <1>2, <1>3, IInvInvariant, PTL DEF Spec
=============================================================================
