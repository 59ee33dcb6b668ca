-------------------------- MODULE EventsFeed_proofs --------------------------
(* Proofs of the properties of EventsFeed, for any consumers, jobs, limit   *)
(* of a page and bounds.                                                    *)
EXTENDS EventsFeed, FiniteSetTheorems, TLAPS

Event == [job : Jobs, stage : {"open", "seen", "lost", "purged"}, overtaken : BOOLEAN]

Position == [at : {"idle", "creating", "read", "handling", "waiting"},
             etag : Nat, sequence : Nat, page : SUBSET Nat]
Update == [stage : {"none", "asked", "checked"}, etag : Nat, sequence : Nat,
           overlapped : BOOLEAN]

(* The shape of the variables, and no position is past the next id.         *)
Shape ==
  /\ events \in Seq(Event)
  /\ counter \in [sequence : Nat, etag : Nat]
  /\ reader \in [Consumers -> Position]
  /\ put \in [Consumers -> Update]

InRange ==
  /\ counter.sequence <= Len(events) + 1
  /\ \A c \in Consumers :
       /\ reader[c].sequence <= Len(events) + 1
       /\ put[c].sequence <= Len(events) + 1
       /\ \A e \in reader[c].page : e \in Ids

Below(n) == \A e \in Ids : e < n => Accounted(e)

(* Below whatever position some party holds, every event is accounted for;  *)
(* below the last event of a page, every event that is not in the page.     *)
PageAccounted(c) ==
  \A last \in reader[c].page, e \in Ids : e < last => e \in reader[c].page \/ Accounted(e)

AllAccounted ==
  /\ Below(counter.sequence)
  /\ \A c \in Consumers : /\ Below(reader[c].sequence)
                          /\ Below(put[c].sequence)
                          /\ PageAccounted(c)

FeedInv == Shape /\ InRange /\ AllAccounted

(* A party whose etag is the one of the counter holds a position at or      *)
(* after the one of the counter, and so does a checked PUT no other PUT     *)
(* overlapped.                                                              *)
Fresh ==
  /\ counter.etag = 0 => counter.sequence = 0
  /\ \A c \in Consumers :
       /\ reader[c].etag <= counter.etag
       /\ put[c].etag <= counter.etag
       /\ reader[c].at \in {"read", "handling"} /\ reader[c].etag = counter.etag
            => counter.sequence <= reader[c].sequence
       /\ \A e \in reader[c].page : reader[c].sequence <= e
       /\ put[c].stage = "asked" /\ put[c].etag = counter.etag
            => counter.sequence <= put[c].sequence
       /\ put[c].stage = "checked" /\ ~put[c].overlapped
            => counter.sequence <= put[c].sequence

-----------------------------------------------------------------------------
(* What the server writes about events and jobs never takes an account back. *)

Keeps ==
  /\ Ids \subseteq Ids'
  /\ \A e \in Ids' : e \in Ids \/ e = Len(events) + 1
  /\ \A e \in Ids : Accounted(e) => Accounted(e)'
  /\ Len(events) <= Len(events')

Writes ==
  \/ \E j \in Jobs : CreateEvent(j) \/ PurgeJob(j)
  \/ \E e \in Ids : CommitEvent(e) \/ LoseEvent(e)
  \/ \E sequence \in Ids : purge_jobs_events_from_sequence(sequence)

(* The five writes keep the shape of the variables and every account.       *)
LEMMA WritesKeep ==
  ASSUME Shape, Writes
  PROVE  Shape' /\ Keeps /\ UNCHANGED <<counter, reader, put, handled>>
<1>1. ASSUME NEW j \in Jobs, CreateEvent(j)
      PROVE  Shape' /\ Keeps /\ UNCHANGED <<counter, reader, put, handled>>
  <2> DEFINE new == [job |-> j, stage |-> "open", overtaken |-> FALSE]
  <2>1. new \in Event
    BY DEF Event
  <2>2. /\ events' = Append(events, new)
        /\ jobs' = jobs /\ handled' = handled
        /\ UNCHANGED <<counter, reader, put>>
    BY <1>1 DEF CreateEvent
  <2> HIDE DEF new
  <2>3. Shape'
    BY <2>1, <2>2 DEF Shape
  <2>4. /\ Ids = 1..Len(events) /\ Ids' = 1..(Len(events) + 1)
        /\ Len(events) \in Nat /\ Len(events') = Len(events) + 1
        /\ \A e \in Ids : events'[e] = events[e]
    BY <2>1, <2>2 DEF Shape, Ids
  <2>5. \A e \in Ids : Overtaken(e) => Overtaken(e)'
    BY <2>4 DEF Overtaken
  <2>6. \A e \in Ids : Accounted(e) => Accounted(e)'
    BY <2>2, <2>4, <2>5 DEF Accounted
  <2> QED
    BY <2>2, <2>3, <2>4, <2>6 DEF Keeps
<1>2. ASSUME NEW j \in Jobs, PurgeJob(j)
      PROVE  Shape' /\ Keeps /\ UNCHANGED <<counter, reader, put, handled>>
  <2>1. /\ events' = events /\ jobs' = jobs \ {j} /\ handled' = handled
        /\ UNCHANGED <<counter, reader, put>>
    BY <1>2 DEF PurgeJob
  <2>2. Ids' = Ids /\ Len(events') = Len(events) /\ Len(events) \in Nat
    BY <2>1 DEF Ids, Shape
  <2>3. \A e \in Ids : Accounted(e) => Accounted(e)'
    BY <2>1, <2>2 DEF Accounted, Overtaken
  <2> QED
    BY <2>1, <2>2, <2>3 DEF Keeps, Shape
<1>3. ASSUME NEW e \in Ids, CommitEvent(e)
      PROVE  Shape' /\ Keeps /\ UNCHANGED <<counter, reader, put, handled>>
  <2> DEFINE new == [events[e] EXCEPT !.stage = "seen", !.overtaken = Overtaken(e)]
  <2>1. Overtaken(e) \in BOOLEAN
    BY DEF Overtaken
  <2>2. /\ events[e].stage = "open"
        /\ events' = [events EXCEPT ![e] = new]
        /\ jobs' = jobs /\ handled' = handled
        /\ UNCHANGED <<counter, reader, put>>
    BY <1>3 DEF CommitEvent
  <2>3. events[e] \in Event
    BY DEF Shape, Ids
  <2>4. new \in Event /\ new.job = events[e].job /\ new.stage = "seen"
        /\ new.overtaken = Overtaken(e)
    BY <2>1, <2>3 DEF Event
  <2> HIDE DEF new
  <2>5. events' \in Seq(Event) /\ Ids' = Ids /\ Len(events') = Len(events)
    BY <2>2, <2>4 DEF Shape, Ids
  <2>6. \A f \in Ids : events'[f] = IF f = e THEN new ELSE events[f]
    BY <2>2 DEF Shape, Ids
  <2>7. \A f \in Ids : Overtaken(f) => Overtaken(f)'
    BY <2>2, <2>4, <2>5, <2>6 DEF Overtaken
  <2>8. Accounted(e) => Accounted(e)'
    <3>1. events'[e] = new
      BY <2>6
    <3>2. CASE Overtaken(e)
      <4>1. events'[e].overtaken = TRUE
        BY <2>4, <3>1, <3>2
      <4> QED
        BY <2>4, <3>1, <4>1 DEF Accounted
    <3>3. CASE ~Overtaken(e)
      <4>1. Accounted(e) => e \in handled \/ events[e].job \notin jobs
        BY <2>2, <3>3 DEF Accounted
      <4> QED
        BY <2>2, <2>4, <3>1, <4>1 DEF Accounted
    <3> QED
      BY <3>2, <3>3
  <2>9. \A f \in Ids \ {e} : Accounted(f) => Accounted(f)'
    BY <2>2, <2>5, <2>6, <2>7 DEF Accounted
  <2>10. Len(events) \in Nat
    BY DEF Shape
  <2> QED
    BY <2>2, <2>5, <2>8, <2>9, <2>10 DEF Keeps, Shape
<1>4. ASSUME NEW e \in Ids, LoseEvent(e)
      PROVE  Shape' /\ Keeps /\ UNCHANGED <<counter, reader, put, handled>>
  <2> DEFINE new == [events[e] EXCEPT !.stage = "lost"]
  <2>1. /\ events[e].stage = "open"
        /\ events' = [events EXCEPT ![e] = new]
        /\ jobs' = jobs /\ handled' = handled
        /\ UNCHANGED <<counter, reader, put>>
    BY <1>4 DEF LoseEvent
  <2>2. events[e] \in Event
    BY DEF Shape, Ids
  <2>3. new \in Event /\ new.stage = "lost"
    BY <2>2 DEF Event
  <2> HIDE DEF new
  <2>4. events' \in Seq(Event) /\ Ids' = Ids /\ Len(events') = Len(events)
    BY <2>1, <2>3 DEF Shape, Ids
  <2>5. \A f \in Ids : events'[f] = IF f = e THEN new ELSE events[f]
    BY <2>1 DEF Shape, Ids
  <2>6. \A f \in Ids : Overtaken(f) => Overtaken(f)'
    BY <2>1, <2>4, <2>5 DEF Overtaken
  <2>7. Accounted(e)'
    BY <2>3, <2>4, <2>5 DEF Accounted
  <2>8. \A f \in Ids \ {e} : Accounted(f) => Accounted(f)'
    BY <2>1, <2>4, <2>5, <2>6 DEF Accounted
  <2>9. Len(events) \in Nat
    BY DEF Shape
  <2> QED
    BY <2>1, <2>4, <2>7, <2>8, <2>9 DEF Keeps, Shape
<1>5. ASSUME NEW sequence \in Ids, purge_jobs_events_from_sequence(sequence)
      PROVE  Shape' /\ Keeps /\ UNCHANGED <<counter, reader, put, handled>>
  <2> DEFINE new(e) == IF e >= sequence /\ events[e].stage = "seen"
                       THEN [events[e] EXCEPT !.stage = "purged"] ELSE events[e]
  <2>1. /\ events' = [e \in Ids |-> new(e)]
        /\ jobs' = jobs /\ handled' = handled
        /\ UNCHANGED <<counter, reader, put>>
    BY <1>5 DEF purge_jobs_events_from_sequence
  <2>2. \A e \in Ids : events[e] \in Event
    BY DEF Shape, Ids
  <2>3. \A e \in Ids : /\ new(e) \in Event /\ new(e).job = events[e].job
                       /\ new(e).overtaken = events[e].overtaken
                       /\ \/ new(e).stage = events[e].stage
                          \/ events[e].stage = "seen" /\ new(e).stage = "purged"
    BY <2>2 DEF Event
  <2> HIDE DEF new
  <2>4. events' \in Seq(Event) /\ Ids' = Ids /\ Len(events') = Len(events)
    BY <2>1, <2>3 DEF Shape, Ids
  <2>5. \A f \in Ids : events'[f] = new(f)
    BY <2>1
  <2>6. \A f \in Ids : Overtaken(f) => Overtaken(f)'
    BY <2>3, <2>4, <2>5 DEF Overtaken
  <2>7. \A f \in Ids : Accounted(f) => Accounted(f)'
    BY <2>1, <2>3, <2>4, <2>5, <2>6 DEF Accounted
  <2>8. Len(events) \in Nat
    BY DEF Shape
  <2> QED
    BY <2>1, <2>4, <2>7, <2>8 DEF Keeps, Shape
<1> QED
  BY <1>1, <1>2, <1>3, <1>4, <1>5 DEF Writes

(* A page holds every visible event below its last one.                     *)
LEMMA PageIsPrefix ==
  ASSUME Shape, NEW sequence \in Nat, NEW last \in Page(sequence), NEW e \in Ids,
         sequence <= e, e < last, e \notin Page(sequence)
  PROVE  events[e].stage # "seen" \/ events[e].job \notin jobs
<1> DEFINE Before(k) == {f \in Visible(sequence) : f < k}
<1>1. /\ Ids = 1..Len(events) /\ Len(events) \in Nat
      /\ last \in Ids /\ last \in Nat /\ e \in Nat
  BY DEF Shape, Ids, Page, Visible
<1>2. IsFiniteSet(Ids) /\ IsFiniteSet(Before(last))
  <2>1. IsFiniteSet(Ids)
    BY <1>1, FS_Interval
  <2>2. Before(last) \subseteq Ids
    BY DEF Visible
  <2> QED
    BY <2>1, <2>2, FS_Subset
<1>3. Before(e) \subseteq Before(last)
  BY <1>1 DEF Visible
<1>4. /\ Cardinality(Before(e)) <= Cardinality(Before(last))
      /\ Cardinality(Before(e)) \in Nat /\ Cardinality(Before(last)) \in Nat
  BY <1>2, <1>3, FS_Subset, FS_CardinalityType
<1>5. Cardinality(Before(last)) < Limit
  BY DEF Page
<1>6. Cardinality(Before(e)) < Limit
  BY <1>4, <1>5, LimitAssumption
<1>7. e \notin Visible(sequence)
  BY <1>6 DEF Page
<1> QED
  BY <1>7 DEF Visible

(* What a consumer or the server does for it keeps the shape of the         *)
(* variables, and neither adds nor changes an event or a job.               *)
LEMMA ReadsKeep ==
  ASSUME Shape, NEW c \in Consumers, Read(c) \/ Put(c) \/ Restart(c)
  PROVE  Shape' /\ events' = events /\ jobs' = jobs /\ handled \subseteq handled'
<1>0. /\ Idle \in Position /\ NoPut \in Update /\ reader[c] \in Position
      /\ put \in [Consumers -> Update] /\ reader \in [Consumers -> Position]
  BY DEF Idle, NoPut, Position, Update, Shape
<1>1. CASE GetSequence(c)
  <2>1. Token(c) \in Position /\ [Idle EXCEPT !.at = "creating"] \in Position
    BY DEF Token, Idle, Position, Shape
  <2> QED
    BY <1>0, <1>1, <2>1 DEF GetSequence, Shape
<1>2. CASE CreateSequence(c)
  BY <1>0, <1>2 DEF CreateSequence, Shape
<1>3. CASE GetEvents(c)
  <2>1. Page(reader[c].sequence) \subseteq Nat
    BY DEF Page, Visible, Ids, Shape
  <2>2. [reader[c] EXCEPT !.at = "handling", !.page = Page(reader[c].sequence)] \in Position
    BY <1>0, <2>1 DEF Position
  <2> QED
    BY <1>0, <1>3, <2>2 DEF GetEvents, Shape
<1>4. CASE Handle(c)
  <2> DEFINE new(last) == [stage |-> "asked", etag |-> reader[c].etag,
                           sequence |-> last + 1, overlapped |-> FALSE]
  <2>1. PICK last \in reader[c].page : put' = [put EXCEPT ![c] = new(last)]
    BY <1>4 DEF Handle
  <2>2. new(last) \in Update /\ [Idle EXCEPT !.at = "waiting"] \in Position
    BY <1>0 DEF Update, Position, Idle
  <2>3. reader' = [reader EXCEPT ![c] = [Idle EXCEPT !.at = "waiting"]]
    BY <1>4 DEF Handle
  <2>4. events' = events /\ jobs' = jobs /\ counter' = counter /\ handled \subseteq handled'
    BY <1>4 DEF Handle
  <2> HIDE DEF new
  <2> QED
    BY <1>0, <2>1, <2>2, <2>3, <2>4 DEF Shape
<1>5. CASE PutSelect(c)
  <2>1. Answered(c) \in [Consumers -> Position]
    BY <1>0 DEF Answered
  <2>2. [put[c] EXCEPT !.stage = "checked", !.etag = 0] \in Update
    BY <1>0 DEF Update
  <2>3. put' \in [Consumers -> Update]
    BY <1>0, <1>5, <2>2 DEF PutSelect
  <2> QED
    BY <1>0, <1>5, <2>1, <2>3 DEF PutSelect, Shape
<1>6. CASE PutUpdate(c)
  <2>1. Answered(c) \in [Consumers -> Position]
    BY <1>0 DEF Answered
  <2>2. \A d \in Consumers : /\ put[d] \in Update
                             /\ [put[d] EXCEPT !.overlapped = TRUE] \in Update
    BY <1>0 DEF Update
  <2>3. put' \in [Consumers -> Update]
    BY <1>0, <1>6, <2>2 DEF PutUpdate
  <2>4. counter' \in [sequence : Nat, etag : Nat]
    BY <1>6, <2>2 DEF PutUpdate, Shape, Update
  <2> QED
    BY <1>6, <2>1, <2>3, <2>4 DEF PutUpdate, Shape
<1>7. CASE Restart(c)
  BY <1>0, <1>7 DEF Restart, Shape
<1> QED
  BY <1>1, <1>2, <1>3, <1>4, <1>5, <1>6, <1>7 DEF Read, Put

(* Accounts are kept by the parties too: they only add to what is handled.  *)
LEMMA AccountsKeep ==
  ASSUME events' = events, jobs' = jobs, handled \subseteq handled'
  PROVE  /\ Ids' = Ids /\ Len(events') = Len(events)
         /\ \A e \in Ids : Accounted(e) => Accounted(e)'
         /\ \A n : Below(n) => (\A e \in Ids : e < n => Accounted(e)')
<1>1. Ids' = Ids /\ Len(events') = Len(events)
  BY DEF Ids
<1>2. \A e \in Ids : Accounted(e) => Accounted(e)'
  BY <1>1 DEF Accounted, Overtaken
<1> QED
  BY <1>1, <1>2 DEF Below

-----------------------------------------------------------------------------
LEMMA FeedInit == Init => FeedInv /\ Fresh
<1> SUFFICES ASSUME Init PROVE FeedInv /\ Fresh
  OBVIOUS
<1>1. /\ events = <<>> /\ counter = [sequence |-> 0, etag |-> 0]
      /\ reader = [c \in Consumers |-> Idle] /\ put = [c \in Consumers |-> NoPut]
  BY DEF Init
<1>2. Shape
  BY <1>1 DEF Shape, Idle, NoPut, Position, Update
<1>3. Ids = {}
  BY <1>1 DEF Ids
<1>4. InRange
  BY <1>1 DEF InRange, Idle, NoPut
<1>5. AllAccounted
  BY <1>3 DEF AllAccounted, Below, PageAccounted
<1>6. Fresh
  BY <1>1 DEF Fresh, Idle, NoPut
<1> QED
  BY <1>2, <1>4, <1>5, <1>6 DEF FeedInv

(* When only events, jobs and what is handled change, and no account is     *)
(* taken back, the positions stay accounted: a new id is past all of them.  *)
LEMMA PositionsStay ==
  ASSUME FeedInv, Shape', Keeps, UNCHANGED <<counter, reader, put>>
  PROVE  FeedInv'
<1>1. /\ Len(events) \in Nat /\ Len(events') \in Nat /\ Ids = 1..Len(events)
      /\ Len(events) <= Len(events')
  BY DEF FeedInv, Shape, Keeps, Ids
<1>2. /\ counter.sequence \in Nat
      /\ \A c \in Consumers : /\ reader[c].sequence \in Nat /\ put[c].sequence \in Nat
                              /\ reader[c].page \subseteq Nat
  BY DEF FeedInv, Shape, Position, Update
<1>3. InRange'
  BY <1>1, <1>2 DEF FeedInv, InRange, Keeps
<1>4. \A n \in Nat : n <= Len(events) + 1 /\ Below(n) => Below(n)'
  BY <1>1 DEF Below, Keeps
<1>5. \A c \in Consumers : PageAccounted(c)'
  BY <1>1, <1>2 DEF FeedInv, AllAccounted, PageAccounted, InRange, Keeps
<1>6. AllAccounted'
  BY <1>2, <1>4, <1>5 DEF FeedInv, AllAccounted, InRange
<1> QED
  BY <1>3, <1>6 DEF FeedInv

(* The steps of a consumer and of its PUT keep every position accounted.    *)
LEMMA PartiesKeep ==
  ASSUME FeedInv, NEW c \in Consumers, Read(c) \/ Put(c) \/ Restart(c)
  PROVE  FeedInv'
<1>1. /\ Shape /\ Shape' /\ InRange /\ AllAccounted
      /\ events' = events /\ jobs' = jobs /\ handled \subseteq handled'
  BY ReadsKeep DEF FeedInv
<1>2. /\ Ids' = Ids /\ Len(events') = Len(events)
      /\ \A e \in Ids : Accounted(e) => Accounted(e)'
  BY <1>1, AccountsKeep
<1>3. /\ Len(events) \in Nat /\ Ids = 1..Len(events)
      /\ counter \in [sequence : Nat, etag : Nat]
      /\ reader \in [Consumers -> Position] /\ put \in [Consumers -> Update]
  BY <1>1 DEF Shape, Ids
<1>4. \A d \in Consumers :
        /\ reader[d].sequence \in Nat /\ put[d].sequence \in Nat /\ reader[d].page \subseteq Nat
  BY <1>3 DEF Position, Update
<1> DEFINE Good(n) == n <= Len(events) + 1 /\ \A e \in Ids : e < n => Accounted(e)'
           GoodPage(page) ==
             /\ page \subseteq Ids
             /\ \A last \in page, e \in Ids : e < last => e \in page \/ Accounted(e)'
<1>5. /\ Good(counter.sequence)
      /\ \A d \in Consumers :
           Good(reader[d].sequence) /\ Good(put[d].sequence) /\ GoodPage(reader[d].page)
  BY <1>1, <1>2 DEF InRange, AllAccounted, Below, PageAccounted
<1>6. Good(0) /\ GoodPage({})
  BY <1>3
<1>7. SUFFICES /\ Good(counter'.sequence)
               /\ \A d \in Consumers : /\ Good(reader'[d].sequence) /\ Good(put'[d].sequence)
                                       /\ GoodPage(reader'[d].page)
  BY <1>1, <1>2, <1>7 DEF FeedInv, InRange, AllAccounted, Below, PageAccounted
<1> HIDE DEF Good, GoodPage
<1>8. CASE GetSequence(c)
  BY <1>3, <1>5, <1>6, <1>8 DEF GetSequence, Token, Idle
<1>9. CASE CreateSequence(c)
  BY <1>3, <1>5, <1>6, <1>9 DEF CreateSequence, Idle
<1>10. CASE GetEvents(c)
  <2> DEFINE sequence == reader[c].sequence
             page == Page(sequence)
  <2>1. GoodPage(page)
    <3> SUFFICES ASSUME NEW last \in page, NEW e \in Ids, e < last, e \notin page
                 PROVE  Accounted(e)'
      BY DEF GoodPage, Page, Visible
    <3>1. CASE e < sequence
      BY <1>5, <3>1 DEF Good
    <3>2. CASE sequence <= e
      <4>1. events[e].stage # "seen" \/ events[e].job \notin jobs
        BY <1>1, <1>4, <3>2, PageIsPrefix
      <4>2. last \in Ids /\ events[last].stage = "seen"
        BY DEF Page, Visible
      <4>3. Overtaken(e)
        BY <1>3, <4>2 DEF Overtaken
      <4>4. events[e].stage \in {"open", "seen", "lost", "purged"}
        <5>1. events[e] \in Event
          BY <1>1 DEF Shape, Ids
        <5> QED
          BY <5>1 DEF Event
      <4>5. Accounted(e)
        BY <4>1, <4>3, <4>4 DEF Accounted
      <4> QED
        BY <1>2, <4>5
    <3> QED
      BY <1>3, <1>4, <3>1, <3>2
  <2> HIDE DEF page
  <2>2. /\ counter' = counter /\ put' = put
        /\ reader' = [reader EXCEPT ![c] =
             IF page = {} THEN Idle ELSE [reader[c] EXCEPT !.at = "handling", !.page = page]]
    BY <1>10 DEF GetEvents, page
  <2>3. reader[c] \in Position
    BY <1>3
  <2>4. /\ [reader[c] EXCEPT !.at = "handling", !.page = page].page = page
        /\ [reader[c] EXCEPT !.at = "handling", !.page = page].sequence = sequence
    BY <2>3 DEF Position
  <2> QED
    BY <1>3, <1>5, <1>6, <2>1, <2>2, <2>4 DEF Idle
<1>11. CASE Handle(c)
  <2>1. PICK last \in reader[c].page :
          /\ \A e \in reader[c].page : e <= last
          /\ put' = [put EXCEPT ![c] = [stage |-> "asked", etag |-> reader[c].etag,
                                        sequence |-> last + 1, overlapped |-> FALSE]]
    BY <1>11 DEF Handle
  <2>2. last \in Ids /\ last \in Nat
    BY <1>3, <1>5 DEF GoodPage
  <2>3. \A e \in reader[c].page : Accounted(e)'
    BY <1>11 DEF Handle, Accounted
  <2>4. \A e \in Ids : e < last + 1 => e = last \/ e < last
    BY <1>3, <2>2
  <2>5. Good(last + 1)
    BY <1>3, <1>5, <2>2, <2>3, <2>4 DEF Good, GoodPage
  <2>6. counter' = counter /\ reader' = [reader EXCEPT ![c] = [Idle EXCEPT !.at = "waiting"]]
    BY <1>11 DEF Handle
  <2> QED
    BY <1>3, <1>5, <1>6, <2>1, <2>5, <2>6 DEF Idle
<1>12. \A d \in Consumers : Answered(c)[d] = reader[d] \/ Answered(c)[d] = Idle
  BY <1>3 DEF Answered
<1>130. Idle.sequence = 0 /\ Idle.page = {} /\ NoPut.sequence = 0
  BY DEF Idle, NoPut
<1>13. CASE PutSelect(c)
  <2>1. counter' = counter /\ (reader' = reader \/ reader' = Answered(c))
    BY <1>13 DEF PutSelect
  <2>2. [put[c] EXCEPT !.stage = "checked", !.etag = 0].sequence = put[c].sequence
    BY <1>3 DEF Update
  <2>3. \A d \in Consumers : put'[d].sequence = put[d].sequence \/ put'[d].sequence = 0
    BY <1>3, <1>13, <1>130, <2>2 DEF PutSelect
  <2>4. \A d \in Consumers : reader'[d] = reader[d] \/ reader'[d] = Idle
    BY <1>12, <2>1
  <2> QED
    BY <1>5, <1>6, <1>130, <2>1, <2>3, <2>4
<1>14. CASE PutUpdate(c)
  <2>1. counter'.sequence = put[c].sequence /\ reader' = Answered(c)
    BY <1>14 DEF PutUpdate
  <2>2. \A d \in Consumers : put[d].sequence = [put[d] EXCEPT !.overlapped = TRUE].sequence
    BY <1>3 DEF Update
  <2>3. \A d \in Consumers : put'[d].sequence = put[d].sequence \/ put'[d].sequence = 0
    BY <1>3, <1>14, <1>130, <2>2 DEF PutUpdate
  <2> QED
    BY <1>5, <1>6, <1>12, <1>130, <2>1, <2>3
<1>15. CASE Restart(c)
  BY <1>3, <1>5, <1>6, <1>15 DEF Restart, Idle
<1> QED
  BY <1>8, <1>9, <1>10, <1>11, <1>13, <1>14, <1>15 DEF Read, Put

LEMMA FeedNext == FeedInv /\ [Next]_vars => FeedInv'
<1> SUFFICES ASSUME FeedInv, [Next]_vars PROVE FeedInv'
  OBVIOUS
<1>1. CASE Writes
  BY <1>1, WritesKeep, PositionsStay DEF FeedInv
<1>2. ASSUME NEW c \in Consumers, Read(c) \/ Put(c) \/ Restart(c) PROVE FeedInv'
  BY <1>2, PartiesKeep
<1>3. CASE UNCHANGED vars
  BY <1>3 DEF vars, FeedInv, Shape, InRange, AllAccounted, Below, PageAccounted,
              Accounted, Overtaken, Ids
<1> QED
  BY <1>1, <1>2, <1>3 DEF Next, Writes

(* No event is missed but those overtaken: whatever the consumers, the size *)
(* of their pages, the restarts and the purges                              *)
(* (get_jobs_events_from_sequence, put_current_sequence).                   *)
THEOREM NothingIsSkipped == Spec => []NoEventSkipped
<1>1. FeedInv => NoEventSkipped
  BY DEF FeedInv, AllAccounted, Below, NoEventSkipped
<1> QED
  BY <1>1, FeedInit, FeedNext, PTL DEF Spec

-----------------------------------------------------------------------------
(* Positions that are fresh stay so, and only an overlapped PUT that ends   *)
(* moves the counter back.                                                  *)
LEMMA FreshNext ==
  ASSUME Shape, Fresh, [Next]_vars
  PROVE  /\ Fresh'
         /\ counter'.sequence < counter.sequence =>
              \E c \in Consumers : put[c].overlapped /\ put'[c] = NoPut
<1> DEFINE Back == \E c \in Consumers : put[c].overlapped /\ put'[c] = NoPut
           Ok == Fresh' /\ (counter'.sequence < counter.sequence => Back)
<1> SUFFICES Ok
  OBVIOUS
<1>1. /\ counter \in [sequence : Nat, etag : Nat]
      /\ reader \in [Consumers -> Position] /\ put \in [Consumers -> Update]
  BY DEF Shape
<1>2. \A d \in Consumers :
        /\ reader[d].sequence \in Nat /\ reader[d].etag \in Nat /\ reader[d].page \subseteq Nat
        /\ put[d].sequence \in Nat /\ put[d].etag \in Nat
  BY <1>1 DEF Position, Update
<1>3. CASE UNCHANGED <<counter, reader, put>>
  BY <1>1, <1>3 DEF Fresh
<1>4. ASSUME NEW c \in Consumers, GetSequence(c) PROVE Ok
  BY <1>1, <1>2, <1>4 DEF GetSequence, Fresh, Token, Idle
<1>5. ASSUME NEW c \in Consumers, CreateSequence(c) PROVE Ok
  <2>1. put' = put /\ reader' = [reader EXCEPT ![c] = Idle]
    BY <1>5 DEF CreateSequence
  <2>2. CASE counter' = counter
    BY <1>1, <1>2, <2>1, <2>2 DEF Fresh, Idle
  <2>3. CASE counter.etag = 0 /\ counter' = [sequence |-> 0, etag |-> 1]
    <3>1. counter.sequence = 0
      BY <2>3 DEF Fresh
    <3> QED
      BY <1>1, <1>2, <2>1, <2>3, <3>1 DEF Fresh, Idle
  <2> QED
    BY <1>5, <2>2, <2>3 DEF CreateSequence
<1>6. ASSUME NEW c \in Consumers, GetEvents(c) PROVE Ok
  <2> DEFINE page == Page(reader[c].sequence)
             new == [reader[c] EXCEPT !.at = "handling", !.page = page]
  <2>1. /\ counter' = counter /\ put' = put /\ reader[c].at = "read"
        /\ reader' = [reader EXCEPT ![c] = IF page = {} THEN Idle ELSE new]
    BY <1>6 DEF GetEvents
  <2>2. \A e \in page : reader[c].sequence <= e
    BY <1>2 DEF Page, Visible
  <2> HIDE DEF page
  <2>3. /\ new.page = page /\ new.sequence = reader[c].sequence
        /\ new.etag = reader[c].etag
    BY <1>1 DEF Position
  <2> HIDE DEF new
  <2> QED
    BY <1>1, <1>2, <2>1, <2>2, <2>3 DEF Fresh, Idle
<1>7. ASSUME NEW c \in Consumers, Handle(c) PROVE Ok
  <2> DEFINE new(last) == [stage |-> "asked", etag |-> reader[c].etag,
                           sequence |-> last + 1, overlapped |-> FALSE]
  <2>1. PICK last \in reader[c].page : put' = [put EXCEPT ![c] = new(last)]
    BY <1>7 DEF Handle
  <2>2. /\ counter' = counter /\ reader[c].at = "handling"
        /\ reader' = [reader EXCEPT ![c] = [Idle EXCEPT !.at = "waiting"]]
    BY <1>7 DEF Handle
  <2>3. last \in Nat /\ reader[c].sequence <= last
    BY <1>2 DEF Fresh
  <2>4. reader[c].etag = counter.etag => counter.sequence <= last + 1
    BY <1>1, <1>2, <2>2, <2>3 DEF Fresh
  <2>5. put'[c] = new(last) /\ \A d \in Consumers \ {c} : put'[d] = put[d]
    BY <1>1, <2>1
  <2>6. reader[c].etag <= counter.etag
    BY DEF Fresh
  <2> QED
    BY <1>1, <1>2, <2>2, <2>4, <2>5, <2>6 DEF Fresh, Idle
<1>8. ASSUME NEW c \in Consumers, NEW d \in Consumers
      PROVE  Answered(c)[d] = reader[d] \/ Answered(c)[d] = Idle
  BY <1>1 DEF Answered
<1>9. ASSUME NEW c \in Consumers, PutSelect(c) PROVE Ok
  <2> DEFINE new == [put[c] EXCEPT !.stage = "checked", !.etag = 0]
  <2>1. /\ counter' = counter /\ put[c].stage = "asked"
        /\ \A d \in Consumers : reader'[d] = reader[d] \/ reader'[d] = Idle
    BY <1>8, <1>9 DEF PutSelect
  <2>2. /\ new.sequence = put[c].sequence /\ new.stage = "checked" /\ new.etag = 0
    BY <1>1 DEF Update
  <2> HIDE DEF new
  <2>3. CASE put' = [put EXCEPT ![c] = NoPut]
    BY <1>1, <1>2, <2>1, <2>3 DEF Fresh, Idle, NoPut
  <2>4. CASE put[c].etag = counter.etag /\ put' = [put EXCEPT ![c] = new]
    BY <1>1, <1>2, <2>1, <2>2, <2>4 DEF Fresh, Idle
  <2> QED
    BY <1>9, <2>3, <2>4 DEF PutSelect, new
<1>10. ASSUME NEW c \in Consumers, PutUpdate(c) PROVE Ok
  <2>1. /\ counter' = [sequence |-> put[c].sequence, etag |-> counter.etag + 1]
        /\ put[c].stage = "checked" /\ put'[c] = NoPut
        /\ \A d \in Consumers : reader'[d] = reader[d] \/ reader'[d] = Idle
    BY <1>8, <1>10 DEF PutUpdate
  <2>2. \A d \in Consumers :
          \/ put'[d] = NoPut
          \/ put[d].stage # "checked" /\ put'[d] = put[d]
          \/ put'[d] = [put[d] EXCEPT !.overlapped = TRUE]
    BY <1>10 DEF PutUpdate
  <2>3. \A d \in Consumers : /\ [put[d] EXCEPT !.overlapped = TRUE].overlapped
                             /\ [put[d] EXCEPT !.overlapped = TRUE].etag = put[d].etag
    BY <1>1 DEF Update
  <2>4. counter.sequence <= put[c].sequence \/ put[c].overlapped
    BY <1>1, <2>1 DEF Fresh, Update
  <2>5. counter'.sequence < counter.sequence => Back
    BY <1>1, <1>2, <2>1, <2>4
  <2>6. /\ counter'.etag = counter.etag + 1 /\ counter.etag \in Nat
        /\ NoPut.etag = 0 /\ NoPut.stage = "none" /\ Idle.etag = 0 /\ Idle.page = {}
        /\ Idle.at = "idle"
    BY <1>1, <2>1 DEF NoPut, Idle
  <2>7. \A d \in Consumers :
          /\ reader'[d].etag < counter'.etag
          /\ \A e \in reader'[d].page : reader'[d].sequence <= e
    BY <1>2, <2>1, <2>6 DEF Fresh
  <2>8. ASSUME NEW d \in Consumers
        PROVE  /\ put'[d].etag \in Nat /\ put'[d].etag < counter'.etag
               /\ put'[d].stage = "checked" => put'[d].overlapped
    <3>1. put[d].etag \in Nat /\ put[d].etag <= counter.etag
      BY <1>2 DEF Fresh
    <3>2. CASE put'[d] = NoPut
      BY <2>6, <3>2
    <3>3. CASE put[d].stage # "checked" /\ put'[d] = put[d]
      BY <2>6, <3>1, <3>3
    <3>4. CASE put'[d] = [put[d] EXCEPT !.overlapped = TRUE]
      BY <2>3, <2>6, <3>1, <3>4
    <3> QED
      BY <2>2, <3>2, <3>3, <3>4
  <2>9. Fresh'
    <3>1. \A d \in Consumers : reader'[d].etag \in Nat
      BY <1>2, <2>1, <2>6
    <3> QED
      BY <2>6, <2>7, <2>8, <3>1 DEF Fresh
  <2> QED
    BY <2>5, <2>9
<1>11. ASSUME NEW c \in Consumers, Restart(c) PROVE Ok
  BY <1>1, <1>2, <1>11 DEF Restart, Fresh, Idle
<1>12. CASE Writes
  BY <1>3, <1>12, WritesKeep
<1>13. CASE UNCHANGED vars
  BY <1>3, <1>13 DEF vars
<1> QED
  BY <1>4, <1>5, <1>6, <1>7, <1>9, <1>10, <1>11, <1>12, <1>13 DEF Next, Writes, Read, Put

(* The counter goes back only when a PUT wrote after another one did between *)
(* its SELECT by etag and its UPDATE by primary key (put_current_sequence). *)
THEOREM CounterGoesForward == Spec => MovesBackOnlyOnOverlap
<1>1. FeedInv /\ Fresh /\ [Next]_vars => (FeedInv /\ Fresh)'
  BY FeedNext, FreshNext DEF FeedInv
<1>2. FeedInv /\ Fresh /\ [Next]_vars =>
        [counter'.sequence < counter.sequence =>
           \E c \in Consumers : put[c].overlapped /\ put'[c] = NoPut]_vars
  BY FreshNext DEF FeedInv
<1> QED
  BY <1>1, <1>2, FeedInit, PTL DEF Spec, MovesBackOnlyOnOverlap

-----------------------------------------------------------------------------
(* What the type invariant says beyond the shape.                           *)
Others ==
  /\ jobs \subseteq Jobs /\ handled \subseteq Ids /\ faults \in Nat
  /\ \A c \in Consumers : reader[c].at = "read" => reader[c].etag # 0

LEMMA OthersNext ==
  ASSUME FeedInv, Others, [Next]_vars
  PROVE  Others'
<1>1. /\ Shape /\ counter \in [sequence : Nat, etag : Nat]
      /\ reader \in [Consumers -> Position]
  BY DEF FeedInv, Shape
<1>2. CASE Writes
  <2>1. Ids \subseteq Ids' /\ reader' = reader /\ handled' = handled
    BY <1>1, <1>2, WritesKeep DEF Keeps
  <2>2. /\ jobs' = jobs \/ \E j \in Jobs : jobs' = jobs \ {j}
        /\ faults' = faults \/ faults' = faults + 1
    BY <1>2, Zenon DEF Writes, CreateEvent, PurgeJob, CommitEvent, LoseEvent,
                       purge_jobs_events_from_sequence
  <2> QED
    BY <2>1, <2>2 DEF Others
<1>3. ASSUME NEW c \in Consumers, Read(c) \/ Put(c) \/ Restart(c)
      PROVE  Others'
  <2>1. events' = events /\ jobs' = jobs /\ Ids' = Ids
    BY <1>1, <1>3, ReadsKeep DEF Ids
  <2>2. faults' \in Nat /\ handled' \subseteq Ids
    BY <1>3 DEF Read, Put, Restart, GetSequence, CreateSequence, GetEvents, Handle,
                PutSelect, PutUpdate, Others, FeedInv, InRange
  <2>3. CASE GetSequence(c)
    BY <1>1, <2>1, <2>2, <2>3 DEF GetSequence, Token, Idle, Others
  <2>4. CASE \A d \in Consumers : reader'[d] = reader[d] \/ reader'[d].at # "read"
    BY <2>1, <2>2, <2>4 DEF Others
  <2>5. CASE CreateSequence(c) \/ GetEvents(c) \/ Handle(c) \/ Restart(c)
    <3>1. PICK r : reader' = [reader EXCEPT ![c] = r] /\ r.at # "read"
      <4>1. [reader[c] EXCEPT !.at = "handling", !.page = Page(reader[c].sequence)].at
              = "handling"
        BY <1>1 DEF Position
      <4>2. /\ Idle.at # "read" /\ [Idle EXCEPT !.at = "waiting"].at # "read"
        BY DEF Idle
      <4>3. CASE GetEvents(c)
        BY <4>1, <4>2, <4>3 DEF GetEvents
      <4> QED
        BY <2>5, <4>2, <4>3 DEF CreateSequence, Handle, Restart
    <3> QED
      BY <1>1, <2>4, <3>1
  <2>6. CASE PutSelect(c) \/ PutUpdate(c)
    <3>1. reader' = reader \/ reader' = Answered(c)
      BY <2>6 DEF PutSelect, PutUpdate
    <3>2. \A d \in Consumers : Answered(c)[d] = reader[d] \/ Answered(c)[d] = Idle
      BY <1>1 DEF Answered
    <3>3. Idle.at # "read"
      BY DEF Idle
    <3> QED
      BY <2>4, <3>1, <3>2, <3>3
  <2> QED
    BY <1>3, <2>3, <2>5, <2>6 DEF Read, Put
<1>4. CASE UNCHANGED vars
  BY <1>4 DEF vars, Others, Ids
<1> QED
  BY <1>2, <1>3, <1>4 DEF Next, Writes

(* Events, positions, PUTs and the counter are what the code makes them, and *)
(* no one holds an etag that the counter has not had.                       *)
THEOREM TypeCorrect == Spec => []TypeOK
<1>1. Init => Others
  BY DEF Init, Others, Idle
<1>2. ASSUME FeedInv, Fresh, Others PROVE TypeOK
  <2>1. /\ events \in Seq([job : Jobs, stage : {"open", "seen", "lost", "purged"},
                           overtaken : BOOLEAN])
        /\ counter \in [sequence : Nat, etag : Nat]
        /\ put \in [Consumers -> [stage : {"none", "asked", "checked"}, etag : Nat,
                                  sequence : Nat, overlapped : BOOLEAN]]
    BY <1>2 DEF FeedInv, Shape, Event, Update
  <2>2. reader \in [Consumers ->
          [at : {"idle", "creating", "read", "handling", "waiting"},
           etag : 0..counter.etag, sequence : Nat, page : SUBSET Ids]]
    <3>1. ASSUME NEW c \in Consumers
          PROVE  reader[c] \in
            [at : {"idle", "creating", "read", "handling", "waiting"},
             etag : 0..counter.etag, sequence : Nat, page : SUBSET Ids]
      <4>1. reader[c] \in Position
        BY <1>2 DEF FeedInv, Shape
      <4>2. reader[c].etag <= counter.etag /\ counter.etag \in Nat
        BY <1>2, <2>1 DEF Fresh
      <4>3. reader[c].page \subseteq Ids
        BY <1>2, <4>1 DEF FeedInv, InRange, Position
      <4> QED
        BY <4>1, <4>2, <4>3 DEF Position
    <3> QED
      BY <1>2, <3>1 DEF FeedInv, Shape
  <2> QED
    BY <1>2, <2>1, <2>2 DEF TypeOK, Others
<1>3. FeedInv /\ Fresh /\ Others /\ [Next]_vars => (FeedInv /\ Fresh /\ Others)'
  BY FeedNext, FreshNext, OthersNext DEF FeedInv
<1> QED
  BY <1>1, <1>2, <1>3, FeedInit, PTL DEF Spec
=============================================================================
