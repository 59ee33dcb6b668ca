---------------------------- MODULE Access_proofs ----------------------------
(* Proofs of the safety properties of Access, for any persons, accounts,    *)
(* teams, products and topics, and any number of logins.                    *)
EXTENDS Access, FiniteSetTheorems, TLAPS

-----------------------------------------------------------------------------
(* Lists and reads, whatever the identity is.                               *)

(* The list of topics and the read of one ask the same question             *)
(* (get_user_topic_ids, has_access_to_topic).                               *)
LEMMA TopicsAgree ==
  ASSUME NEW user, NEW t \in get_user_topic_ids(user)
  PROVE  has_access_to_topic(user, t)
BY TopicsAssumption
DEF get_user_topic_ids, get_user_product_ids, has_access_to_topic

LEMMA TopicsReadable ==
  ASSUME NEW user, NEW t \in get_all_topics(user)
  PROVE  get_topic_by_id(user, t)
BY TopicsAgree DEF get_all_topics, get_topic_by_id, verify_access_to_topic

(* The components listed, by one list or by the list of a topic.            *)
LEMMA ComponentsReadable ==
  ASSUME NEW user, NEW c \in get_components(user) \cup get_topics_components(user)
  PROVE  get_component_by_id(user, c)
<1>1. /\ c \in DOMAIN Components
      /\ \/ is_epm(user)
         \/ Components[c].team = None
         \/ Components[c].team \in user.teams \cup get_components_access_teams_ids(user.teams)
  BY DEF get_components, get_topics_components, get_all_components
<1>2. verify_access_to_topic(user, Components[c].topic)
  BY TopicsAgree
  DEF get_components, get_topics_components, get_all_components, verify_access_to_topic
<1>3. CASE is_epm(user)
  BY <1>3 DEF is_epm, get_component_by_id, SeesAllTeams
<1>4. CASE Components[c].team = None
  BY <1>2, <1>4 DEF get_component_by_id, verify_access_to_component
<1>5. CASE Components[c].team \in user.teams \cup get_components_access_teams_ids(user.teams)
  BY <1>2, <1>5 DEF get_component_by_id, verify_access_to_component, is_in_team
<1> QED
  BY <1>1, <1>3, <1>4, <1>5

LEMMA ProductsReadable ==
  ASSUME NEW user, NEW p \in get_all_products(user)
  PROVE  get_product_by_id(user, p)
BY DEF get_all_products, get_user_product_ids, get_product_by_id

LEMMA JobsReadable ==
  ASSUME NEW user, NEW o \in get_all_jobs(user)
  PROVE  get_job_by_id(user, o)
BY DEF get_all_jobs, get_job_by_id

LEMMA FeedersReadable ==
  ASSUME NEW user, NEW o \in get_all_feeders(user)
  PROVE  get_feeder_by_id(user, o)
BY DEF get_all_feeders, get_feeder_by_id, is_in_team

LEMMA SeenIsReadable ==
  ASSUME NEW user, NEW thing \in Sees(user)
  PROVE  CanRead(user, thing)
<1>1. CASE \E t \in get_all_topics(user) : thing = <<"topic", t>>
  BY <1>1, TopicsReadable DEF CanRead
<1>2. CASE \E c \in get_components(user) \cup get_topics_components(user) :
             thing = <<"component", c>>
  <2>1. PICK c \in get_components(user) \cup get_topics_components(user) :
               thing = <<"component", c>>
    BY <1>2
  <2>2. get_component_by_id(user, c)
    BY ComponentsReadable
  <2> QED
    BY <2>1, <2>2 DEF CanRead
<1>3. CASE \E p \in get_all_products(user) : thing = <<"product", p>>
  BY <1>3, ProductsReadable DEF CanRead
<1>4. CASE \E o \in get_all_jobs(user) : thing = <<"job", o>>
  BY <1>4, JobsReadable DEF CanRead
<1>5. CASE \E o \in get_all_feeders(user) : thing = <<"feeder", o>>
  BY <1>5, FeedersReadable DEF CanRead
<1> QED
  BY <1>1, <1>2, <1>3, <1>4, <1>5 DEF Sees

(* Whatever the lists show, the handlers of one row let the same identity   *)
(* read (permissions.py and the handlers of api/v1).                        *)
THEOREM ListsAreReadable == Spec => []ListedIsReadable
<1>1. ListedIsReadable
  BY SeenIsReadable DEF ListedIsReadable
<1> QED
  BY <1>1, PTL

(* An identity with fewer teams and roles is shown no more.                 *)
LEMMA FewerSeeLess ==
  ASSUME NEW wide, NEW narrow,
         narrow.teams \subseteq wide.teams,
         narrow.super_admin => wide.super_admin,
         narrow.read_only => wide.read_only,
         narrow.epm => wide.epm
  PROVE  Sees(narrow) \subseteq Sees(wide)
<1>1. SeesAllTeams(narrow) => SeesAllTeams(wide)
  BY DEF SeesAllTeams
<1>2. get_user_product_ids(narrow) \subseteq get_user_product_ids(wide)
  BY DEF get_user_product_ids, is_teams_associated_to_product
<1>3. has_pre_release_access(narrow) => has_pre_release_access(wide)
  BY DEF has_pre_release_access
<1>4. get_user_topic_ids(narrow) \subseteq get_user_topic_ids(wide)
  BY <1>2, <1>3 DEF get_user_topic_ids
<1>5. get_all_topics(narrow) \subseteq get_all_topics(wide)
  BY <1>1, <1>4 DEF get_all_topics
<1>6. get_all_products(narrow) \subseteq get_all_products(wide)
  BY <1>1, <1>2 DEF get_all_products, get_user_product_ids
<1>7. get_components_access_teams_ids(narrow.teams)
        \subseteq get_components_access_teams_ids(wide.teams)
  BY DEF get_components_access_teams_ids
<1>8. ASSUME NEW few, NEW many, few \subseteq many
      PROVE  get_all_components(narrow, few) \subseteq get_all_components(wide, many)
  BY <1>7, <1>8 DEF get_all_components, is_epm
<1>9. get_components(narrow) \subseteq get_components(wide)
  BY <1>4, <1>8 DEF get_components
<1>10. \A t : verify_access_to_topic(narrow, t) => verify_access_to_topic(wide, t)
  BY <1>1, <1>3
  DEF verify_access_to_topic, has_access_to_topic, is_teams_associated_to_product
<1>11. get_topics_components(narrow) \subseteq get_topics_components(wide)
  <2> SUFFICES ASSUME NEW c \in get_topics_components(narrow)
               PROVE  c \in get_topics_components(wide)
    OBVIOUS
  <2>1. PICK t \in DOMAIN Topics :
          verify_access_to_topic(narrow, t) /\ c \in get_all_components(narrow, {t})
    BY DEF get_topics_components
  <2>2. verify_access_to_topic(wide, t) /\ c \in get_all_components(wide, {t})
    BY <1>8, <1>10, <2>1
  <2> QED
    BY <2>2 DEF get_topics_components
<1>12. get_all_jobs(narrow) \subseteq get_all_jobs(wide)
  BY <1>1 DEF get_all_jobs
<1>13. get_all_feeders(narrow) \subseteq get_all_feeders(wide)
  BY DEF get_all_feeders, is_epm
<1> QED
  BY <1>5, <1>6, <1>9, <1>11, <1>12, <1>13 DEF Sees

(* Narrowing a request to a team, with the roles that its team gives, shows *)
(* no more than the user sees (auth_mechanism.py, identity_from_user).      *)
THEOREM ScopesShowLess == Spec => []ScopeShowsNoMore
<1>1. ASSUME NEW teams, NEW scope
      PROVE  Sees(IdentityFromUser(teams, scope)) \subseteq Sees(IdentityFromUser(teams, None))
  <2> DEFINE kept == IF scope = None THEN teams ELSE teams \cap {scope}
  <2>1. kept \subseteq teams
    OBVIOUS
  <2>2. IdentityFromUser(teams, scope) =
          [teams |-> kept, super_admin |-> Admin \in kept, read_only |-> RedHat \in kept,
           epm |-> Epm \in kept]
    BY DEF IdentityFromUser
  <2>3. IdentityFromUser(teams, None) =
          [teams |-> teams, super_admin |-> Admin \in teams, read_only |-> RedHat \in teams,
           epm |-> Epm \in teams]
    BY DEF IdentityFromUser
  <2> QED
    BY <2>1, <2>2, <2>3, FewerSeeLess
<1>2. ScopeShowsNoMore
  BY <1>1 DEF ScopeShowsNoMore, Served
<1> QED
  BY <1>2, PTL

-----------------------------------------------------------------------------
(* The inductive invariant.                                                 *)

Account == [name : Persons, sso_username : Persons \cup {None},
            sso_sub : Subs \cup {None}, email : Emails, state : States, teams : SUBSET Teams]
Request == [at : Stages, person : Persons, email : Emails, sub : Subs \cup {None},
            user : Accounts \cup {None}, teams : SUBSET Teams, alone : BOOLEAN]

Shape ==
  /\ users \in [DOMAIN users -> Account] /\ DOMAIN users \subseteq Accounts
  /\ email \in [Persons -> Emails]
  /\ logins \in [Logins -> {Idle} \cup Request]
  /\ product_teams \subseteq Products \X Teams /\ deleted \subseteq Products
  /\ changes \in 0..MaxChanges /\ exempt \subseteq Accounts

(* The unique columns of the table users.                                   *)
Unique ==
  \A u, k \in DOMAIN users : u # k =>
    /\ users[u].name # users[k].name /\ users[u].email # users[k].email
    /\ users[u].sso_username = users[k].sso_username => users[u].sso_username = None
    /\ users[u].sso_sub = users[k].sso_sub => users[u].sso_sub = None

Alone(q) == logins[q] # Idle /\ logins[q].alone

AloneIsAlone ==
  \A q, l \in Logins : Alone(q) /\ l # q => logins[l] = Idle

(* What a login that nothing ran beside still knows of the table.           *)
HasEmail(q) == \E u \in OfPerson(Person(q)) : users[u].email = Email(q)

Knows(q) ==
  /\ logins[q].at = "update"  => logins[q].user \in OfPerson(Person(q))
  /\ logins[q].at = "create"  => OfPerson(Person(q)) = {}
  /\ logins[q].at = "team"    => logins[q].user \in DOMAIN users /\ HasEmail(q)
  /\ logins[q].at = "again"   => HasEmail(q)
  /\ logins[q].at = "refused" => HasRival(Person(q), Email(q), Sub(q))

AloneKnows == \A q \in Logins : Alone(q) => Knows(q)

JoinersHaveIds ==
  \A q \in Logins : logins[q].at = "team" => logins[q].user \in Accounts

AccessInv ==
  Shape /\ Unique /\ AloneIsAlone /\ AloneKnows /\ JoinersHaveIds /\ CreatedReadOnlyIsInTeam

-----------------------------------------------------------------------------
(* An id is left for every account: each name is used once, and each login   *)
(* holds one id at most.                                                     *)
LEMMA FreshAccount ==
  ASSUME Shape, Unique
  PROVE  /\ NewId \in Accounts \ DOMAIN users
         /\ \A q \in Logins : logins[q] # Idle => logins[q].user # NewId
<1> DEFINE Busy == {l \in Logins : logins[l] # Idle}
           Held == {logins[q].user : q \in Busy}
           holds == [q \in Busy |-> logins[q].user]
           names == [u \in DOMAIN users |-> users[u].name]
<1>1. IsFiniteSet(Busy) /\ Cardinality(Busy) <= Cardinality(Logins)
  BY FS_Subset, AccessAssumption
<1>2. holds \in Surjection(Busy, Held)
  BY DEF Surjection
<1>3. IsFiniteSet(Held) /\ Cardinality(Held) <= Cardinality(Busy)
  <2> HIDE DEF Busy, Held, holds
  <2> QED
    BY <1>1, <1>2, FS_Surjection
<1>4. names \in Injection(DOMAIN users, Persons)
  BY DEF Injection, IsInjective, Shape, Unique, Account
<1>5. IsFiniteSet(DOMAIN users) /\ Cardinality(DOMAIN users) <= Cardinality(Persons)
  <2> HIDE DEF names
  <2> QED
    BY <1>4, FS_Injection, AccessAssumption
<1>6. \E u \in Accounts : u \notin Held \cup DOMAIN users
  <2> HIDE DEF Busy, Held, holds, names
  <2> SUFFICES ASSUME Accounts \subseteq Held \cup DOMAIN users
               PROVE  FALSE
    OBVIOUS
  <2>1. /\ IsFiniteSet(Held \cup DOMAIN users)
        /\ Cardinality(Held \cup DOMAIN users) =
             Cardinality(Held) + Cardinality(DOMAIN users)
               - Cardinality(Held \cap DOMAIN users)
    BY <1>3, <1>5, FS_Union
  <2>2. IsFiniteSet(Held \cap DOMAIN users)
    BY <1>3, FS_Intersection
  <2>3. Cardinality(Accounts) <= Cardinality(Held \cup DOMAIN users)
    BY <2>1, FS_Subset
  <2>4. /\ Cardinality(Held) \in Nat /\ Cardinality(DOMAIN users) \in Nat
        /\ Cardinality(Held \cap DOMAIN users) \in Nat
        /\ Cardinality(Busy) \in Nat
        /\ Cardinality(Persons) \in Nat /\ Cardinality(Logins) \in Nat
    BY <1>1, <1>3, <1>5, <2>2, FS_CardinalityType, AccessAssumption
  <2>5. Cardinality(Accounts) \in Nat
    BY <2>1, FS_Subset, FS_CardinalityType
  <2> QED
    BY <1>1, <1>3, <1>5, <2>1, <2>3, <2>4, <2>5, AccessAssumption
<1>7. /\ NewId \in Accounts \ Held
      /\ NewId \notin DOMAIN users
  BY <1>6 DEF NewId
<1> QED
  BY <1>7

(* While a login is alone no other one is at a stage.                        *)
LEMMA OnlyTheAlone ==
  ASSUME AloneIsAlone, NEW q \in Logins, logins[q] # Idle, NEW l \in Logins, Alone(l)
  PROVE  l = q
BY DEF AloneIsAlone

(* A step changes no login but q, which stays alone if it was and goes on.   *)
OnlyChanges(q) ==
  /\ logins' \in [Logins -> {Idle} \cup Request]
  /\ \A l \in Logins \ {q} : logins'[l] = logins[l]
  /\ Alone(q)' => Alone(q)
  /\ logins'[q].at = "team" => logins'[q].user \in Accounts

(* It goes to a stage, holding the id u.                                     *)
Moves(q, at, u) ==
  /\ OnlyChanges(q)
  /\ logins'[q].at = at /\ logins'[q].user = u
  /\ Person(q)' = Person(q) /\ Email(q)' = Email(q) /\ Sub(q)' = Sub(q)

LEMMA GotoMoves ==
  ASSUME AccessInv, NEW q \in Logins, logins[q] # Idle, NEW at \in Stages \ {"team"},
         Goto(q, at)
  PROVE  Moves(q, at, logins[q].user)
<1> DEFINE r == [logins[q] EXCEPT !.at = at]
<1>1. logins[q] \in Request /\ logins' = [logins EXCEPT ![q] = r]
  BY DEF AccessInv, Shape, Goto
<1>2. /\ r \in Request /\ r.at = at /\ r.alone = logins[q].alone
      /\ r.user = logins[q].user /\ r.person = Person(q) /\ r.email = Email(q)
      /\ r.sub = Sub(q)
  BY <1>1 DEF Request, Person, Email, Sub
<1> HIDE DEF r
<1>3. logins'[q] = r /\ logins' \in [Logins -> {Idle} \cup Request]
  BY <1>1, <1>2 DEF AccessInv, Shape
<1>4. \A l \in Logins \ {q} : logins'[l] = logins[l]
  BY <1>1 DEF AccessInv, Shape
<1> QED
  BY <1>2, <1>3, <1>4 DEF Moves, OnlyChanges, Alone, Person, Email, Sub

LEMMA GotoWithMoves ==
  ASSUME AccessInv, NEW q \in Logins, logins[q] # Idle, NEW at \in Stages,
         NEW u \in Accounts, GotoWith(q, at, u)
  PROVE  Moves(q, at, u)
<1> DEFINE r == [logins[q] EXCEPT !.at = at, !.user = u]
<1>1. logins[q] \in Request /\ logins' = [logins EXCEPT ![q] = r]
  BY DEF AccessInv, Shape, GotoWith
<1>2. /\ r \in Request /\ r.at = at /\ r.alone = logins[q].alone
      /\ r.user = u /\ r.person = Person(q) /\ r.email = Email(q)
      /\ r.sub = Sub(q)
  BY <1>1 DEF Request, Person, Email, Sub
<1> HIDE DEF r
<1>3. logins'[q] = r /\ logins' \in [Logins -> {Idle} \cup Request]
  BY <1>1, <1>2 DEF AccessInv, Shape
<1>4. \A l \in Logins \ {q} : logins'[l] = logins[l]
  BY <1>1 DEF AccessInv, Shape
<1> QED
  BY <1>2, <1>3, <1>4 DEF Moves, OnlyChanges, Alone, Person, Email, Sub

LEMMA AnswerMoves ==
  ASSUME AccessInv, NEW q \in Logins, logins[q] # Idle, NEW u \in DOMAIN users, Answer(q, u)
  PROVE  Moves(q, "answered", u)
<1> DEFINE r == [logins[q] EXCEPT !.at = "answered", !.user = u, !.teams = users[u].teams]
<1>1. logins[q] \in Request /\ logins' = [logins EXCEPT ![q] = r]
  BY DEF AccessInv, Shape, Answer
<1>2. u \in Accounts /\ users[u].teams \in SUBSET Teams
  BY DEF AccessInv, Shape, Account
<1>3. /\ r \in Request /\ r.at = "answered" /\ r.alone = logins[q].alone
      /\ r.user = u /\ r.person = Person(q) /\ r.email = Email(q)
      /\ r.sub = Sub(q)
  BY <1>1, <1>2 DEF Request, Person, Email, Sub, Stages
<1> HIDE DEF r
<1>4. logins'[q] = r /\ logins' \in [Logins -> {Idle} \cup Request]
  BY <1>1, <1>3 DEF AccessInv, Shape
<1>5. \A l \in Logins \ {q} : logins'[l] = logins[l]
  BY <1>1 DEF AccessInv, Shape
<1> QED
  BY <1>3, <1>4, <1>5 DEF Moves, OnlyChanges, Alone, Person, Email, Sub

(* It is over: answered and served, refused, or dead.                        *)
LEMMA LeavesMoves ==
  ASSUME AccessInv, NEW q \in Logins, logins' = [logins EXCEPT ![q] = Idle]
  PROVE  OnlyChanges(q) /\ Knows(q)'
<1>1. /\ logins' \in [Logins -> {Idle} \cup Request] /\ logins'[q] = Idle
      /\ \A l \in Logins \ {q} : logins'[l] = logins[l]
  BY DEF AccessInv, Shape
<1> QED
  BY <1>1 DEF OnlyChanges, Alone, Knows, Idle

(* A step of one login, which knows what it should if it is still alone.     *)
LEMMA OneGoesOn ==
  ASSUME AccessInv, NEW q \in Logins, logins[q] # Idle, OnlyChanges(q),
         Alone(q) => Knows(q)'
  PROVE  AloneIsAlone' /\ AloneKnows' /\ JoinersHaveIds'
<1>1. \A l \in Logins : Alone(l)' => Alone(l) /\ l = q
  BY OnlyTheAlone DEF AccessInv, Alone, OnlyChanges
<1>2. AloneIsAlone'
  BY <1>1 DEF AccessInv, AloneIsAlone, OnlyChanges
<1>3. AloneKnows'
  BY <1>1 DEF AloneKnows
<1>4. JoinersHaveIds'
  BY DEF AccessInv, JoinersHaveIds, OnlyChanges
<1> QED
  BY <1>2, <1>3, <1>4

(* A change disturbs every login.                                            *)
LEMMA NoneIsAlone ==
  ASSUME AccessInv, logins' = Disturbed
  PROVE  /\ logins' \in [Logins -> {Idle} \cup Request]
         /\ AloneIsAlone' /\ AloneKnows' /\ JoinersHaveIds'
         /\ \A q \in Logins : logins[q].at = "team" =>
              logins'[q].at = "team" /\ logins'[q].user = logins[q].user
<1>1. \A q \in Logins :
        logins'[q] = IF logins[q] = Idle THEN Idle ELSE [logins[q] EXCEPT !.alone = FALSE]
  BY DEF Disturbed
<1>2. \A q \in Logins : logins[q] # Idle =>
        [logins[q] EXCEPT !.alone = FALSE] \in Request
  BY DEF AccessInv, Shape, Request
<1>3. logins' \in [Logins -> {Idle} \cup Request]
  BY <1>1, <1>2 DEF Disturbed
<1>4. \A q \in Logins : ~Alone(q)'
  <2>1. ASSUME NEW q \in Logins, logins[q] # Idle
        PROVE  logins'[q].alone = FALSE
    BY <1>1, <2>1 DEF AccessInv, Shape, Request
  <2> QED
    BY <1>1, <2>1 DEF Alone
<1>5. \A q \in Logins : logins[q].at = "team" =>
        logins'[q].at = "team" /\ logins'[q].user = logins[q].user
  <2> SUFFICES ASSUME NEW q \in Logins, logins[q].at = "team"
               PROVE  logins'[q].at = "team" /\ logins'[q].user = logins[q].user
    OBVIOUS
  <2>1. logins[q] # Idle
    BY DEF Idle
  <2> QED
    BY <1>1, <2>1 DEF AccessInv, Shape, Request
<1>6. JoinersHaveIds'
  <2> SUFFICES ASSUME NEW q \in Logins, logins'[q].at = "team"
               PROVE  logins'[q].user \in Accounts
    BY DEF JoinersHaveIds
  <2>1. logins[q] # Idle /\ logins'[q] = [logins[q] EXCEPT !.alone = FALSE]
    BY <1>1 DEF Idle
  <2>2. logins[q].at = "team" /\ logins'[q].user = logins[q].user
    BY <2>1 DEF AccessInv, Shape, Request
  <2> QED
    BY <2>2 DEF AccessInv, JoinersHaveIds
<1> QED
  BY <1>3, <1>4, <1>5, <1>6 DEF AloneIsAlone, AloneKnows

(* Rows that keep their name, person, sub and email stay unique.             *)
LEMMA UniqueStays ==
  ASSUME Unique, DOMAIN users' \subseteq DOMAIN users,
         \A u \in DOMAIN users' :
           /\ users'[u].name = users[u].name /\ users'[u].email = users[u].email
           /\ users'[u].sso_username = users[u].sso_username
           /\ users'[u].sso_sub = users[u].sso_sub
  PROVE  Unique'
BY DEF Unique

(* What leaves a created read-only account in its team, or about to join it. *)
LEMMA ReadOnlyStays ==
  ASSUME CreatedReadOnlyIsInTeam,
         \A u \in DOMAIN users' : u \notin exempt' =>
           /\ u \in DOMAIN users /\ u \notin exempt
           /\ users'[u].sso_username = users[u].sso_username
           /\ RedHat \in users[u].teams => RedHat \in users'[u].teams,
         \A q \in Logins : logins[q].at = "team" =>
           logins'[q].at = "team" /\ logins'[q].user = logins[q].user
  PROVE  CreatedReadOnlyIsInTeam'
BY DEF CreatedReadOnlyIsInTeam

-----------------------------------------------------------------------------
(* The steps of a login.                                                    *)

LEMMA InitInv == Init => AccessInv
<1> SUFFICES ASSUME Init PROVE AccessInv
  OBVIOUS
<1>1. DOMAIN users = {} /\ \A q \in Logins : logins[q] = Idle
  BY DEF Init
<1>2. Shape
  BY <1>1, AccessAssumption DEF Init, Shape
<1> QED
  BY <1>1, <1>2
  DEF AccessInv, Unique, AloneIsAlone, AloneKnows, Alone, JoinersHaveIds,
      CreatedReadOnlyIsInTeam, Idle

(* A step of a login that leaves the table as it is.                         *)
LEMMA OneGoesOnOnly ==
  ASSUME AccessInv, NEW q \in Logins, logins[q] # Idle, OnlyChanges(q),
         Alone(q) => Knows(q)',
         UNCHANGED <<product_teams, deleted, users, email>>,
         changes' \in 0..MaxChanges,
         exempt \subseteq exempt', exempt' \subseteq Accounts,
         logins[q].at = "team" => logins[q].user \in exempt' \/ logins[q].user \notin DOMAIN users
  PROVE  AccessInv'
<1>1. AloneIsAlone' /\ AloneKnows' /\ JoinersHaveIds'
  BY OneGoesOn
<1>2. Shape'
  BY DEF AccessInv, Shape, OnlyChanges
<1>3. Unique'
  BY DEF AccessInv, Unique
<1>4. CreatedReadOnlyIsInTeam'
  <2> SUFFICES ASSUME NEW u \in DOMAIN users, users[u].sso_username \in ReadOnly,
                      u \notin exempt', RedHat \notin users[u].teams
               PROVE  \E l \in Logins : logins'[l].at = "team" /\ logins'[l].user = u
    BY DEF CreatedReadOnlyIsInTeam
  <2>1. PICK l \in Logins : logins[l].at = "team" /\ logins[l].user = u
    BY DEF AccessInv, CreatedReadOnlyIsInTeam
  <2>2. l # q
    BY <2>1
  <2> QED
    BY <2>1, <2>2 DEF OnlyChanges
<1> QED
  BY <1>1, <1>2, <1>3, <1>4 DEF AccessInv

LEMMA LoginStep ==
  ASSUME AccessInv, NEW q \in Logins, NEW p \in Persons, NEW sub \in SubsOf[p],
         Login(q, p, sub)
  PROVE  AccessInv'
<1> DEFINE first == [at |-> "both", person |-> p, email |-> email[p], sub |-> sub,
                     user |-> None, teams |-> {}, alone |-> \A l \in Logins : logins[l] = Idle]
<1>1. /\ logins[q] = Idle /\ logins' = [Disturbed EXCEPT ![q] = first]
      /\ UNCHANGED <<rest, users, exempt>>
  BY DEF Login
<1>2. first \in Request
  BY AccessAssumption DEF Request, Stages, AccessInv, Shape
<1>3. \A l \in Logins \ {q} :
        /\ logins[l] = Idle => logins'[l] = Idle
        /\ logins[l] # Idle => /\ logins'[l] = [logins[l] EXCEPT !.alone = FALSE]
                               /\ logins'[l] \in Request /\ logins'[l].alone = FALSE
                               /\ logins'[l].at = logins[l].at
                               /\ logins'[l].user = logins[l].user
  <2> SUFFICES ASSUME NEW l \in Logins \ {q}
               PROVE  /\ logins[l] = Idle => logins'[l] = Idle
                      /\ logins[l] # Idle =>
                           /\ logins'[l] = [logins[l] EXCEPT !.alone = FALSE]
                           /\ logins'[l] \in Request /\ logins'[l].alone = FALSE
                           /\ logins'[l].at = logins[l].at
                           /\ logins'[l].user = logins[l].user
    OBVIOUS
  <2>1. logins'[l] = IF logins[l] = Idle THEN Idle
                     ELSE [logins[l] EXCEPT !.alone = FALSE]
    BY <1>1 DEF Disturbed
  <2>2. logins[l] # Idle => logins[l] \in Request
    BY DEF AccessInv, Shape
  <2> QED
    BY <2>1, <2>2 DEF Request
<1>4. logins'[q] = first
  BY <1>1 DEF Disturbed
<1>5. Shape'
  <2>1. logins' \in [Logins -> {Idle} \cup Request]
    BY <1>1, <1>2, <1>3, <1>4 DEF Disturbed
  <2> QED
    BY <1>1, <2>1 DEF rest, AccessInv, Shape
<1>6. \A l \in Logins : Alone(l)' => l = q /\ \A k \in Logins : logins[k] = Idle
  <2>1. \A l \in Logins \ {q} : ~Alone(l)'
    BY <1>3 DEF Alone
  <2>2. Alone(q)' => \A k \in Logins : logins[k] = Idle
    BY <1>4 DEF Alone
  <2> QED
    BY <2>1, <2>2
<1>7. AloneIsAlone'
  BY <1>3, <1>6 DEF AloneIsAlone
<1>8. AloneKnows'
  BY <1>4, <1>6 DEF AloneKnows, Knows
<1>9. CreatedReadOnlyIsInTeam'
  <2>1. \A l \in Logins : logins[l].at = "team" =>
          logins'[l].at = "team" /\ logins'[l].user = logins[l].user
    <3> SUFFICES ASSUME NEW l \in Logins, logins[l].at = "team"
                 PROVE  logins'[l].at = "team" /\ logins'[l].user = logins[l].user
      OBVIOUS
    <3>1. logins[l] # Idle
      BY DEF Idle
    <3> QED
      BY <1>1, <1>3, <3>1
  <2> QED
    BY <1>1, <2>1, ReadOnlyStays DEF AccessInv
<1>10. Unique'
  BY <1>1 DEF AccessInv, Unique
<1>11. JoinersHaveIds'
  <2> SUFFICES ASSUME NEW l \in Logins, logins'[l].at = "team"
               PROVE  logins'[l].user \in Accounts
    BY DEF JoinersHaveIds
  <2>1. l # q /\ logins'[l] # Idle
    BY <1>4 DEF Idle
  <2>2. logins[l].at = "team" /\ logins'[l].user = logins[l].user
    BY <1>3, <2>1
  <2> QED
    BY <2>2 DEF AccessInv, JoinersHaveIds
<1> QED
  BY <1>5, <1>7, <1>8, <1>9, <1>10, <1>11 DEF AccessInv

(* Where there is nothing to know.                                           *)
LEMMA NothingToKnow ==
  ASSUME NEW q, logins'[q].at \in {"both", "login", "answered"}
  PROVE  Knows(q)'
BY DEF Knows

LEMMA FindWithEmailStep ==
  ASSUME AccessInv, NEW q \in Logins, FindWithEmail(q)
  PROVE  AccessInv'
<1>1. logins[q] # Idle /\ logins[q].at = "both" /\ UNCHANGED <<rest, users, exempt>>
  BY DEF FindWithEmail, Idle
<1>2. OnlyChanges(q) /\ logins'[q].at \in {"answered", "login"}
  <2>1. CASE \E u \in DOMAIN users : Answer(q, u)
    BY <1>1, <2>1, AnswerMoves DEF Moves
  <2>2. CASE Goto(q, "login")
    BY <1>1, <2>2, GotoMoves DEF Moves, Stages
  <2> QED
    BY <2>1, <2>2 DEF FindWithEmail, OfPerson
<1> QED
  BY <1>1, <1>2, NothingToKnow, OneGoesOnOnly DEF rest, AccessInv, Shape

LEMMA FindWithLoginStep ==
  ASSUME AccessInv, NEW q \in Logins, FindWithLogin(q)
  PROVE  AccessInv'
<1>1. logins[q] # Idle /\ logins[q].at = "login" /\ UNCHANGED <<rest, users, exempt>>
  BY DEF FindWithLogin, Idle
<1>2. CASE \E u \in OfPerson(Person(q)) : GotoWith(q, "update", u)
  <2>1. PICK u \in OfPerson(Person(q)) : GotoWith(q, "update", u)
    BY <1>2
  <2>2. u \in Accounts
    BY DEF OfPerson, AccessInv, Shape
  <2>3. Moves(q, "update", u)
    BY <1>1, <2>1, <2>2, GotoWithMoves DEF Stages
  <2>4. Knows(q)'
    BY <1>1, <2>3 DEF Knows, Moves, OfPerson, IsActive
  <2> QED
    BY <1>1, <2>3, <2>4, OneGoesOnOnly DEF Moves, rest, AccessInv, Shape
<1>3. CASE OfPerson(Person(q)) = {} /\ Goto(q, "create")
  <2>1. Moves(q, "create", logins[q].user)
    BY <1>1, <1>3, GotoMoves DEF Stages
  <2>2. Knows(q)'
    BY <1>1, <1>3, <2>1 DEF Knows, Moves, OfPerson, IsActive
  <2> QED
    BY <1>1, <2>1, <2>2, OneGoesOnOnly DEF Moves, rest, AccessInv, Shape
<1> QED
  BY <1>2, <1>3 DEF FindWithLogin

LEMMA UpdateEmailStep ==
  ASSUME AccessInv, NEW q \in Logins, UpdateEmail(q)
  PROVE  AccessInv'
<1> DEFINE u == logins[q].user
<1>1. logins[q] # Idle /\ logins[q].at = "update" /\ UNCHANGED <<rest, exempt>>
  BY DEF UpdateEmail, Idle
<1>2. Person(q) \in Persons /\ Email(q) \in Emails
  BY <1>1 DEF AccessInv, Shape, Request, Person, Email
<1>3. Alone(q) => u \in OfPerson(Person(q))
  BY <1>1 DEF AccessInv, AloneKnows, Knows
<1>4. CASE /\ u \in DOMAIN users /\ \A k \in DOMAIN users \ {u} : users[k].email # Email(q)
           /\ users' = [users EXCEPT ![u].email = Email(q)] /\ Goto(q, "again")
  <2>1. Moves(q, "again", u)
    BY <1>1, <1>4, GotoMoves DEF Stages
  <2>2. /\ users' \in [DOMAIN users -> Account]
        /\ users'[u] = [users[u] EXCEPT !.email = Email(q)]
        /\ \A k \in DOMAIN users \ {u} : users'[k] = users[k]
    BY <1>2, <1>4 DEF AccessInv, Shape, Account
  <2>3. /\ users[u] \in Account /\ users'[u].email = Email(q)
        /\ users'[u].name = users[u].name /\ users'[u].state = users[u].state
        /\ users'[u].sso_username = users[u].sso_username
        /\ users'[u].sso_sub = users[u].sso_sub
        /\ users'[u].teams = users[u].teams
    BY <1>4, <2>2 DEF AccessInv, Shape, Account
  <2>4. DOMAIN users' = DOMAIN users
    BY <2>2
  <2>5. Unique'
    BY <1>4, <2>2, <2>3, <2>4 DEF AccessInv, Unique
  <2>6. Alone(q) => Knows(q)'
    BY <1>3, <2>1, <2>3, <2>4 DEF Knows, HasEmail, OfPerson, IsActive, Moves
  <2>7. AloneIsAlone' /\ AloneKnows' /\ JoinersHaveIds'
    BY <1>1, <2>1, <2>6, OneGoesOn DEF Moves
  <2>8. Shape'
    BY <1>1, <2>1, <2>2, <2>4 DEF AccessInv, Shape, Moves, OnlyChanges, rest
  <2>9. \A l \in Logins : logins[l].at = "team" =>
          logins'[l].at = "team" /\ logins'[l].user = logins[l].user
    BY <1>1, <2>1 DEF Moves, OnlyChanges
  <2>10. CreatedReadOnlyIsInTeam'
    BY <1>1, <2>2, <2>3, <2>4, <2>9, ReadOnlyStays DEF AccessInv
  <2> QED
    BY <2>5, <2>7, <2>8, <2>10 DEF AccessInv
<1>5. CASE /\ ~(u \in DOMAIN users /\ \A k \in DOMAIN users \ {u} : users[k].email # Email(q))
           /\ users' = users /\ Goto(q, "refused")
  <2>1. Moves(q, "refused", u)
    BY <1>1, <1>5, GotoMoves DEF Stages
  <2>2. Alone(q) => Knows(q)'
    <3> SUFFICES ASSUME Alone(q) PROVE HasRival(Person(q), Email(q), Sub(q))'
      BY <2>1 DEF Knows, Moves
    <3>1. u \in DOMAIN users /\ users[u].sso_username = Person(q)
      BY <1>3 DEF OfPerson
    <3>2. PICK k \in DOMAIN users \ {u} : users[k].email = Email(q)
      BY <1>5, <3>1
    <3>3. k \notin OfPerson(Person(q))
      BY <1>2, <3>1, AccessAssumption DEF OfPerson, AccessInv, Unique
    <3> QED
      BY <1>5, <2>1, <3>2, <3>3 DEF HasRival, OfPerson, IsActive, Moves
  <2> QED
    BY <1>1, <1>5, <2>1, <2>2, OneGoesOnOnly DEF Moves, rest, AccessInv, Shape
<1> QED
  BY <1>4, <1>5 DEF UpdateEmail

(* A row with an id of its own, whose name, person, sub and email no other   *)
(* has.                                                                      *)
LEMMA InsertedRow ==
  ASSUME AccessInv, NEW row \in Account, Clashes(row) = {}, users' = With(NewId, row)
  PROVE  /\ users' \in [DOMAIN users' -> Account] /\ DOMAIN users' \subseteq Accounts
         /\ DOMAIN users' = DOMAIN users \cup {NewId} /\ NewId \notin DOMAIN users
         /\ users'[NewId] = row /\ \A k \in DOMAIN users : users'[k] = users[k]
         /\ Unique'
<1>1. NewId \in Accounts \ DOMAIN users
  BY FreshAccount DEF AccessInv
<1>2. /\ DOMAIN users' = DOMAIN users \cup {NewId} /\ users'[NewId] = row
      /\ \A k \in DOMAIN users : users'[k] = users[k]
  BY <1>1 DEF With
<1>3. users' \in [DOMAIN users' -> Account] /\ DOMAIN users' \subseteq Accounts
  BY <1>1, <1>2 DEF With, AccessInv, Shape
<1>4. \A k \in DOMAIN users :
        /\ users[k].name # row.name /\ users[k].email # row.email
        /\ users[k].sso_username = row.sso_username => row.sso_username = None
        /\ users[k].sso_sub = row.sso_sub => row.sso_sub = None
  BY DEF Clashes
<1>5. Unique'
  BY <1>2, <1>4 DEF AccessInv, Unique
<1> QED
  BY <1>1, <1>2, <1>3, <1>5

LEMMA CreateStep ==
  ASSUME AccessInv, NEW q \in Logins, Create(q)
  PROVE  AccessInv'
<1> DEFINE row == NewRow(Person(q), Person(q), Sub(q), Email(q))
           at == IF Person(q) \in ReadOnly THEN "team" ELSE "again"
<1>1. logins[q] # Idle /\ logins[q].at = "create" /\ UNCHANGED rest
  BY DEF Create, Idle
<1>2. Person(q) \in Persons /\ Email(q) \in Emails /\ Sub(q) \in Subs \cup {None}
  BY <1>1 DEF AccessInv, Shape, Request, Person, Email, Sub
<1>3. /\ row \in Account
      /\ row.name = Person(q) /\ row.sso_username = Person(q) /\ row.sso_sub = Sub(q)
      /\ row.email = Email(q) /\ row.state = "active"
  BY <1>2 DEF Account, States, NewRow
<1> HIDE DEF row
<1>4. CASE /\ Clashes(row) = {} /\ users' = With(NewId, row) /\ exempt' = exempt \ {NewId}
           /\ GotoWith(q, at, NewId)
  <2>1. /\ users' \in [DOMAIN users' -> Account] /\ DOMAIN users' \subseteq Accounts
        /\ DOMAIN users' = DOMAIN users \cup {NewId} /\ NewId \notin DOMAIN users
        /\ users'[NewId] = row /\ \A k \in DOMAIN users : users'[k] = users[k]
        /\ Unique'
    BY <1>3, <1>4, InsertedRow
  <2>2. NewId \in Accounts /\ \A l \in Logins : logins[l] # Idle => logins[l].user # NewId
    BY FreshAccount DEF AccessInv
  <2>3. Moves(q, at, NewId)
    BY <1>1, <1>4, <2>2, GotoWithMoves DEF Stages
  <2>4. Knows(q)'
    BY <1>3, <2>1, <2>3 DEF Knows, HasEmail, OfPerson, IsActive, Moves
  <2>5. AloneIsAlone' /\ AloneKnows' /\ JoinersHaveIds'
    BY <1>1, <2>3, <2>4, OneGoesOn DEF Moves
  <2>6. Shape'
    BY <1>1, <1>4, <2>1, <2>3 DEF AccessInv, Shape, Moves, OnlyChanges, rest
  <2>7. CreatedReadOnlyIsInTeam'
    <3> SUFFICES ASSUME NEW u \in DOMAIN users', users'[u].sso_username \in ReadOnly,
                        u \notin exempt', RedHat \notin users'[u].teams
                 PROVE  \E l \in Logins : logins'[l].at = "team" /\ logins'[l].user = u
      BY DEF CreatedReadOnlyIsInTeam
    <3>1. CASE u = NewId
      BY <1>3, <2>1, <2>3, <3>1 DEF Moves
    <3>2. CASE u # NewId
      <4>1. u \in DOMAIN users /\ users'[u] = users[u] /\ u \notin exempt
        BY <1>4, <2>1, <3>2
      <4>2. PICK l \in Logins : logins[l].at = "team" /\ logins[l].user = u
        BY <4>1 DEF AccessInv, CreatedReadOnlyIsInTeam
      <4>3. l # q
        BY <1>1, <4>2
      <4> QED
        BY <2>3, <4>2, <4>3 DEF Moves, OnlyChanges
    <3> QED
      BY <3>1, <3>2
  <2> QED
    BY <2>1, <2>5, <2>6, <2>7 DEF AccessInv
<1>5. CASE /\ Clashes(row) # {} /\ UNCHANGED <<users, exempt>> /\ Goto(q, "refused")
  <2>1. Moves(q, "refused", logins[q].user)
    BY <1>1, <1>5, GotoMoves DEF Stages
  <2>2. Alone(q) => Knows(q)'
    <3> SUFFICES ASSUME Alone(q) PROVE HasRival(Person(q), Email(q), Sub(q))'
      BY <2>1 DEF Knows, Moves
    <3>1. OfPerson(Person(q)) = {}
      BY <1>1 DEF AccessInv, AloneKnows, Knows
    <3>2. PICK u \in DOMAIN users :
            \/ users[u].email = Email(q)
            \/ Person(q) \in {users[u].name, users[u].sso_username}
            \/ Sub(q) # None /\ users[u].sso_sub = Sub(q)
      BY <1>3, <1>5 DEF Clashes
    <3> QED
      BY <1>5, <2>1, <3>1, <3>2 DEF HasRival, OfPerson, IsActive, Moves
  <2> QED
    BY <1>1, <1>5, <2>1, <2>2, OneGoesOnOnly DEF Moves, rest, AccessInv, Shape
<1> QED
  BY <1>4, <1>5 DEF Create, row

LEMMA JoinTeamStep ==
  ASSUME AccessInv, NEW q \in Logins, JoinTeam(q)
  PROVE  AccessInv'
<1> DEFINE u == logins[q].user
<1>1. logins[q] # Idle /\ logins[q].at = "team" /\ UNCHANGED <<rest, exempt>>
  BY DEF JoinTeam, Idle
<1>2. Alone(q) => u \in DOMAIN users /\ HasEmail(q)
  BY <1>1 DEF AccessInv, AloneKnows, Knows
<1>3. CASE /\ u \in DOMAIN users
           /\ users' = [users EXCEPT ![u].teams = @ \cup {RedHat}] /\ Goto(q, "again")
  <2>1. Moves(q, "again", u)
    BY <1>1, <1>3, GotoMoves DEF Stages
  <2>2. /\ DOMAIN users' = DOMAIN users /\ RedHat \in Teams
        /\ users'[u] = [users[u] EXCEPT !.teams = @ \cup {RedHat}]
        /\ \A k \in DOMAIN users \ {u} : users'[k] = users[k]
    BY <1>3, RolesAssumption DEF AccessInv, Shape
  <2>3. /\ users[u] \in Account /\ users'[u] \in Account
        /\ users'[u].name = users[u].name /\ users'[u].state = users[u].state
        /\ users'[u].sso_username = users[u].sso_username
        /\ users'[u].sso_sub = users[u].sso_sub
        /\ users'[u].email = users[u].email
        /\ users'[u].teams = users[u].teams \cup {RedHat}
    BY <1>3, <2>2 DEF AccessInv, Shape, Account
  <2>4. users' \in [DOMAIN users -> Account]
    BY <1>3, <2>2, <2>3 DEF AccessInv, Shape
  <2>5. Unique'
    BY <2>2, <2>3, UniqueStays DEF AccessInv
  <2>6. Alone(q) => Knows(q)'
    <3> SUFFICES ASSUME Alone(q)
                 PROVE  \E k \in DOMAIN users' :
                          /\ users'[k].sso_username = Person(q) /\ users'[k].state = "active"
                          /\ users'[k].email = Email(q)
      BY <2>1 DEF Knows, HasEmail, OfPerson, IsActive, Moves
    <3>1. PICK k \in DOMAIN users :
            /\ users[k].sso_username = Person(q) /\ users[k].state = "active"
            /\ users[k].email = Email(q)
      BY <1>2 DEF HasEmail, OfPerson, IsActive
    <3>2. CASE k = u
      BY <2>2, <2>3, <3>1, <3>2
    <3>3. CASE k # u
      BY <2>2, <3>1, <3>3
    <3> QED
      BY <3>2, <3>3
  <2>7. AloneIsAlone' /\ AloneKnows' /\ JoinersHaveIds'
    BY <1>1, <2>1, <2>6, OneGoesOn DEF Moves
  <2>8. Shape'
    BY <1>1, <2>1, <2>2, <2>4 DEF AccessInv, Shape, Moves, OnlyChanges, rest
  <2>9. CreatedReadOnlyIsInTeam'
    <3> SUFFICES ASSUME NEW k \in DOMAIN users, users[k].sso_username \in ReadOnly,
                        k \notin exempt, RedHat \notin users[k].teams, k # u
                 PROVE  \E l \in Logins : logins'[l].at = "team" /\ logins'[l].user = k
      BY <1>1, <2>2, <2>3 DEF CreatedReadOnlyIsInTeam
    <3>1. PICK l \in Logins : logins[l].at = "team" /\ logins[l].user = k
      BY DEF AccessInv, CreatedReadOnlyIsInTeam
    <3>2. l # q
      BY <3>1
    <3> QED
      BY <2>1, <3>1, <3>2 DEF Moves, OnlyChanges
  <2> QED
    BY <2>5, <2>7, <2>8, <2>9 DEF AccessInv
<1>4. CASE u \notin DOMAIN users /\ users' = users /\ Goto(q, "refused")
  <2>1. Moves(q, "refused", u)
    BY <1>1, <1>4, GotoMoves DEF Stages
  <2>2. ~Alone(q)
    BY <1>2, <1>4
  <2> QED
    BY <1>1, <1>4, <2>1, <2>2, OneGoesOnOnly DEF Moves, rest, AccessInv, Shape
<1> QED
  BY <1>3, <1>4 DEF JoinTeam

LEMMA CannotJoinStep ==
  ASSUME AccessInv, NEW q \in Logins, CannotJoin(q)
  PROVE  AccessInv'
<1>1. /\ logins[q] # Idle /\ logins[q].at = "team" /\ Goto(q, "unjoined")
      /\ UNCHANGED <<product_teams, deleted, users, email>>
      /\ changes < MaxChanges /\ changes' = changes + 1
      /\ exempt' = exempt \cup {logins[q].user}
  BY DEF CannotJoin, Idle
<1>2. Moves(q, "unjoined", logins[q].user)
  BY <1>1, GotoMoves DEF Stages
<1>3. Knows(q)'
  BY <1>2 DEF Knows, Moves
<1>4. changes' \in 0..MaxChanges
  BY <1>1, AccessAssumption DEF AccessInv, Shape
<1>5. exempt' \subseteq Accounts
  BY <1>1 DEF AccessInv, Shape, JoinersHaveIds
<1> QED
  BY <1>1, <1>2, <1>3, <1>4, <1>5, OneGoesOnOnly DEF Moves

LEMMA FindAgainStep ==
  ASSUME AccessInv, NEW q \in Logins, FindAgain(q)
  PROVE  AccessInv'
<1>1. logins[q] # Idle /\ logins[q].at = "again" /\ UNCHANGED <<rest, users, exempt>>
  BY DEF FindAgain, Idle
<1>2. CASE \E u \in DOMAIN users : Answer(q, u)
  BY <1>1, <1>2, AnswerMoves, NothingToKnow, OneGoesOnOnly
  DEF Moves, rest, AccessInv, Shape
<1>3. CASE /\ {u \in OfPerson(Person(q)) : users[u].email = Email(q)} = {}
           /\ Goto(q, "refused")
  <2>1. Moves(q, "refused", logins[q].user)
    BY <1>1, <1>3, GotoMoves DEF Stages
  <2>2. ~Alone(q)
    BY <1>1, <1>3 DEF AccessInv, AloneKnows, Knows, HasEmail
  <2> QED
    BY <1>1, <2>1, <2>2, OneGoesOnOnly DEF Moves, rest, AccessInv, Shape
<1> QED
  BY <1>2, <1>3 DEF FindAgain, OfPerson

LEMMA DieStep ==
  ASSUME AccessInv, NEW q \in Logins, Die(q)
  PROVE  AccessInv'
<1>1. /\ logins[q] # Idle /\ logins' = [logins EXCEPT ![q] = Idle]
      /\ UNCHANGED <<product_teams, deleted, users, email>>
      /\ changes < MaxChanges /\ changes' = changes + 1
  BY DEF Die, Idle
<1>2. changes' \in 0..MaxChanges
  BY <1>1, AccessAssumption DEF AccessInv, Shape
<1>3. /\ exempt \subseteq exempt'
      /\ logins[q].at = "team" => exempt' = exempt \cup {logins[q].user}
      /\ logins[q].at # "team" => exempt' = exempt
  BY DEF Die
<1>4. exempt' \subseteq Accounts
  BY <1>3 DEF AccessInv, Shape, JoinersHaveIds
<1> QED
  BY <1>1, <1>2, <1>3, <1>4, LeavesMoves, OneGoesOnOnly DEF AccessInv, Shape

LEMMA CloseStep ==
  ASSUME AccessInv, NEW q \in Logins, Close(q)
  PROVE  AccessInv'
<1>1. /\ logins[q] # Idle /\ logins[q].at # "team" /\ logins' = [logins EXCEPT ![q] = Idle]
      /\ UNCHANGED <<rest, users, exempt>>
  BY DEF Close, Idle
<1> QED
  BY <1>1, LeavesMoves, OneGoesOnOnly DEF rest, AccessInv, Shape

-----------------------------------------------------------------------------
(* What administrators do.                                                   *)

(* A change that keeps the table, or rows of it with the name and the person *)
(* they had, unique emails, and the read-only team of those not exempt.      *)
LEMMA ChangeStep ==
  ASSUME AccessInv, Change,
         users' \in [DOMAIN users' -> Account], DOMAIN users' \subseteq Accounts,
         email' \in [Persons -> Emails],
         product_teams' \subseteq Products \X Teams, deleted' \subseteq Products,
         exempt' \subseteq Accounts, Unique',
         \A u \in DOMAIN users' : u \notin exempt' =>
           /\ u \in DOMAIN users /\ u \notin exempt
           /\ users'[u].sso_username = users[u].sso_username
           /\ RedHat \in users[u].teams => RedHat \in users'[u].teams
  PROVE  AccessInv'
<1>1. /\ logins' \in [Logins -> {Idle} \cup Request]
      /\ AloneIsAlone' /\ AloneKnows' /\ JoinersHaveIds'
      /\ \A q \in Logins : logins[q].at = "team" =>
           logins'[q].at = "team" /\ logins'[q].user = logins[q].user
  BY NoneIsAlone DEF Change
<1>2. changes' \in 0..MaxChanges
  BY AccessAssumption DEF Change, AccessInv, Shape
<1>3. Shape'
  BY <1>1, <1>2 DEF Shape
<1>4. CreatedReadOnlyIsInTeam'
  BY <1>1, ReadOnlyStays DEF AccessInv
<1> QED
  BY <1>1, <1>3, <1>4 DEF AccessInv

(* No other row has a unique column of this one.                             *)
Fits(u, row) ==
  \A k \in DOMAIN users \ {u} :
    /\ users[k].name # row.name /\ users[k].email # row.email
    /\ users[k].sso_username = row.sso_username => row.sso_username = None
    /\ users[k].sso_sub = row.sso_sub => row.sso_sub = None

(* A change of one row that keeps its person and read-only team.             *)
LEMMA RowStep ==
  ASSUME AccessInv, Change, OnlyUsers, NEW u \in DOMAIN users, NEW row \in Account,
         users' = [users EXCEPT ![u] = row],
         row.sso_username = users[u].sso_username, Fits(u, row),
         exempt \subseteq exempt', exempt' \subseteq Accounts,
         RedHat \in users[u].teams => RedHat \in row.teams \/ u \in exempt'
  PROVE  AccessInv'
<1>1. /\ DOMAIN users' = DOMAIN users /\ users'[u] = row
      /\ \A k \in DOMAIN users \ {u} : users'[k] = users[k]
  BY DEF AccessInv, Shape
<1>2. users' \in [DOMAIN users -> Account] /\ DOMAIN users \subseteq Accounts
  BY DEF AccessInv, Shape
<1>3. Unique'
  BY <1>1 DEF AccessInv, Unique, Fits
<1>4. /\ email' \in [Persons -> Emails]
      /\ product_teams' \subseteq Products \X Teams /\ deleted' \subseteq Products
  BY DEF OnlyUsers, AccessInv, Shape
<1>5. \A k \in DOMAIN users' : k \notin exempt' =>
        /\ k \in DOMAIN users /\ k \notin exempt
        /\ users'[k].sso_username = users[k].sso_username
        /\ RedHat \in users[k].teams => RedHat \in users'[k].teams
  BY <1>1
<1> QED
  BY <1>1, <1>2, <1>3, <1>4, <1>5, ChangeStep

(* The row of an account, as the fields of Account.                          *)
LEMMA RowType ==
  ASSUME AccessInv, NEW u \in DOMAIN users
  PROVE  users[u] \in Account /\ u \in Accounts
BY DEF AccessInv, Shape

(* One that keeps its unique columns fits.                                   *)
LEMMA KeepsFitting ==
  ASSUME AccessInv, NEW u \in DOMAIN users, NEW row,
         row.name = users[u].name, row.sso_username = users[u].sso_username,
         row.sso_sub = users[u].sso_sub, row.email = users[u].email
  PROVE  Fits(u, row)
BY DEF AccessInv, Unique, Fits

LEMMA CreateUserStep ==
  ASSUME AccessInv, NEW name \in Persons, NEW sso \in Persons \cup {None},
         NEW address \in Emails, CreateUser(name, sso, address)
  PROVE  AccessInv'
<1> DEFINE row == NewRow(name, sso, None, address)
<1>1. /\ Change /\ Clashes(row) = {} /\ users' = With(NewId, row)
      /\ exempt' = exempt \cup {NewId} /\ OnlyUsers
  BY DEF CreateUser
<1>2. row \in Account
  BY DEF Account, NewRow, States
<1> HIDE DEF row
<1>3. /\ users' \in [DOMAIN users' -> Account] /\ DOMAIN users' \subseteq Accounts
      /\ DOMAIN users' = DOMAIN users \cup {NewId}
      /\ \A k \in DOMAIN users : users'[k] = users[k]
      /\ Unique'
  BY <1>1, <1>2, InsertedRow
<1>4. NewId \in Accounts
  BY FreshAccount DEF AccessInv
<1>5. \A u \in DOMAIN users' : u \notin exempt' =>
        /\ u \in DOMAIN users /\ u \notin exempt
        /\ users'[u].sso_username = users[u].sso_username
        /\ RedHat \in users[u].teams => RedHat \in users'[u].teams
  BY <1>1, <1>3
<1> QED
  BY <1>1, <1>3, <1>4, <1>5, ChangeStep DEF OnlyUsers, AccessInv, Shape

LEMMA PutUserStep ==
  ASSUME AccessInv, NEW u \in DOMAIN users, NEW name \in Persons, NEW address \in Emails,
         NEW sub \in Subs \cup {None}, NEW state \in States,
         PutUser(u, name, address, sub, state)
  PROVE  AccessInv'
<1> DEFINE row == [users[u] EXCEPT !.name = name, !.email = address, !.sso_sub = sub,
                                   !.state = state]
<1>1. /\ Change /\ Clashes(row) \subseteq {u} /\ users' = With(u, row)
      /\ OnlyUsers /\ exempt' = exempt
  BY DEF PutUser
<1>2. /\ row \in Account /\ row.sso_username = users[u].sso_username
      /\ row.teams = users[u].teams
  BY RowType DEF Account
<1>3. users' = [users EXCEPT ![u] = row]
  BY <1>1 DEF With, AccessInv, Shape
<1> HIDE DEF row
<1>4. Fits(u, row)
  BY <1>1 DEF Clashes, Fits
<1> QED
  BY <1>1, <1>2, <1>3, <1>4, RowStep DEF AccessInv, Shape

LEMMA DeleteUserStep ==
  ASSUME AccessInv, NEW u \in DOMAIN users, DeleteUser(u)
  PROVE  AccessInv'
<1> DEFINE row == [users[u] EXCEPT !.state = "archived"]
<1>1. /\ Change /\ users' = [users EXCEPT ![u] = row] /\ OnlyUsers /\ exempt' = exempt
  BY DEF DeleteUser
<1>2. /\ row \in Account /\ row.name = users[u].name /\ row.email = users[u].email
      /\ row.sso_username = users[u].sso_username /\ row.teams = users[u].teams
      /\ row.sso_sub = users[u].sso_sub
  BY RowType DEF Account, States
<1> HIDE DEF row
<1> QED
  BY <1>1, <1>2, KeepsFitting, RowStep DEF AccessInv, Shape

LEMMA AddUserToTeamStep ==
  ASSUME AccessInv, NEW u \in DOMAIN users, NEW team \in Teams, AddUserToTeam(u, team)
  PROVE  AccessInv'
<1> DEFINE row == [users[u] EXCEPT !.teams = @ \cup {team}]
<1>1. /\ Change /\ users' = [users EXCEPT ![u] = row] /\ OnlyUsers /\ exempt' = exempt
  BY DEF AddUserToTeam
<1>2. /\ row \in Account /\ row.name = users[u].name /\ row.email = users[u].email
      /\ row.sso_username = users[u].sso_username /\ row.sso_sub = users[u].sso_sub
      /\ row.teams = users[u].teams \cup {team}
  BY RowType DEF Account
<1> HIDE DEF row
<1> QED
  BY <1>1, <1>2, KeepsFitting, RowStep DEF AccessInv, Shape

LEMMA RemoveUserFromTeamStep ==
  ASSUME AccessInv, NEW u \in DOMAIN users, NEW team \in Teams, RemoveUserFromTeam(u, team)
  PROVE  AccessInv'
<1> DEFINE row == [users[u] EXCEPT !.teams = @ \ {team}]
<1>1. /\ Change /\ users' = [users EXCEPT ![u] = row] /\ OnlyUsers
      /\ exempt' = IF team = RedHat THEN exempt \cup {u} ELSE exempt
  BY DEF RemoveUserFromTeam
<1>2. /\ row \in Account /\ row.name = users[u].name /\ row.email = users[u].email
      /\ row.sso_username = users[u].sso_username /\ row.sso_sub = users[u].sso_sub
      /\ row.teams = users[u].teams \ {team}
  BY RowType DEF Account
<1> HIDE DEF row
<1>3. /\ exempt \subseteq exempt' /\ exempt' \subseteq Accounts
      /\ RedHat \in users[u].teams => RedHat \in row.teams \/ u \in exempt'
  BY <1>1, <1>2, RowType DEF AccessInv, Shape
<1> QED
  BY <1>1, <1>2, <1>3, KeepsFitting, RowStep

LEMMA PurgeUsersStep ==
  ASSUME AccessInv, PurgeUsers
  PROVE  AccessInv'
<1>1. /\ Change /\ OnlyUsers /\ exempt' = exempt
      /\ DOMAIN users' \subseteq DOMAIN users
      /\ \A u \in DOMAIN users' : users'[u] = users[u]
  BY DEF PurgeUsers
<1>2. users' \in [DOMAIN users' -> Account] /\ DOMAIN users' \subseteq Accounts
  BY <1>1 DEF PurgeUsers, AccessInv, Shape
<1>3. Unique'
  BY <1>1, UniqueStays DEF AccessInv
<1> QED
  BY <1>1, <1>2, <1>3, ChangeStep DEF OnlyUsers, AccessInv, Shape

(* Teams, products and the identity provider.                                *)
LEMMA OtherStep ==
  ASSUME AccessInv, Change, UNCHANGED <<users, exempt>>,
         email' \in [Persons -> Emails],
         product_teams' \subseteq Products \X Teams, deleted' \subseteq Products
  PROVE  AccessInv'
<1>1. Unique'
  BY DEF AccessInv, Unique
<1> QED
  BY <1>1, ChangeStep DEF AccessInv, Shape

LEMMA AdministerStep ==
  ASSUME AccessInv, Administer
  PROVE  AccessInv'
<1>1. CASE \E name \in Persons, sso \in Persons \cup {None}, address \in Emails :
             CreateUser(name, sso, address)
  BY <1>1, CreateUserStep
<1>2. CASE \E u \in DOMAIN users, name \in Persons, address \in Emails,
               sub \in Subs \cup {None}, state \in States :
             PutUser(u, name, address, sub, state)
  BY <1>2, PutUserStep
<1>3. CASE \E u \in DOMAIN users : DeleteUser(u)
  BY <1>3, DeleteUserStep
<1>4. CASE PurgeUsers
  BY <1>4, PurgeUsersStep
<1>5. CASE \E u \in DOMAIN users, team \in Teams :
             AddUserToTeam(u, team) \/ RemoveUserFromTeam(u, team)
  BY <1>5, AddUserToTeamStep, RemoveUserFromTeamStep
<1>6. CASE \E p \in Products, team \in Teams :
             AddTeamToProduct(p, team) \/ DeleteTeamFromProduct(p, team)
  BY <1>6, OtherStep DEF AddTeamToProduct, DeleteTeamFromProduct, AccessInv, Shape
<1>7. CASE \E p \in Products : DeleteProduct(p)
  BY <1>7, OtherStep DEF DeleteProduct, AccessInv, Shape
<1>8. CASE \E p \in Persons, address \in Emails : ChangeEmail(p, address)
  BY <1>8, OtherStep DEF ChangeEmail, AccessInv, Shape
<1> QED
  BY <1>1, <1>2, <1>3, <1>4, <1>5, <1>6, <1>7, <1>8 DEF Administer

-----------------------------------------------------------------------------
LEMMA NextInv == AccessInv /\ [Next]_vars => AccessInv'
<1> SUFFICES ASSUME AccessInv, [Next]_vars PROVE AccessInv'
  OBVIOUS
<1>1. CASE \E q \in Logins : Step(q) \/ CannotJoin(q) \/ Die(q)
  BY <1>1, FindWithEmailStep, FindWithLoginStep, UpdateEmailStep, CreateStep,
     JoinTeamStep, CannotJoinStep, FindAgainStep, CloseStep, DieStep
  DEF Step
<1>2. CASE \E q \in Logins, p \in Persons : \E sub \in SubsOf[p] : Login(q, p, sub)
  BY <1>2, LoginStep
<1>3. CASE Administer
  BY <1>3, AdministerStep
<1>4. CASE UNCHANGED vars
  BY <1>4
  DEF vars, AccessInv, Shape, Unique, AloneIsAlone, AloneKnows, Alone, Knows, HasEmail,
      HasRival, OfPerson, IsActive, Person, Email, Sub, JoinersHaveIds, CreatedReadOnlyIsInTeam
<1> QED
  BY <1>1, <1>2, <1>3, <1>4 DEF Next

LEMMA AccessInvHolds == Spec => []AccessInv
BY InitInv, NextInv, PTL DEF Spec

(* Rows, requests and links are what the code makes them, and the columns    *)
(* that are unique in users stay so (models2.py User).                       *)
THEOREM TypeCorrect == Spec => []TypeOK
<1>1. AccessInv => TypeOK
  BY DEF AccessInv, Shape, Unique, TypeOK, Account, Request
<1> QED
  BY <1>1, AccessInvHolds, PTL

(* A login that nothing runs beside is refused only for another account,     *)
(* which keeps the name, the email or the sub of the token                   *)
(* (auth_mechanism.py, _update_user and _create_user).                       *)
THEOREM RefusalsAreExplained == Spec => []RefusedForARival
<1>1. AccessInv => RefusedForARival
  BY DEF AccessInv, AloneKnows, Knows, Alone, RefusedForARival, Idle
<1> QED
  BY <1>1, AccessInvHolds, PTL

(* A created read-only account is in its team unless its login died between  *)
(* the two commits, could not make the second, or an administrator took it   *)
(* out (auth_mechanism.py, _create_user).                                    *)
THEOREM ReadOnlyJoins == Spec => []CreatedReadOnlyIsInTeam
<1>1. AccessInv => CreatedReadOnlyIsInTeam
  BY DEF AccessInv
<1> QED
  BY <1>1, AccessInvHolds, PTL
=============================================================================
