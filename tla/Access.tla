------------------------------- MODULE Access -------------------------------
(* Logging in with a Red Hat token, while administrators change accounts,    *)
(* teams and products. A login looks the account up twice, then updates its  *)
(* email or creates it, in several database statements and commits; logins   *)
(* of the same person run at the same time, and may die. What the answered   *)
(* identity lists and reads is in Permissions.                              *)
EXTENDS Permissions, Integers

CONSTANTS
  Persons,      \* Red Hat logins, also the names of the accounts they create
  ReadOnly,     \* those whose tokens carry the read-only group
  Emails,
  FirstEmail,   \* person -> email of the token at first
  Subs,
  SubsOf,       \* person -> what its tokens may give as sub: None in those of
                \* scope openid; a login that was renamed keeps its sub
  FirstLinks,   \* the products open to teams at first
  Accounts,     \* ids of accounts
  Logins,       \* the logins in progress at one time
  MaxChanges,   \* bound: what administrators and the identity provider do,
                \* and the logins that die or cannot join their team
  MaxNamed      \* bound: columns a PUT of an account changes, beside the sub

ASSUME AccessAssumption ==
  /\ FirstEmail \in [Persons -> Emails] /\ ReadOnly \subseteq Persons
  /\ SubsOf \in [Persons -> SUBSET (Subs \cup {None})]
  /\ FirstLinks \subseteq Products \X Teams
  /\ None \notin Persons \cup Emails \cup Subs \cup Accounts
  /\ IsFiniteSet(Persons) /\ IsFiniteSet(Logins)
  /\ Cardinality(Accounts) > Cardinality(Persons) + Cardinality(Logins)
  /\ MaxChanges \in Nat /\ MaxNamed \in Nat

VARIABLES
  users,     \* id -> the row of the account
  email,     \* person -> the email in the tokens now given out
  logins,    \* login -> where it is
  changes,
  exempt     \* accounts an administrator made or took out of the read-only team,
             \* or whose login ended between its commits

vars == <<product_teams, deleted, users, email, logins, changes, exempt>>
rest == <<product_teams, deleted, email, changes>>

Idle == [at |-> "idle"]

(* A login sees as not alone whatever change or other login runs beside it.  *)
Disturbed == [q \in Logins |-> IF logins[q] = Idle THEN Idle
                               ELSE [logins[q] EXCEPT !.alone = FALSE]]
Goto(q, at) == logins' = [logins EXCEPT ![q].at = at]
GotoWith(q, at, u) == logins' = [logins EXCEPT ![q].at = at, ![q].user = u]

Person(q) == logins[q].person
Email(q) == logins[q].email
Sub(q) == logins[q].sub

(* Variants named Bug... are mistakes a change of the code could make; no   *)
(* action uses them, the mutation runs put them in place of the original.   *)

-----------------------------------------------------------------------------
(* Rows, and the unique columns of the table users.                          *)
States == {"active", "inactive", "archived"}
NewRow(name, sso, sub, address) ==
  [name |-> name, sso_username |-> sso, sso_sub |-> sub, email |-> address,
   state |-> "active", teams |-> {}]

IsActive(u) == users[u].state = "active"
IsLive(u) == users[u].state # "archived"
OfPerson(p) == {u \in DOMAIN users : users[u].sso_username = p /\ IsActive(u)}

Clashes(row) ==
  {u \in DOMAIN users :
     \/ users[u].name = row.name
     \/ users[u].sso_username = row.sso_username /\ row.sso_username # None
     \/ users[u].sso_sub = row.sso_sub /\ row.sso_sub # None
     \/ users[u].email = row.email}

With(u, row) == [i \in DOMAIN users \cup {u} |-> IF i = u THEN row ELSE users[i]]

(* gen_uuid: an id no row has and no request holds.                          *)
NewId == CHOOSE u \in Accounts \ {logins[q].user : q \in {l \in Logins : logins[l] # Idle}} :
           u \notin DOMAIN users

-----------------------------------------------------------------------------
(* A request with a token of the person.                                     *)
Login(q, p, sub) ==
  /\ logins[q] = Idle
  /\ logins' = [Disturbed EXCEPT ![q] =
       [at |-> "both", person |-> p, email |-> email[p], sub |-> sub,
        user |-> None, teams |-> {}, alone |-> \A l \in Logins : logins[l] = Idle]]
  /\ UNCHANGED <<rest, users, exempt>>

Answer(q, u) ==
  logins' = [logins EXCEPT ![q].at = "answered", ![q].user = u, ![q].teams = users[u].teams]

(* _get_user_with_email_and_red_hat_login                                    *)
FindWithEmail(q) ==
  /\ logins[q].at = "both"
  /\ LET found == {u \in OfPerson(Person(q)) : users[u].email = Email(q)} IN
     \/ \E u \in found : Answer(q, u)
     \/ found = {} /\ Goto(q, "login")
  /\ UNCHANGED <<rest, users, exempt>>

(* _get_user_with_only_red_hat_login                                         *)
BugFindWithLogin(q) ==
  /\ logins[q].at = "login"
  /\ Goto(q, "create")
  /\ UNCHANGED <<rest, users, exempt>>

FindWithLogin(q) ==
  /\ logins[q].at = "login"
  /\ \/ \E u \in OfPerson(Person(q)) : GotoWith(q, "update", u)
     \/ OfPerson(Person(q)) = {} /\ Goto(q, "create")
  /\ UNCHANGED <<rest, users, exempt>>

(* _update_user: refused when the email is taken or the row is gone.         *)
UpdateEmail(q) ==
  LET u == logins[q].user IN
  /\ logins[q].at = "update"
  /\ IF u \in DOMAIN users /\ \A k \in DOMAIN users \ {u} : users[k].email # Email(q)
     THEN users' = [users EXCEPT ![u].email = Email(q)] /\ Goto(q, "again")
     ELSE users' = users /\ Goto(q, "refused")
  /\ UNCHANGED <<rest, exempt>>

(* _create_user, first commit.                                               *)
BugCreate(q) ==
  LET row == NewRow(Person(q), Person(q), Sub(q), Email(q)) IN
  /\ logins[q].at = "create"
  /\ IF Clashes(row) = {}
     THEN /\ users' = With(NewId, row) /\ exempt' = exempt \ {NewId}
          /\ GotoWith(q, "again", NewId)
     ELSE UNCHANGED <<users, exempt>> /\ Goto(q, "refused")
  /\ UNCHANGED rest

Create(q) ==
  LET row == NewRow(Person(q), Person(q), Sub(q), Email(q)) IN
  /\ logins[q].at = "create"
  /\ IF Clashes(row) = {}
     THEN /\ users' = With(NewId, row) /\ exempt' = exempt \ {NewId}
          /\ GotoWith(q, IF Person(q) \in ReadOnly THEN "team" ELSE "again", NewId)
     ELSE UNCHANGED <<users, exempt>> /\ Goto(q, "refused")
  /\ UNCHANGED rest

(* Second commit: the account joins the team of the read-only users.         *)
JoinTeam(q) ==
  LET u == logins[q].user IN
  /\ logins[q].at = "team"
  /\ IF u \in DOMAIN users
     THEN users' = [users EXCEPT ![u].teams = @ \cup {RedHat}] /\ Goto(q, "again")
     ELSE users' = users /\ Goto(q, "refused")
  /\ UNCHANGED <<rest, exempt>>

(* The team is archived, or the second commit fails: the login is refused    *)
(* and the account stays, in no team.                                        *)
CannotJoin(q) ==
  /\ changes < MaxChanges /\ changes' = changes + 1
  /\ logins[q].at = "team"
  /\ exempt' = exempt \cup {logins[q].user}
  /\ Goto(q, "unjoined")
  /\ UNCHANGED <<product_teams, deleted, users, email>>

(* The last lookup; without a row, identity_from_user fails.                 *)
FindAgain(q) ==
  /\ logins[q].at = "again"
  /\ LET found == {u \in OfPerson(Person(q)) : users[u].email = Email(q)} IN
     \/ \E u \in found : Answer(q, u)
     \/ found = {} /\ Goto(q, "refused")
  /\ UNCHANGED <<rest, users, exempt>>

Die(q) ==
  /\ changes < MaxChanges /\ changes' = changes + 1
  /\ logins[q].at \in {"both", "login", "update", "create", "team", "again"}
  /\ exempt' = IF logins[q].at = "team" THEN exempt \cup {logins[q].user} ELSE exempt
  /\ logins' = [logins EXCEPT ![q] = Idle]
  /\ UNCHANGED <<product_teams, deleted, users, email>>

(* The request is served in the name of the identity, and is over.           *)
Close(q) ==
  /\ logins[q].at \in {"answered", "refused", "unjoined"}
  /\ logins' = [logins EXCEPT ![q] = Idle]
  /\ UNCHANGED <<rest, users, exempt>>

-----------------------------------------------------------------------------
(* What administrators do, each a request of one transaction.                *)
Change ==
  /\ changes < MaxChanges /\ changes' = changes + 1
  /\ logins' = Disturbed
OnlyUsers == UNCHANGED <<product_teams, deleted, email>>

(* POST /users. One that gives another state is this, then a PUT.            *)
CreateUser(name, sso, address) ==
  LET row == NewRow(name, sso, None, address) IN
  /\ Change
  /\ Clashes(row) = {}
  /\ users' = With(NewId, row) /\ exempt' = exempt \cup {NewId}
  /\ OnlyUsers

(* PUT /users/{id} looks the row up by its etag alone: one that was deleted  *)
(* may come back, with the teams it had. The sub is written in any case: a   *)
(* body without one means null.                                              *)
PutUser(u, name, address, sub, state) ==
  LET row == [users[u] EXCEPT !.name = name, !.email = address, !.sso_sub = sub,
                              !.state = state] IN
  /\ Change
  /\ Clashes(row) \subseteq {u} /\ row # users[u]
  /\ users' = With(u, row)
  /\ OnlyUsers /\ UNCHANGED exempt

(* How many of the other columns it changes.                                 *)
Changed(row, name, address, state) ==
  Cardinality({c \in {<<"name", name>>, <<"email", address>>, <<"state", state>>} :
                 row[c[1]] # c[2]})

DeleteUser(u) ==
  /\ Change
  /\ IsLive(u)
  /\ users' = [users EXCEPT ![u].state = "archived"]
  /\ OnlyUsers /\ UNCHANGED exempt

PurgeUsers ==
  /\ Change
  /\ users' = [u \in {i \in DOMAIN users : IsLive(i)} |-> users[u]]
  /\ OnlyUsers /\ UNCHANGED exempt

AddUserToTeam(u, team) ==
  /\ Change
  /\ IsLive(u) /\ team \notin users[u].teams
  /\ users' = [users EXCEPT ![u].teams = @ \cup {team}]
  /\ OnlyUsers /\ UNCHANGED exempt

RemoveUserFromTeam(u, team) ==
  /\ Change
  /\ IsLive(u) /\ team \in users[u].teams
  /\ users' = [users EXCEPT ![u].teams = @ \ {team}]
  /\ exempt' = IF team = RedHat THEN exempt \cup {u} ELSE exempt
  /\ OnlyUsers

AddTeamToProduct(p, team) ==
  /\ Change
  /\ p \notin deleted /\ <<p, team>> \notin product_teams
  /\ product_teams' = product_teams \cup {<<p, team>>}
  /\ UNCHANGED <<users, deleted, email, exempt>>

DeleteTeamFromProduct(p, team) ==
  /\ Change
  /\ p \notin deleted /\ <<p, team>> \in product_teams
  /\ product_teams' = product_teams \ {<<p, team>>}
  /\ UNCHANGED <<users, deleted, email, exempt>>

DeleteProduct(p) ==
  /\ Change
  /\ p \notin deleted
  /\ deleted' = deleted \cup {p}
  /\ UNCHANGED <<users, product_teams, email, exempt>>

(* The identity provider gives the person another email.                     *)
ChangeEmail(p, address) ==
  /\ Change
  /\ \A k \in Persons : email[k] # address
  /\ email' = [email EXCEPT ![p] = address]
  /\ UNCHANGED <<users, product_teams, deleted, exempt>>

-----------------------------------------------------------------------------
Init ==
  /\ product_teams = FirstLinks
  /\ deleted = {}
  /\ users = [u \in {} |-> u]
  /\ email = FirstEmail
  /\ logins = [q \in Logins |-> Idle]
  /\ changes = 0 /\ exempt = {}

Step(q) ==
  \/ FindWithEmail(q) \/ FindWithLogin(q) \/ UpdateEmail(q) \/ Create(q)
  \/ JoinTeam(q) \/ FindAgain(q) \/ Close(q)

Administer ==
  \/ \E name \in Persons, sso \in Persons \cup {None}, address \in Emails :
       sso \in {name, None} /\ CreateUser(name, sso, address)
  \/ \E u \in DOMAIN users, name \in Persons, address \in Emails,
        sub \in Subs \cup {None}, state \in States :
       /\ Changed(users[u], name, address, state) <= MaxNamed
       /\ PutUser(u, name, address, sub, state)
  \/ \E u \in DOMAIN users : DeleteUser(u)
  \/ PurgeUsers
  \/ \E u \in DOMAIN users, team \in Teams :
       AddUserToTeam(u, team) \/ RemoveUserFromTeam(u, team)
  \/ \E p \in Products, team \in Teams :
       AddTeamToProduct(p, team) \/ DeleteTeamFromProduct(p, team)
  \/ \E p \in Products : DeleteProduct(p)
  \/ \E p \in Persons, address \in Emails : ChangeEmail(p, address)

Next ==
  \/ \E q \in Logins : Step(q) \/ CannotJoin(q) \/ Die(q)
  \/ \E q \in Logins, p \in Persons : \E sub \in SubsOf[p] : Login(q, p, sub)
  \/ Administer

Spec == Init /\ [][Next]_vars

(* A request that is served goes on, and a person who is not logged in tries *)
(* again.                                                                    *)
FairSpec ==
  /\ Spec
  /\ \A q \in Logins : WF_vars(Step(q))
  /\ \A p \in Persons : SF_vars(\E q \in Logins, sub \in SubsOf[p] : Login(q, p, sub))

-----------------------------------------------------------------------------
Stages == {"both", "login", "update", "create", "team", "again",
           "answered", "refused", "unjoined"}

TypeOK ==
  /\ DOMAIN users \subseteq Accounts
  /\ \A u \in DOMAIN users :
       /\ users[u].name \in Persons /\ users[u].sso_username \in Persons \cup {None}
       /\ users[u].sso_sub \in Subs \cup {None}
       /\ users[u].email \in Emails /\ users[u].state \in States
       /\ users[u].teams \subseteq Teams
  /\ email \in [Persons -> Emails]
  /\ \A q \in Logins : logins[q] = Idle \/
       /\ logins[q].at \in Stages /\ logins[q].person \in Persons
       /\ logins[q].email \in Emails /\ logins[q].sub \in Subs \cup {None}
       /\ logins[q].user \in Accounts \cup {None}
  /\ \A u, k \in DOMAIN users : u # k =>
       /\ users[u].name # users[k].name /\ users[u].email # users[k].email
       /\ users[u].sso_username = users[k].sso_username => users[u].sso_username = None
       /\ users[u].sso_sub = users[k].sso_sub => users[u].sso_sub = None
  /\ product_teams \subseteq Products \X Teams /\ deleted \subseteq Products
  /\ changes \in 0..MaxChanges /\ exempt \subseteq Accounts

(* A login alone is refused only for another account: one that has the name, *)
(* the email or the sub of the token, or the person's own once it is         *)
(* inactive or archived. (A login that found no team to join is "unjoined".) *)
HasRival(p, address, sub) ==
  \E u \in DOMAIN users \ OfPerson(p) :
    \/ users[u].email = address
    \/ /\ OfPerson(p) = {}
       /\ \/ p \in {users[u].name, users[u].sso_username}
          \/ sub # None /\ users[u].sso_sub = sub

RefusedForARival ==
  \A q \in Logins : logins[q].at = "refused" /\ logins[q].alone =>
    HasRival(Person(q), Email(q), Sub(q))

(* The account a login creates for a read-only person is in the team of the  *)
(* read-only users, or its login is about to add it. It never will be when   *)
(* the login dies between the two commits or the second of them fails: no    *)
(* later login adds it.                                                      *)
CreatedReadOnlyIsInTeam ==
  \A u \in DOMAIN users :
    users[u].sso_username \in ReadOnly /\ u \notin exempt =>
      \/ RedHat \in users[u].teams
      \/ \E q \in Logins : logins[q].at = "team" /\ logins[q].user = u

(* Whatever the lists show an answered identity, with any X-Dci-Team-Id, the *)
(* handlers of one row let it read.                                          *)
Served(q) ==
  {IdentityFromUser(logins[q].teams, scope) :
     scope \in {s \in Teams \cup {None} : ~IsScopeRefused(logins[q].teams, s)}}

ListedIsReadable ==
  \A q \in Logins : logins[q].at = "answered" =>
    \A user \in Served(q) : \A thing \in Sees(user) : CanRead(user, thing)

(* Narrowing a request to a team never shows more than the user sees.        *)
ScopeShowsNoMore ==
  \A q \in Logins : logins[q].at = "answered" =>
    \A user \in Served(q) : Sees(user) \subseteq Sees(IdentityFromUser(logins[q].teams, None))

(* A person who keeps trying is logged in again and again, unless from some  *)
(* time on every try meets an account that keeps the name, the email or the  *)
(* sub of its token: a lost race with another login of the same person, or a *)
(* login that died, does not lock out.                                       *)
EventuallyLoggedIn ==
  \A p \in Persons :
    \/ []<>(\E q \in Logins : logins[q].at = "answered" /\ Person(q) = p)
    \/ <>[](\A q \in Logins : logins[q] # Idle /\ Person(q) = p =>
             HasRival(p, email[p], Sub(q)))
=============================================================================
