CONSTANTS
    n1 = n1
    n2 = n2
    e1 = e1
    e2 = e2
    e3 = e3
    s1 = s1
    t1 = t1
    t2 = t2
    p1 = p1
    tp1 = tp1
    tp2 = tp2
    c1 = c1
    c2 = c2
    j1 = j1
    None = None
    Admin = Admin
    RedHat = RedHat
    Epm = Epm
    Teams = {Admin, RedHat, Epm, t1, t2}
    PreRelease = {t2}
    Shares <- MCShares
    Products = {p1}
    Topics <- MCTopics
    Components <- MCComponents
    Owned <- MCOwned
    Persons = {n1, n2}
    ReadOnly = {n1}
    Emails = {e1, e2, e3}
    FirstEmail <- MCFirstEmail
    Subs = {s1}
    SubsOf <- MCSubsOf
    FirstLinks <- MCFirstLinks
    Accounts = {u1, u2, u3, u4, u5}
    Logins = {q1, q2}
    MaxChanges = 2
    MaxNamed = 1
SPECIFICATION FairSpec
INVARIANTS
    RefusedForARival
    CreatedReadOnlyIsInTeam
    ListedIsReadable
    ScopeShowsNoMore
PROPERTIES
    EventuallyLoggedIn
