\* Two operations and a download, on two workers with two connections each.
\* Liveness is checked without symmetry.
SPECIFICATION Spec
CONSTANTS
    Request = {p1, p2, p3}
    Reader = {p3}
    Worker = {w1, w2}
    PoolSize = 2
    member = member
    org = org
    Account = {member, admin}
    Admin = {member, admin}
    Report = {r1}
    Organisation = {org}
    Token = {k1}
    Draft = {d1}
    OwnerOf <- MCOwnerOf
    AuthorOf <- MCAuthorOf
    OrgOf <- MCOrgOf
    None = None
INVARIANTS
    TypeOK
    OnlyAccountsDeadlock
PROPERTIES
    LightRequestsEnd
    EveryRequestEnds
