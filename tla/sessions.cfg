\* Any interleaving of two requests; one of the two accounts owns the
\* organisation.
SPECIFICATION Spec
CONSTANTS
    User = {u1, u2}
    org = org
    Organisation = {org}
    OrgOf <- MCOrgOf
    OrgOwner = {u2}
    NoOrg = NoOrg
    Token = {k1, k2, k3}
    Request = {p1, p2}
    MaxChanges = 1
    Nobody = Nobody
    NoToken = NoToken
    NoTx = NoTx
INVARIANTS
    TypeOK
    RotationSpends
    DeletionRevokes
    SingleUseInTurn
    SessionsKnowThePassword
PROPERTIES
    DeadStaysDead
    OrgDeletionRevokes
SYMMETRY Symmetry
