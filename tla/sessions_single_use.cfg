\* Any interleaving of two requests about one account.
SPECIFICATION Spec
CONSTANTS
    User = {u1}
    org = org
    Organisation = {org}
    OrgOf <- MCOrgOf
    OrgOwner = {}
    NoOrg = NoOrg
    Token = {k1, k2, k3}
    Request = {p1, p2}
    MaxChanges = 0
    Nobody = Nobody
    NoToken = NoToken
    NoTx = NoTx
INVARIANTS
    SingleUse
SYMMETRY Symmetry
