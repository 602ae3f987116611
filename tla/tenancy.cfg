\* Any interleaving of two requests, whatever the admins ask for.
SPECIFICATION Spec
CONSTANTS
    User = {root, u1, u2}
    Organisation = {o1, o2}
    Report = {r1}
    FirstAdmin = root
    Request = {p1, p2}
    MaxRequests = 6
    NoRow = NoRow
    NoOrg = NoOrg
    Nobody = Nobody
    NoTx = NoTx
INVARIANTS
    TypeOK
    OneOrganisationPerOwner
    OwnersSeeTheirMembers
    OneOwner
    ConvertedReportsBelong
PROPERTIES
    StampIsFinal
    OwnersActWithinTheirTenant
SYMMETRY Symmetry
