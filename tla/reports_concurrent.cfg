\* Any interleaving of two requests: an organisation owner and a member.
SPECIFICATION Spec
CONSTANTS
    Report = {r1}
    Request = {p1, p2}
    org = org
    Actor = {owner, member}
    Admin = {}
    OrgOwner = {owner}
    OrgOf <- MCOrgOf
    NoOrg = NoOrg
    CaseId = {c1}
    Data = {d1, d2}
    MaxVersion = 2
    MaxEdits = 2
    Clients = "concurrent"
    NoRow = NoRow
    NoTx = NoTx
    Absent = Absent
    Partial = Partial
    Torn = Torn
INVARIANTS
    TypeOK
    PublishedPdfExists
    OriginalPdfKept
    AuditExplainsHistory
PROPERTIES
    IdentityIsStable
SYMMETRY Symmetry
