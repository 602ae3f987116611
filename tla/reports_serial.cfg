\* Edits of a report separated by their commits.  Three requests: an edit,
\* with a deletion and a download, or two deletions, beside it.
SPECIFICATION Spec
CONSTANTS
    Report = {r1}
    Request = {p1, p2, p3}
    org = org
    Actor = {owner}
    Admin = {}
    OrgOwner = {owner}
    OrgOf <- MCOrgOf
    NoOrg = NoOrg
    CaseId = {c1, c2}
    Data = {d1, d2}
    MaxVersion = 3
    MaxEdits = 2
    Clients = "await_commit"
    NoRow = NoRow
    NoTx = NoTx
    Absent = Absent
    Partial = Partial
    Torn = Torn
INVARIANTS
    PdfMatchesRow
    DownloadIsFaithful
PROPERTIES
    PublishesHistory
SYMMETRY Symmetry
