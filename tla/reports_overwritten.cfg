\* Each edit is sent after the response of the one before.
SPECIFICATION Spec
CONSTANTS
    Report = {r1}
    Request = {p1, p2}
    org = org
    Actor = {owner}
    Admin = {}
    OrgOwner = {owner}
    OrgOf <- MCOrgOf
    NoOrg = NoOrg
    CaseId = {c1}
    Data = {d1, d2}
    MaxVersion = 3
    MaxEdits = 2
    Clients = "await_reply"
    NoRow = NoRow
    NoTx = NoTx
    Absent = Absent
    Partial = Partial
    Torn = Torn
PROPERTIES
    NeverOverwritten
