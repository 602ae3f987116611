\* Any interleaving of two requests and commands.
SPECIFICATION Spec
CONSTANTS
    User = {u1, u2, u3}
    Organisation = {o1, o2}
    Address = {"ann", "Ann", "bob"}
    Folded <- MCFolded
    Name = {n1, n2}
    Request = {p1, p2}
    MaxRequests = 6
    NoRow = NoRow
    NoTx = NoTx
INVARIANTS
    TypeOK
    NoHalfOrganisation
SYMMETRY Symmetry
