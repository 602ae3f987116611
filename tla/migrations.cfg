\* Old and new code beside an upgrade and a downgrade.  Liveness is checked
\* without symmetry.
SPECIFICATION Spec
CONSTANTS
    User = {u1, u2}
    Payload = {a, b}
    Request = {p1, p2}
    MaxTime = 3
    Null = Null
    NoTx = NoTx
INVARIANTS
    TypeOK
PROPERTIES
    UpgradeKeepsDrafts
    DowngradeKeepsNewest
    MigrationEnds
