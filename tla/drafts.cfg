\* Any interleaving of two requests of two users.
SPECIFICATION Spec
CONSTANTS
    Draft = {d1, d2, d3, d4}
    User = {u1, u2}
    Request = {p1, p2}
    Payload = {"empty", "text", "big"}
    TooLarge = {"big"}
    EmptyPayload = "empty"
    MaxPerUser = 2
    MaxTime = 4
    NoDraft = NoDraft
    NoTx = NoTx
    Omitted = Omitted
INVARIANTS
    TypeOK
    CapHolds
PROPERTIES
    OwnerOnly
    GoneStaysGone
    AutosaveCreatesOnlyTheFirst
SYMMETRY Symmetry
