\* One worker process, replaced once, behind a proxy it trusts and reached
\* directly.
SPECIFICATION Spec
CONSTANTS
    Worker = {w1}
    Address = {"proxy", "home"}
    TrustedProxy = {"proxy"}
    NoHeader = NoHeader
    MaxAttempts = 2
    Window = 2
    MaxTime = 3
    MaxRestarts = 1
INVARIANTS
    TypeOK
    WindowIsBounded
    BucketIsTheWindow
