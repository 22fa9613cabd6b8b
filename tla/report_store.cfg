SPECIFICATION Spec
CONSTANTS
    pod = pod
    deployment = deployment
    Kinds <- BothKinds
    Names = {web}
    NoWorkload = NoWorkload
    MaxRequests = 3
    MaxMail = 1
    MaxKept = 2
    Threads = 2
    Quoting = {1}
    Malformed = {3}
SYMMETRY Alike
CONSTRAINT FewPatches
INVARIANTS
    TypeOK
    RingBounded
    RecentKept
    StepsAreEarned
    ScanMissesNothing
PROPERTY
    ImplementsLedger
