SPECIFICATION Spec
CONSTANTS
    p1 = p1
    p2 = p2
    web = web
    Clients = {p1, p2}
    Resources = {web}
    Settings <- MCSettings
    MaxBackoff = 1
    Cooldowns = {1}
    MaxCooldown = 1
    NoResource = NoResource
    Nobody = Nobody
INVARIANTS
    TypeOK
    RequestsBounded
    CallTimeBounded
PROPERTIES
    AskedAgainByOthersOnly
    WorkerReturns
