SPECIFICATION Spec
CONSTANTS
    p1 = p1
    p2 = p2
    web = web
    Clients = {p1}
    Resources = {web}
    Settings <- OneSetting
    MaxBackoff = 1
    Cooldowns = {1}
    MaxCooldown = 1
    NoResource = NoResource
    Nobody = Nobody
PROPERTY
    NotReanalysed
