SPECIFICATION Spec
CONSTANTS
    Namespaces <- OneNamespace
    Names <- OneName
    Resources <- SharedKey
    Configs <- Plain
    MaxCooldown = 1
    NoPatch = NoPatch
    NoResource = NoResource
PROPERTY
    EveryKindIsTakenUp
