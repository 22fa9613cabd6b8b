SPECIFICATION Spec
CONSTANTS
    Namespaces <- MCNamespaces
    Names <- MCNames
    Resources <- SharedKey
    Configs <- AllModes
    MaxCooldown = 2
    NoPatch = NoPatch
    NoResource = NoResource
INVARIANTS
    TypeOK
    NoLostWakeup
    RequeueMatchesCooldown
    PatchInScope
    EveryAnalysisConcluded
PROPERTIES
    CooldownHonoured
    ImplementsRemediation
