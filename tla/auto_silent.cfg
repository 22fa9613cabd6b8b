SPECIFICATION Spec
CONSTANTS
    Namespaces <- MCNamespaces
    Names <- MCNames
    Resources <- TwoNamespaces
    Configs <- AutoOnly
    MaxCooldown = 2
    NoPatch = NoPatch
    NoResource = NoResource
INVARIANT
    AutomaticIsAnnounced
