SPECIFICATION Spec
CONSTANTS
    Patches <- SomePatches
    Kinds = {"Pod"}
    Original <- AppContainer
INVARIANT
    PodKeepsAllowed
