SPECIFICATION Spec
CONSTANTS
    Patches <- SomePatches
    Kinds = {"Deployment", "Pod"}
    Original <- AppContainer
PROPERTY
    OnlyAllowedChanges
INVARIANT
    TemplateKeepsAllowed
