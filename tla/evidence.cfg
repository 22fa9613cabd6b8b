SPECIFICATION RequestSpec
CONSTANTS
    Cases <- MCCases
    MaxLines = 2
    PodCap = 3
    PromptRecent = 4
    PromptHistory = 9
    PromptNodes = 2
    Root = "spec"
INVARIANTS
    TypeOK
    NothingDroppedInSilence
    LinesUnderTheirPod
    NodesCovered
    PlacesRedacted
PROPERTY
    CrashLoopIsCaught
