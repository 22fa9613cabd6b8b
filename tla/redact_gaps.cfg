SPECIFICATION RequestSpec
CONSTANTS
    Cases <- GapCases
    MaxLines = 2
    PodCap = 3
    PromptRecent = 4
    PromptHistory = 9
    PromptNodes = 2
    Root = "spec"
INVARIANT NoSecretLeaves
