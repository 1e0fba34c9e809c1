CONSTANTS
    Used = {"A", "B", "lower"}
    Scannable = {"A", "B"}
    Texts <- MCTexts
    MaxRuns = 2
    Rule = {"a", "b"}
    KeepTarget = {"a", "a_testlib", "b"}
    RuleOf <- MCRuleOf
    Cache <- MCCache
    Table <- MCTable
    PlatformLabel = "none"
    KeepSymbol = {"T", "U", "V"}
    Dep = {"d2", "d4"}
    Files <- MCFiles
    MaxLines = 4
    Name = {"A", "B", "P", "Q", "G", "pa", "pp", "pm"}
    Label = {"none", "a", "b", "p", "q", "m1", "m2", "g1", "g2", "odd"}
    NoSymbol = NoSymbol
    Inputs <- MCInputs
    Flags <- MCFlags
    ParsedLabel <- MCParsedLabel
    Enabled <- MCEnabled
    LockFiles <- MCLockFiles
    RepoOf <- MCRepoOf
    Provided <- MCProvided
    ProtoRules = {"g1", "g2"}
    MergeInputs <- MCMergeInputs
    Rules <- MCRules
    MaxGazelle = 2
SPECIFICATION ToolsSpec
CHECK_DEADLOCK FALSE
INVARIANTS
    FileSurvives
    EditsAreReported
    PredefinedNeedsNoDep
    SemanticImportsTraced
PROPERTY RunStops
