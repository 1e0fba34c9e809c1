CONSTANTS
    NoSymbol = NoSymbol
    Absent = Absent
    Name <- MCName
    Label <- MCLabel
    Pkg <- MCPkg
    Walk <- MCWalk
    PkgOf <- MCPkgOf
    Buildable <- MCBuildable
    LabelOrder <- MCLabelOrder
    Source <- MCSource
    Key = {NoKey, k1}
    NoKey = NoKey
    Defines <- MCDefines
    InitialDisk <- MCInitialDisk
    EditsDuringRun = FALSE
    MayDie = TRUE
    MaxRuns = 3
    MaxEdits = 2
SPECIFICATION Spec
CHECK_DEADLOCK FALSE
INVARIANTS
    TypeOK
    EndIsLast
    SecondPassAfterFirst
    ScopeKnowsGenerated
    AnalysisIsCurrent
    OtherKeyIgnored
PROPERTIES
    ParsedOnlyOnMiss
