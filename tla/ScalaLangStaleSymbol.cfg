CONSTANTS
    NoSymbol = NoSymbol
    Absent = Absent
    Name <- MCName
    Label <- MCLabel
    Pkg <- MCPkg
    Walk <- MCWalk
    PkgOf <- MCPkgOf
    Buildable <- MCBuildable
    LabelOrder <- MCLabelOrder
    Source <- MCSource
    Key = {NoKey}
    NoKey = NoKey
    Defines <- MCDefines
    InitialDisk <- MCPairDisk
    EditsDuringRun = FALSE
    MayDie = FALSE
    MaxRuns = 2
    MaxEdits = 1
SPECIFICATION Spec
CHECK_DEADLOCK FALSE
INVARIANT NoStaleProvider
