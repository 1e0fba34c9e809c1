CONSTANTS
    NoSymbol = NoSymbol
    Absent = Absent
    Name <- MCName
    Label <- MCLabel
    Pkg <- MCPkg
    Walk <- MCWalk
    PkgOf <- MCPkgOf
    Buildable <- MCBuildable
    LabelOrder <- MCLabelOrder
    Source <- MCSource
    Key = {NoKey}
    NoKey = NoKey
    Defines <- MCDefines
    InitialDisk <- MCInitialDisk
    EditsDuringRun = TRUE
    MayDie = FALSE
    MaxRuns = 1
    MaxEdits = 2
SPECIFICATION FairSpec
CHECK_DEADLOCK FALSE
PROPERTIES
    ImplementsSymbolTable
    EndIsReached
