CONSTANTS
    None = None
    Pkg <- MCPkg
    Import <- MCImport
    Label <- MCLabel
    Trim <- MCTrim
    Overrides <- MCOverrides
    InScope <- MCInScope
    InIndex <- MCInIndex
    InPackages <- MCInPackages
SPECIFICATION Spec
INVARIANTS
    TypeOK
    RootOverridesHonoured
    AnswersMatchImport
    PassesAgree
