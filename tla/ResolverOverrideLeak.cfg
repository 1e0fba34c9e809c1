CONSTANTS
    None = None
    Pkg <- MCPkg
    Import <- MCImport
    Label <- MCLabel
    Trim <- MCTrim
    Overrides <- MCOnePackage
    InScope <- MCInScope
    InIndex <- MCInIndex
    InPackages <- MCInPackages
SPECIFICATION Spec
INVARIANT MemoTransparent
