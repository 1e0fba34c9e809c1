CONSTANTS
    Empty = Empty
    Dir <- MCDir
    Order <- MCOrder
    Parent <- MCParent
    Item <- MCManyItems
    ConfigNames <- MCConfigNames
    Expr <- MCExpr
    Matches <- MCMatches
    Workspaces <- MCSiblingWorkspaces
SPECIFICATION PackageSpec
CHECK_DEADLOCK FALSE
INVARIANT ListAsMeant
