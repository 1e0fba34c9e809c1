CONSTANTS
    Empty = Empty
    Dir <- MCDir
    Order <- MCOrder
    Parent <- MCParent
    Item <- MCItem
    ConfigNames <- MCConfigNames
    Expr <- MCExpr
    Matches <- MCMatches
    Workspaces <- MCWorkspaces
SPECIFICATION PackageSpec
CHECK_DEADLOCK FALSE
INVARIANTS
    ConfigureObeysDirectives
    RulesConfiguredAsMeant
    PackageAccounted
    AggregatesComplete
PROPERTY ParentKept
