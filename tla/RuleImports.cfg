CONSTANTS
    Imp <- MCNames
    ResolveWith <- MCResolveWith
    DirectImports <- MCDirectImports
    NoLabel = "none"
    GrpcLabel = {"grpc"}
    ZioLabel = {"zio"}
    ProtoLabel = {"proto"}
    ZioName <- MCZioName
    ServiceName <- MCServiceName
    Preferred <- MCPreferred
    Begins <- MCBegins
    Segment <- MCSegment
    Workspaces <- MCWorkspaces
    Override <- MCOverride
    FixWildcards <- MCFixWildcards
    FixedTo <- MCFixedTo
SPECIFICATION FairRuleSpec
CHECK_DEADLOCK FALSE
INVARIANTS
    IncludedTransitively
    UsesAreDeps
    UseDecides
    ExportsAreDeps
PROPERTY RuleSettles
