CONSTANTS
    Label = {l1, l2}
    Opaque = Opaque
SYMMETRY Symmetric
SPECIFICATION Spec
INVARIANTS
    TypeOK
    PassesSettle
    DepsFollowImports
    UsersEntriesSurvive
    EveryEntryAccounted
