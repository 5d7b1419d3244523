SPECIFICATION Spec
CONSTANTS
    Runs = {p1, p2}
    Programs <- MCPrograms
    Aliases = {a, b}
    Targets = {t1, t2}
    AliasOf <- MCAliasOf
    Custom = Custom
    None = None
    a = a
    t1 = t1
    t2 = t2
INVARIANTS OwnershipIsSound FinishedSyncInstalled
PROPERTY HandwrittenEntriesSurvive
SYMMETRY RunSymmetry
