SPECIFICATION Spec
CONSTANTS
    Names = {a}
    Ids = {i1}
    Requests = {}
    Enrolled = {TRUE}
    MaxRevision = 2
    SaveMayFail = FALSE
    MaxQueue = 1
    None = None
INVARIANT RevocationDisconnects
SYMMETRY Symmetry
