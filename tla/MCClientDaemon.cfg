SPECIFICATION Spec
CONSTANTS
    Names = {a}
    Ids = {i1, i2}
    Requests = {q1, q2}
    Enrolled = {TRUE, FALSE}
    MaxRevision = 2
    SaveMayFail = TRUE
    MaxQueue = 2
    None = None
INVARIANTS PoolIsSound PoolMatchesPolicy
PROPERTY RollbacksAreLostUpdates
SYMMETRY Symmetry
