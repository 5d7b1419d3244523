SPECIFICATION FairSpec
CONSTANTS
    Clients = {k1, k2}
    Conns = {c1, c2, c3}
    Modes = {"strict", "tofu", "managed"}
    MaxHandshakes = 2
    MaxRevision = 3
    None = None
INVARIANTS ConnectionsAreTracked ServedAreAuthorized OneClientForever
PROPERTY MapsArrive
