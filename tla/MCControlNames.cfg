SPECIFICATION Spec
CONSTANTS
    ClientKeys = {c1, c2}
    EdgeKeys = {e1, e2}
    RelayKeys = {}
    ClientNames = {a, b}
    EdgeNames = {x}
    RelayNames = {}
    Urls = {}
    QadPorts = {}
    Provisioners = {p1}
    ProvisionerNames = {m}
    RequestIds = {q1, q2}
    Ttls = {1}
    Lifetime = 2
    RenewBefore = 1
    Retention = 1
    MaxInvites = 4
    MaxWaiting = 1
    MaxRevision = 8
    MaxTime = 0
    None = None
INVARIANT TopologyIsSound
 
SYMMETRY NodeSymmetry
