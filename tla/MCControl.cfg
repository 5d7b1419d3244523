SPECIFICATION Spec
CONSTANTS
    ClientKeys = {k1}
    EdgeKeys = {k1}
    RelayKeys = {r1, r2}
    ClientNames = {a}
    EdgeNames = {x}
    RelayNames = {n1}
    Urls = {u1, u2}
    QadPorts = {7842}
    Provisioners = {p1}
    ProvisionerNames = {m}
    RequestIds = {q1, q2}
    Ttls = {1}
    Lifetime = 2
    RenewBefore = 1
    Retention = 1
    MaxInvites = 2
    MaxWaiting = 1
    MaxRevision = 7
    MaxTime = 2
    None = None
INVARIANT TopologyIsSound
PROPERTIES ImplementsCredentials InvitesAreSpentOnce
SYMMETRY RelaySymmetry
