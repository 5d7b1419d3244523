SPECIFICATION FairSyncSpec
CONSTANTS
    Kinds = {"client"}
    Keys = {k1}
    Lifetime = 2
    RenewBefore = 1
    MaxRevision = 3
    MaxTime = 2
    None = None
    Relays = {r1}
    Skews = {0}
    MaxClockSkew = 1
PROPERTIES RevocationsArrive RemovedRelaysClose
