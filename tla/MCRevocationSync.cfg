SPECIFICATION SyncSpec
CONSTANTS
    Kinds = {"client"}
    Keys = {k1}
    Lifetime = 2
    RenewBefore = 1
    MaxRevision = 4
    MaxTime = 3
    None = None
    Relays = {r1}
    Skews = {0, 1}
    MaxClockSkew = 1
INVARIANTS
    SyncIsSound RevokedAreRefused RevokedAreDisconnected TombstonesAreExact
