SPECIFICATION Spec
CONSTANTS
    Clis = {c1, c2}
    Versions = {v1, v2}
    Names = {n1}
    Ports = {p1}
    MaxCommands = 3
    MaxPolls = 1
    MaxFaults = 1
    None = None
    c1 = c1
    c2 = c2
    v1 = v1
    v2 = v2
    Menu <- MCMenu
INVARIANTS
    ResourcesAreOwned
    
    ProxiesKeepTheDaemon
    ChangesAreReloaded
PROPERTIES
    CommandsFinish
    OnlyProxiesKeepTheDaemon
CHECK_DEADLOCK FALSE
