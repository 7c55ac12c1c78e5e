SPECIFICATION FairSpec
CONSTANTS
    l1 = l1
    l2 = l2
    r1 = r1
    r2 = r2
    Local = {l1, l2}
    Remote = {r1, r2}
    Flows <- ThreeFlows
    None = None
    max_connections = 2
    SendBuffer = 1
    ServerConns = 1
    ServerBuffer = 1
    MaxClients = 1
    LinkCap = 1
    MaxSubmits = 4
INVARIANTS TypeOK SocksOrTimer TreesAgree ServerTable PeersAreKept OwnAnswer
PROPERTIES ServiceReturns
CHECK_DEADLOCK FALSE
