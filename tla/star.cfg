CONSTANTS
    Macs <- MCMacs
    Ips <- MCIps
    ZeroMac = "zero"
    StrKey <- MCStrKey
    Conns = {"c1", "c2"}
    WeightMod = 8
    MyInfo <- MCMyInfo
    Timer = "timer"
    NoThread = "none"
    Hello <- MCHello
    Flood <- MCFlood
    Peer <- MCPeer
    LinkTimeout = 0
    MaxTime = 1
    MaxAlloc = 6
    MaxSize = 4
SPECIFICATION Spec
INVARIANTS LockOwned NoSpin ListInTable ListedOnce RouteIsDirect SizeCoversList
