CONSTANTS
    Macs <- MCMacs
    Ips <- MCIps
    ZeroMac = "zero"
    StrKey <- MCStrKey
    Conns = {"c1"}
    WeightMod = 8
    MyInfo <- MCMyInfo
    Timer = "timer"
    NoThread = "none"
    Hello <- MCHello
    Flood <- MCFloodEmpty
    Peer <- MCPeer
    LinkTimeout = 1
    MaxTime = 4
    MaxAlloc = 6
    MaxSize = 4
SPECIFICATION FairSpec
INVARIANTS SizeExact TableInList
PROPERTIES ChecksRecur SilentPeerForgotten ImplementsMembers
