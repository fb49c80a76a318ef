CONSTANTS
    Macs <- MCMacs
    Ips <- MCIps
    ZeroMac = "zero"
    StrKey <- MCStrKey
    Conns = {"c1", "c2"}
    WeightMod = 8
    MyInfo <- MCMyInfo
    Timer = "timer"
    NoThread = "none"
    Hello <- MCHello
    Flood <- MCFlood
    Reported <- R
    LinkTimeout = 0
    MaxTime = 0
    MaxAlloc = 5
    MaxSize = 4
SPECIFICATION Spec
INVARIANTS SelfNeverMember
