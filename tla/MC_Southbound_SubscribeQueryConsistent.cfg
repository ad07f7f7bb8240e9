CONSTANTS
    Procs = {p1, p2}
    Targets = {t1, t2}
    Keys <- MCKeys
    Addrs <- MCAddrs
    Secs <- MCSecs
    Devices <- MCDevices
    MaxClients = 3
    NULL = NULL
SPECIFICATION Spec
INVARIANT SubscribeQueryConsistent
