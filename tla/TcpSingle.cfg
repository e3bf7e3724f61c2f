\* One owner; the receive thread is the only one that transfers data (its
\* callback may send, receive and reconnect).
CONSTANTS
    App = {o}
    Rx = {r1, r2}
    Owners = {o}
    Senders = {r1, r2}
    Receivers = {r1, r2}
    Fds = {f1, f2, f3}
    NoFd = NoFd
    NoRx = NoRx
    Configs <- AllConfigs
    o = o
    r1 = r1
    r2 = r2
    f1 = f1
    f2 = f2
    f3 = f3
SPECIFICATION FairSpec
INVARIANTS ClosedIsQuiet OpenMeansReading OneReceiveLoop NoTerminate HealthSeesLinkLoss
PROPERTIES DropOnlyFailed ReconnectReplacesNothing ImplementsContract StopEnds ClientReconnects
