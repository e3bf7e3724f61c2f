\* One owner; the receive thread and its callback are the ones that transfer.
CONSTANTS
    App = {o}
    Rx = {r1, r2}
    Owners = {o}
    Users = {r1, r2}
    NoThread = NoThread
    Fds = {f1, f2}
    NoFd = NoFd
    Configs <- FewConfigs
    o = o
    r1 = r1
    r2 = r2
    f1 = f1
    f2 = f2
SPECIFICATION FairSpec
INVARIANTS SocketOwned ReaderOwnsDescriptor OpenMeansReading
PROPERTIES StopEnds HealthRecovers ImplementsContract
