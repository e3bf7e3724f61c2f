\* One application thread manages the transport, unless its monitor may
\* re-bind it; another one and the callback use it.
CONSTANTS
    App = {o, u}
    Rx = {r}
    Hm = {h}
    Owners = {o}
    Users = {u, r}
    NoThread = NoThread
    Configs <- AllConfigs
    ManagesRebinding = FALSE
    o = o
    u = u
    r = r
    h = h
SPECIFICATION FairSpec
INVARIANTS NoTerminate ClosedIsQuiet OpenMeansReading
PROPERTIES ImplementsContract RebindReopens
