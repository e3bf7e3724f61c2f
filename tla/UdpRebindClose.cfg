\* One application thread manages the transport, unless its monitor may
\* re-bind it; another one and the callback use it.
CONSTANTS
    App = {o, u}
    Rx = {r}
    Hm = {h}
    Owners = {o}
    Users = {u, r}
    NoThread = NoThread
    Configs <- DefaultConfig
    ManagesRebinding = TRUE
    o = o
    u = u
    r = r
    h = h
SPECIFICATION Spec
INVARIANTS NoTerminate
