\* One owner, and another application thread sends and receives at will beside
\* the receive thread.
CONSTANTS
    App = {o, u}
    Rx = {r}
    Owners = {o}
    Senders = {u, r}
    Receivers = {u, r}
    Fds = {f1, f2, f3}
    NoFd = NoFd
    NoRx = NoRx
    Configs <- BothRoles
    o = o
    u = u
    r = r
    f1 = f1
    f2 = f2
    f3 = f3
SPECIFICATION Spec
INVARIANTS DescriptorsOwned HandleNeverDangles
