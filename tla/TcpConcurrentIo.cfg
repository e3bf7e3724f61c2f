\* One thread sends while another receives; nobody closes or reconfigures.
CONSTANTS
    App = {a, b}
    Rx = {}
    Owners = {}
    Senders = {a}
    Receivers = {b}
    Fds = {f1, f2}
    NoFd = NoFd
    NoRx = NoRx
    Configs <- ClientConfigs
    a = a
    b = b
    f1 = f1
    f2 = f2
SPECIFICATION ConnectedSpec
PROPERTIES DropOnlyFailed
