\* One owner; a receive thread.
CONSTANTS
    App = {o}
    Rx = {r}
    Owners = {o}
    Users = {r}
    NoThread = NoThread
    Handles = {usb1, usb2}
    Configs <- Reading
    MaxAttempts = 3
    Asserts = TRUE
    o = o
    r = r
    usb1 = usb1
    usb2 = usb2
SPECIFICATION Spec
INVARIANTS AssertionsHold
