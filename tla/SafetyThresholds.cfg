\* A thread that sends and receives beside one that monitors; the thresholds
\* of the code.
CONSTANTS
    Recorders = {io}
    Monitors = {monitor}
    DegradedThreshold = 3
    FailsafeThreshold = 5
    EmergencyThreshold = 10
    MaxConsecutiveErrors = 5
    io = io
    monitor = monitor
SPECIFICATION Spec
INVARIANTS ThresholdsAsNamed
