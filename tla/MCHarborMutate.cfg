SPECIFICATION MutateSpec
CONSTANTS
    Roots <- MCRoots
    Timeout = 3600000
    MaxRetries = 0
    Lateness = {36000000}
    CanRaise = {"discard"}
    Gone = Gone
INVARIANT ImportIsTransactional
CHECK_DEADLOCK FALSE
