SPECIFICATION ServerSpec
CONSTANTS
    Launchers = {l1}
    Detached = {s1, s2, s3}
    Nobody = Nobody
    Commands = {"serve", "stop"}
    MaxCrashes = 0
    MaxInterrupts = 0
INVARIANT OneServer
CHECK_DEADLOCK FALSE
