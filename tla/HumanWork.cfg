SPECIFICATION MCSpec
CONSTANTS
    Servers = {s1, s2}
    NoServer = NoServer
    Writers = {w1, w2}
    Packets = {p1, p2}
    NoPacket = NoPacket
    Reviewers = {1, 2}
    SafeName <- OneName
    Verdicts = {"SATISFIED"}
    ImportTimes = {0, 2}
    MaxClock = 3
    Skew = 1
    Operators = {o1, o2}
    o1 = o1
    Processes = {p3, p4}
    NoProcess = NoProcess
    Clients = {c1, c2}
    MaxPosts = 1
    MaxKills = 1
    Launchers = {l1}
    Detached = {s3, s4, s5}
    Nobody = Nobody
    Commands = {"serve", "open", "status", "stop"}
    MaxCrashes = 1
    MaxInterrupts = 1
SYMMETRY Symmetry
INVARIANT AnsweredIntact
INVARIANT AnsweredIsCounted
INVARIANT ServingIsFindable
INVARIANT WorkbenchFindable
INVARIANT AppliedOnce
CHECK_DEADLOCK FALSE
