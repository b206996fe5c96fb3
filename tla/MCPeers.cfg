CONSTANTS
    alice = alice
    ip = ip
    p = p
    http1 = http1
    http2 = http2
    c1 = c1
    c2 = c2
    Ips = {ip}
    HttpHandlers = {http1, http2}
    Signed <- Beats
    EpochLength = 2
    Freshness = 1
    Limit = 2
    Window = 2
    MaxTime = 7
    MaxGossiped = 2
    Links = {c1, c2}
    Peers = {p}
    BanFor = 1
    MaxReports = 11
SPECIFICATION MCSpec
CHECK_DEADLOCK FALSE
INVARIANTS
    WindowBound
    ReplayBounded
    EpochCounts
    PeerCountBounds
    BansEarned
