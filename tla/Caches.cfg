SPECIFICATION CachesSpec
CONSTANTS
    r1 = r1  r2 = r2  hot = hot    sum = sum  det = det  riv = riv  riv2 = riv2  None = None
    e1 = e1  e2 = e2  w1 = w1  w2 = w2  ip1 = ip1  c1 = c1  c2 = c2  Blank = Blank
    \* SourceCache
    Requests = {r1, r2}
    HotspotKeys = {hot}
    SummaryKeys = {sum}
    AlertKeys = {det}
    RiverKeys = {riv, riv2}
    TTL = 2
    COPY_TTL = 1
    FALLBACK_TTL = 3
    PARTIAL_TTL = 1
    FAILURE_TTL = 1
    COOLDOWN = 1
    Patience = 1
    \* Accounts
    Emails = {e1, e2}
    Passwords = {w1, w2}
    Ips = {ip1}
    Calls = {c1, c2}
    WindowSeconds = 2
    AccountLimit = 1
    IpLimit = 2
    FreeFailures = 0
    LockLadder <- MCLockLadder
    FailureTTL = 4
    MaxEntries = 3
    SessionSeconds = 1
    MaxSessions = 2
    MaxAccounts = 2
    MaxSeconds = 2
INVARIANTS AgesAreBounded RefusalHasCause
    SessionsAreSound HashesPerAddress
PROPERTIES TouchesOwnAccount LockStands
SYMMETRY Symmetry
