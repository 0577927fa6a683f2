SPECIFICATION LocalSpec
CONSTANTS
    c1 = c1  c2 = c2  r1 = r1  r2 = r2  t1 = t1  t2 = t2  t3 = t3  t4 = t4  None = None
    Codes = {c1, c2}
    Variants = {"current"}
    Requests = {r1, r2}
    Tasks = {t1, t2}
    UseRedis = FALSE
    Freshnesses = {1}
    MIN_FRESHNESS_AFTER_FETCH = 1
    FORCE_MIN_AGE = 2
    MAX_DATA_AGE = 1
    MAX_FALLBACK_AGE = 1
    FUTURE_TOLERANCE = 0
    FETCH_CHUNK = 1
    OutagePause = 1
    RetryAfters = {1}
    ObservedAges = {0}
    Patience = 0
PROPERTY EveryRequestAnswered
INVARIANT FetchesAreShared
