SPECIFICATION Spec
CONSTANTS
    u1 = u1  u2 = u2  m1 = m1  a1 = a1  e1 = e1  e2 = e2
    c1 = c1  c2 = c2  w1 = w1  w2 = w2  None = None
    Users = {u1, u2}
    Municipalities = {m1}
    Alerts = {a1}
    Endpoints = {e1}
    Contents = {c1}
    Dispatchers = {w1, w2}
    Outcomes = {"ok", "gone", "bad", "blocked", "retry"}
    MaxAttempts = 2
    BackoffCap = 1
    BatchLimit = 1
    MaxLeft = 1
    Retention = 0
    MaxCrashes = 1
SYMMETRY Symmetry
INVARIANTS TypeOK OneTransaction InFlightToOwner DeliveryOwned
PROPERTIES SettledStays StartsAuthorised
