SPECIFICATION Spec
CONSTANTS
    p1 = p1  p2 = p2  r1 = r1  r2 = r2  None = None
    Families = {"map"}
    Processes = {p1}
    Requests = {r1}
    MaxRuns = 2
    MaxSecond = 2
INVARIANT IngestionInvalidates
