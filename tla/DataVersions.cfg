SPECIFICATION Spec
CONSTANTS
    p1 = p1  p2 = p2  r1 = r1  r2 = r2  None = None
    Families = {"map", "socioeconomic", "political", "education", "transport"}
    Processes = {p1, p2}
    Requests = {r1}
    MaxRuns = 2
    MaxSecond = 2
INVARIANTS VersionedIsCurrent ElectionsAreExact
SYMMETRY Symmetry
