SPECIFICATION ServicesSpec
CONSTANTS
    f1 = f1  f2 = f2  i1 = i1  i2 = i2  b1 = b1  s1 = s1  s2 = s2  j1 = j1  j2 = j2
    m1 = m1  m2 = m2  Null = Null  l1 = l1  l2 = l2
    v1 = v1  v2 = v2  r1 = r1  r2 = r2
    p1 = p1  t1 = t1
    NoFile = NoFile  Free = Free  Absent = Absent  NoValue = NoValue  None = None
    Components = {"tiles", "feeds", "stations", "elections", "series", "census", "totals", "summaries",
                  "sampling", "geography", "readings"}
    \* TransportTiles
    Files = {f1, f2}
    RowsOf <- MCRowsOf
    MarkOf <- MCMarkOf
    Importers = {i1, i2}
    Browsers = {b1}
    BatchSize = 1
    Attempts = 2
    MaxTileRuns = 2
    MaxDrops = 1
    \* WeatherFeeds
    Interval = 1
    Buffer = 5
    StaleAfter = 1
    MAX_ATTEMPTS = 2
    FeedPatience = 1
    LongestAlert = 1
    \* StationImport
    Stations = {s1, s2}
    StationJobs = {j1, j2}
    ReadBatch = 1
    LastHour <- MCLastHour
    MaxStationRuns = 2
    \* Elections
    Places = {m1, m2}
    StateOf <- MCStateOf
    DetailLines <- MCDetail
    PartyLines <- MCParty
    TicketLines <- MCTicket
    LiveDocuments <- MCDocuments
    BatchRows = 1
    Unknown = Null
    MaxLines = 2
    MaxStages = 2
    \* IndicatorImports
    Loaders = {l1, l2}
    Localities = {"l1"}
    SeriesYears = {1, 2}
    Coverages <- MCCoverages
    MaxSeriesRuns = 3
    \* SeriesTotals
    Towns <- MCTowns
    StateOfTown <- MCStateOfTown
    CensusYears = {1, 2}
    Aggregates <- MCAggregates
    YearOfPeriod <- MCYearOfPeriod
    Courses <- MCCourses
    Biomes <- MCBiomes
    Covers <- MCCovers
    Samples <- MCSamples
    ClassCounts = {2, 3}
    \* SourceSummaries
    Listed <- MCTowns
    AreaRows <- MCAreaRows
    SizeOf <- MCSizeOf
    TownNamed <- MCTownNamed
    DeterReplies <- MCDeterReplies
    ATTEMPTS = 2
    WINDOW_DAYS = 2
    Ranking = 1
    Grain = 1
    FireRows <- MCFireRows
    Hours = 2
    RecentHours = 1
    Segments <- MCSegments
    Paths <- MCPaths
    Tolerance = 1
    \* WeatherSampling
    Layouts <- MCLayouts
    Views <- MCViews
    CellSizes <- MCCellSizes
    SampleSize = 2
    MaxMeasured = 1
    Areas <- MCAreas
    FieldValues = {1, 3}
    Measures <- MCMeasures
    Targets <- MCTargets
    \* WeatherGeography
    Visits = {v1, v2}
    MaxGeography = 2
    \* WeatherReadings
    Codes = {p1}
    Variants = {"current"}
    Requests = {r1, r2}
    Tasks = {t1}
    UseRedis = TRUE
    Freshnesses = {1}
    MIN_FRESHNESS_AFTER_FETCH = 1
    FORCE_MIN_AGE = 2
    MAX_DATA_AGE = 2
    MAX_FALLBACK_AGE = 4
    FUTURE_TOLERANCE = 0
    FETCH_CHUNK = 1
    OutagePause = 1
    RetryAfters = {}
    ObservedAges = {1}
    Patience = 1
SYMMETRY Exchanges
CHECK_DEADLOCK FALSE
INVARIANTS
    StagingIsSound KeptIsNotOlder AlertsAreBacked NoGap StatusIsTrue StageIsExact ArchivesPrevail
    SeriesInStep SomeRunMoves TotalsAreWhole EnrolmentIsLastCensus CountsAddUp RiversAreKept
    SampleIsSound EstimatesAreWithin PointsNotOlder AgesAreHonest
PROPERTIES PublishesWholeFiles ReadingsAdvance
