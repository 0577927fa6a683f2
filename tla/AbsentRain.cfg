SPECIFICATION SamplingSpec
CONSTANTS
    NoValue = NoValue
    Layouts <- MCLayouts
    Views <- MCViews
    CellSizes <- MCCellSizes
    SampleSize = 2
    MaxMeasured = 1
    Areas <- MCAreas
    FieldValues = {1, 3}
    Measures <- MCMeasures
    Targets <- MCTargets
CHECK_DEADLOCK FALSE
INVARIANT AbsenceIsNotZero
