SPECIFICATION Spec
CONSTANTS
    None = None
    Report = {"weekly", "monthly"}
    Kind <- MCKind
    Start <- MCStart
    MaxDays = 400
INVARIANTS
    TodayCovered
    ReportPeriodsAdjoin
PROPERTIES
    PeriodsTile
