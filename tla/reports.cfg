SPECIFICATION Spec
CONSTANTS
    Actor = {a1, a2}
    Execution = {e1, e2}
    NoActor = NoActor
    Cost = {0, 2}
    Searches <- SearchArgs
SYMMETRY Symmetry
INVARIANTS ReportAddsUp  SearchMeansItsKeys
PROPERTY TotalsCoverReports
CHECK_DEADLOCK FALSE
