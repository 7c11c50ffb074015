SPECIFICATION Spec
CONSTANTS
    Orders = {o1}
    Injections <- MCInjections
    Checks <- MCChecks
    Evaluations = {e1, e2}
    Configs <- MCConfigs
    WindowSize = 1
    ReportLimit = 1
    LateThreshold = 5
    None = None
    MaxRows = 2
    MaxReports = 2
    MaxTime = 1
INVARIANTS
    TriggersAreJustified
    
    AnsweredIsLogged
SYMMETRY MCSymmetry
CHECK_DEADLOCK FALSE
