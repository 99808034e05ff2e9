SPECIFICATION Spec
CONSTANTS
    Script = {"by hand", "by timer"}
    Process = {"service", "worker"}
    Service = "service"
    Newest = 3
    Last = 2
    History <- Histories
    Scene <- Scenes
INVARIANTS
    OnlyTestedRuns
    RollbackIsToTheWorking
    MigratedOnce

    
CHECK_DEADLOCK FALSE
