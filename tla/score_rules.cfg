SPECIFICATION Spec
INVARIANTS
    UnassessedStaysBelowDead
    BetterNeverRanksHigher
    
