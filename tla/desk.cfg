SPECIFICATION Spec
CONSTANTS
    l1 = l1
    l2 = l2
    l3 = l3
    e1 = e1
    e2 = e2
    Lead <- Leads3
    Editor <- Editors
    Site = {0, 1}
    Name <- Names
    Score = {0, 1}
    High = 1
    Limit = 1
    DefaultSize = 1
    MaxSize = 1
    Scene <- Scenes
SYMMETRY Alike
INVARIANTS
    ScoreFollowsSite
    WalkIsWhole
    ViewIsHonest
PROPERTIES
    EditKeepsTheRest
CHECK_DEADLOCK FALSE
