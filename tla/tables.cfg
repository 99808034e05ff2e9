SPECIFICATION FairSpec
CONSTANTS
    a1 = a1
    a2 = a2
    Actor <- TwoActors
    Eraser = eraser0
    Kind = {"crawl", "unreachable", "contacts", "technologies"}
    Platform = {"fb", "ig"}
    Contact = {"x", "y"}
    Found <- Pages
    MaxJobs = 3
INVARIANTS
    TechsAreOfOneJob
    ContactsOnce
    NothingOutlivesTheLead
PROPERTIES
    EveryoneEnds
CHECK_DEADLOCK FALSE
