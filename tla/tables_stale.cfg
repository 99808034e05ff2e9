SPECIFICATION Spec
CONSTANTS
    a1 = a1
    a2 = a2
    Actor <- TwoActors
    Eraser = eraser0
    Kind = {"crawl"}
    Platform = {"fb", "ig"}
    Contact = {"x", "y"}
    Found <- Pages
    MaxJobs = 2
INVARIANT NeverStale
CHECK_DEADLOCK FALSE
