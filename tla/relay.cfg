SPECIFICATION FairSpec
CONSTANTS
    r1 = r1
    r2 = r2
    p1 = p1
    Entry <- ThreeEntries
    Garbled <- LastEntry
    Producer <- OneProducer
    Relayer <- TwoRelays
    BatchSize = 2
    MaxFaults = 2
INVARIANTS
    NeverZero
    BothOrNeither
    ClaimDiscipline
    DuplicatesNeedAFault
PROPERTIES
    AtLeastOnce
    DrainsUnlessWedged
