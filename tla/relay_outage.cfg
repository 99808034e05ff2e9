SPECIFICATION FairSpec
CONSTANTS
    r1 = r1
    r2 = r2
    p1 = p1
    Entry <- TwoEntries
    Garbled <- NoEntry
    Producer <- OneProducer
    Relayer <- OneRelay
    BatchSize = 2
    MaxFaults = 0
PROPERTY
    OutageHeals
