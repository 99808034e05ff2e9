SPECIFICATION FairSpec
CONSTANTS
    h1 = h1
    h2 = h2
    Own <- TwoOwn
    Social <- OneSocial
    Handler <- TwoHandlers
    WithAI <- OneHandler
    WithEmbedder <- OneHandler
    MaxRetries = 2
    Scene <- Scenes
INVARIANTS
    StageFindsItsInput
    OneEvaluation
    NothingForgotten
    SettlesCurrent
PROPERTY
    ChainEnds
CHECK_DEADLOCK FALSE
