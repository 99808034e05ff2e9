SPECIFICATION Spec
CONSTANTS
    h1 = h1
    h2 = h2
    Own <- TwoOwn
    Social <- OneSocial
    Handler <- TwoHandlers
    WithAI <- OneHandler
    WithEmbedder <- OneHandler
    MaxRetries = 2
    Scene <- Scenes
INVARIANT
    FoldedOnce
CHECK_DEADLOCK FALSE
