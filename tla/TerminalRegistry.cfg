CONSTANTS
    MaxProcess = 2
    MaxOutput = 1
    MaxResize = 1
    MaxName = 0
    Renaming = {1, 2}
    MaxPolls = 0
    EventBuffer = 1
SPECIFICATION LifecycleSpec
INVARIANT RegistryIsTruth
CHECK_DEADLOCK FALSE
