SPECIFICATION RouterSpec
CONSTANTS
    c1 = c1  c2 = c2  s1 = s1  s2 = s2
    Clients <- MCClients
    Sessions <- MCSessions
    FileProviders <- MCFileProviders
    Env <- MCEnv
    FileProfiles <- MCFileProfiles
    EnvKeys <- MCEnvKeys
    MaxRetries = 2
    MaxFailures = 2
    MaxCalls = 1
SYMMETRY Interchangeable
CHECK_DEADLOCK FALSE
INVARIANTS
    Agreement
    OfProfile
PROPERTIES
    FallbackMoves
