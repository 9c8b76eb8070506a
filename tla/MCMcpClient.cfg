SPECIFICATION Spec
CONSTANTS
    c1 = c1  c2 = c2
    Stdio <- MCStdio
    Http <- MCHttp
    Oauth <- MCHttp
    Callers <- MCCallers
    Main = main
    Asks <- MCAsks
    MaxCalls = 2
    MaxPages = 2
    MaxSurprises = 1
CHECK_DEADLOCK FALSE
INVARIANTS
    FreshList
PROPERTIES
    ImplementsRemoteCalls
    EveryCallReturns
