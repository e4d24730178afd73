CONSTANTS
    N <- MCN
    MaxReloads <- MCMaxReloads
SPECIFICATION Spec
INVARIANTS
    AcceptedWorkersRunning
    CleanExit
    IInv
PROPERTIES
    RoutesPropagate
    AbstractSpec
    EngineStartsInHandshake
