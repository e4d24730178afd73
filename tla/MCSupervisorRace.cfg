CONSTANTS
    N <- MCN
    MaxReloads <- MCMaxReloads
SPECIFICATION Spec
INVARIANTS
    NoDeferOnDestroyedWorker
