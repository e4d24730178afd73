CONSTANTS
    SingleFields <- MCSingleFields
    ListFields <- MCListFields
    MaxListLen <- MCMaxListLen
    WorkerCounts <- MCWorkerCounts
    MaxOpenValues <- MCMaxOpenValues
    ClientMaxconnValues <- MCClientMaxconnValues
    XffInputs <- MCXffInputs
SPECIFICATION Spec
INVARIANTS
    TypeOK
    SingletonIpcPerWorker
    ClientIdsDistinct
    SessionsWithinTotal
    TrimlistCorrect
    XffRuleCorrect
