CONSTANTS
    SingleFields <- MCSingleFields
    ListFields <- MCListFields
    MaxListLen <- MCMaxListLen
    WorkerCounts <- MCAnyWorkerCounts
    MaxOpenValues <- MCMaxOpenValues
    ClientMaxconnValues <- MCClientMaxconnValues
    XffInputs <- MCXffInputs
SPECIFICATION Spec
INVARIANT StartsWorkers
