CONSTANTS
    Mode = "ReportMode"
    MaxResponseSize <- MCMaxResponseSize
    ChunkMax <- MCChunkMax
    CheckInterval <- MCCheckInterval
    ReportInterval <- MCReportInterval
    ConnValues <- MCConnValues
    CountValues <- MCCountValues
    MaxReported <- MCMaxReported
SPECIFICATION Spec
INVARIANTS
    TypeOK
    ReportConserved
    CmaxIsWindowMax
PROPERTIES
    ReportEventuallySent
