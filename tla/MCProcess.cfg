SPECIFICATION FairSpec
CONSTANTS
    WithOtlpGrpc = TRUE
    UIntValues = 1048576
    IniFiles <- MCIniFiles
    MaxStarts = 3
    MaxCount = 2
INVARIANTS
    TypeOK
    RunsWithinAssumptions
    TokenIsSecured
    RunsWithTable
    FailureCleansUp
    ReportsAddUp
PROPERTIES
    EveryPickIsReported
CHECK_DEADLOCK FALSE
