\* Every endpoint followed by every other, two records each.
SPECIFICATION PipelineSpec
CONSTANTS
    Endpoints <- ExpectedEndpointIds
    Reports <- MCReports
    MaxBatches = 2
    MaxRecords = 2
INVARIANTS
    BatchIsAtomic
    RetentionIsRegistered
    ContractKept
CHECK_DEADLOCK FALSE
