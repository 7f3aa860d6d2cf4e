\* One endpoint with one record: is what the adapter makes always accepted?
SPECIFICATION PipelineSpec
CONSTANTS
    Endpoints <- ExpectedEndpointIds
    Reports <- MCReports
    MaxBatches = 1
    MaxRecords = 1
INVARIANTS
    ColumnContract
CHECK_DEADLOCK FALSE
