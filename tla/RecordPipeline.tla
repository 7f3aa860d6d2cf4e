--------------------------- MODULE RecordPipeline ---------------------------
(***************************************************************************)
(* What becomes of the records an endpoint returned: the runtime stamps    *)
(* them with the lineage of the run, the workload registry adapts them one *)
(* by one, and the collection writer stores all their rows in one          *)
(* transaction.  Usage reports take a path of their own, from a CSV file   *)
(* to the same kind of transaction.  One collection run takes its          *)
(* endpoints in turn and goes on to the next when one is refused.          *)
(* No name of this module is one of RecordStore: a module can extend both. *)
(***************************************************************************)
EXTENDS RecordContract, Naturals, Sequences, FiniteSetsExt

CONSTANTS
    Endpoints,     \* registered endpoints the run collects
    Reports,       \* usage reports the run collects
    MaxBatches,    \* bound: endpoints taken in one run
    MaxRecords     \* bound: records and report rows of one run

(* usage_reports.registry.REPORTS, by what identifies a row of the report. *)
UserReports == {"office365_active_user", "exchange_email_activity",
                "onedrive_activity", "sharepoint_user_activity",
                "teams_user_activity"}
StrictReports == {"exchange_mailbox_usage", "onedrive_account_usage"}
SiteReports == {"sharepoint_site_usage"}
AllReports == UserReports \cup StrictReports \cup SiteReports

ASSUME EndpointsAssumption == Endpoints \subseteq ExpectedEndpointIds
ASSUME ReportsAssumption == Reports \subseteq AllReports
ASSUME BoundsAssumption == MaxBatches \in Nat /\ MaxRecords \in Nat

(* What Graph can return where a record is expected: a complete one, one   *)
(* without a usable id, one of another audit operation, no object at all.  *)
Shapes == {"good", "no_id", "not_mapping", "other_operation"}
ShapesOf(e) ==
    IF e \in AuditContentIds THEN Shapes ELSE Shapes \ {"other_operation"}

(* What a row of a report can be: complete; with its refresh date missing  *)
(* or malformed; with only the second choice of an identity; masked        *)
(* altogether; a second row of the entity of the first.                    *)
ReportShapes == {"good", "no_refresh", "fallback", "masked", "again"}

VARIABLES
    stage,       \* "collecting", "normalizing", "parsing" or "writing"
    log,         \* one entry per endpoint taken: endpoint, records, result
    retention,   \* retention class of the lineage in use, or "none"
    normalized,  \* how many records of the current batch are adapted
    pending,     \* rows of the open transaction still to be written
    transaction, \* rows written in the open transaction
    stored       \* committed rows

pipelineVars == <<stage, log, retention, normalized, pending, transaction, stored>>

Classes == {"SHORT", "STANDARD", "LONG", "REFERENCE"}
DownloadFailures == {"AUTH_FAILURE", "PERMISSION_REQUIRED", "API_ERROR",
                     "NETWORK_ERROR", "THROTTLED/RETRY_EXHAUSTED"}
Results == {"running", "PASS", "NORMALIZATION", "REFUSED", "DATABASE",
            "REPORT_SCHEMA_INVALID", "SCHEMA_CONTRACT_FAILURE",
            "ENTITY_IDENTITY_UNAVAILABLE"} \cup DownloadFailures

PipelineInit ==
    /\ stage = "collecting"
    /\ log = <<>>
    /\ retention = "none"
    /\ normalized = 0
    /\ pending = <<>>
    /\ transaction = {}
    /\ stored = {}

batch == Len(log)
Endpoint == log[batch].endpoint
Records == log[batch].records

Finish(result) ==
    /\ stage' = "collecting"
    /\ log' = [log EXCEPT ![batch].result = result]

-----------------------------------------------------------------------------
(* Does the adapter of endpoint e return rows for a record of this shape?  *)
(* The settings singleton and the batch-2 sources need no id; the audit    *)
(* adapter skips what it does not want, which its wrapper turns into an    *)
(* error; the CSV adapter is handed a record where it wants bytes.         *)
Adapts(e, shape) ==
    CASE e \in CsvIds -> FALSE
      [] e \in AuditContentIds -> shape = "good"
      [] e \in Batch2Ids \cup {"G01-020"} -> shape # "not_mapping"
      [] OTHER -> shape \notin {"not_mapping", "no_id"}

(* The retention class a row of endpoint e carries. *)
RowRetention(e, carried) ==
    CASE e \in AllReports -> "none"
      [] e \in DirectoryIds -> AdapterRetention(e)
      [] e \in AuditContentIds /\ carried = "none" -> "LONG"
      [] OTHER -> carried

(* The lineage of the run names no retention class. *)
RunLineage == "none"

(* Mutant: nothing completes the lineage. *)
WithoutDefault(e, carried) == carried

(* normalize_records completes the lineage from the registry. *)
WithDefault(e, carried) ==
    IF carried = "none" THEN Registered(e) ELSE carried

(* Mutant: the endpoints of a run share one lineage object, which the      *)
(* default of the first completes for all.                                 *)
TakeEndpointSharedLineage(e, records) ==
    /\ stage = "collecting"
    /\ batch < MaxBatches
    /\ stage' = "normalizing"
    /\ log' = Append(log, [endpoint |-> e, records |-> records,
                           result |-> "running"])
    /\ retention' = WithDefault(e, retention)
    /\ normalized' = 0
    /\ UNCHANGED <<pending, transaction, stored>>

(* An endpoint has been collected: a lineage is built for it from the      *)
(* mapping of the run.                                                     *)
TakeEndpoint(e, records) ==
    /\ stage = "collecting"
    /\ batch < MaxBatches
    /\ stage' = "normalizing"
    /\ log' = Append(log, [endpoint |-> e, records |-> records,
                           result |-> "running"])
    /\ retention' = WithDefault(e, RunLineage)
    /\ normalized' = 0
    /\ UNCHANGED <<pending, transaction, stored>>

NormalizeRecord ==
    /\ stage = "normalizing"
    /\ normalized < Len(Records)
    /\ Adapts(Endpoint, Records[normalized + 1])
    /\ normalized' = normalized + 1
    /\ UNCHANGED <<stage, log, retention, pending, transaction, stored>>

(* The first record that cannot be adapted ends the endpoint. *)
RefuseBatch ==
    /\ stage = "normalizing"
    /\ normalized < Len(Records)
    /\ ~Adapts(Endpoint, Records[normalized + 1])
    /\ Finish("NORMALIZATION")
    /\ UNCHANGED <<retention, normalized, pending, transaction, stored>>

(* The report is downloaded, after the retries its policy allows, or not.  *)
TakeReport(k, rows) ==
    /\ stage = "collecting"
    /\ batch < MaxBatches
    /\ stage' = "parsing"
    /\ log' = Append(log, [endpoint |-> k, records |-> rows,
                           result |-> "running"])
    /\ retention' = "none"
    /\ normalized' = 0
    /\ UNCHANGED <<pending, transaction, stored>>

(* _identity and _usable_identity: the display name stands in for a user   *)
(* and the url for a site, nothing for a mailbox or an account.            *)
Identified(k, shape) ==
    CASE shape = "masked" -> FALSE
      [] shape = "fallback" -> k \notin StrictReports
      [] OTHER -> TRUE

(* The rows are read in order, and the first bad one decides. *)
ReadRow ==
    /\ stage = "parsing"
    /\ normalized < Len(Records)
    /\ Records[normalized + 1] # "no_refresh"
    /\ Identified(Endpoint, Records[normalized + 1])
    /\ normalized' = normalized + 1
    /\ UNCHANGED <<stage, log, retention, pending, transaction, stored>>

RefuseReport ==
    /\ stage = "parsing"
    /\ \/ /\ normalized = 0
          /\ \E f \in DownloadFailures \cup {"REPORT_SCHEMA_INVALID"} : Finish(f)
       \/ /\ normalized < Len(Records)
          /\ Records[normalized + 1] = "no_refresh"
          /\ Finish("SCHEMA_CONTRACT_FAILURE")
       \/ /\ normalized < Len(Records)
          /\ Records[normalized + 1] # "no_refresh"
          /\ ~Identified(Endpoint, Records[normalized + 1])
          /\ Finish("ENTITY_IDENTITY_UNAVAILABLE")
    /\ UNCHANGED <<retention, normalized, pending, transaction, stored>>

(* write_report_rows looks for a second row of an entity before it writes. *)
HasDuplicate == \E i \in DOMAIN Records : i > 1 /\ Records[i] = "again"

RefuseDuplicate ==
    /\ stage = "parsing"
    /\ normalized = Len(Records)
    /\ HasDuplicate
    /\ Finish("REPORT_SCHEMA_INVALID")
    /\ UNCHANGED <<retention, normalized, pending, transaction, stored>>

Kinds(e) == IF e \in AllReports THEN <<"current", "snapshot">> ELSE RowKinds(e)

Row(position, kind) ==
    [batch |-> batch, position |-> position, kind |-> kind,
     retention |-> RowRetention(Endpoint, retention)]

RowsPerRecord == Len(Kinds(Endpoint))

(* The statements of the transaction: the rows of each record in turn. *)
BatchRows ==
    [i \in 1..(RowsPerRecord * Len(Records)) |->
        Row(1 + ((i - 1) \div RowsPerRecord),
            Kinds(Endpoint)[1 + ((i - 1) % RowsPerRecord)])]

OpenTransaction ==
    /\ stage \in {"normalizing", "parsing"}
    /\ normalized = Len(Records)
    /\ stage = "parsing" => ~HasDuplicate
    /\ stage' = "writing"
    /\ pending' = BatchRows
    /\ transaction' = {}
    /\ UNCHANGED <<log, retention, normalized, stored>>

(* The writer knows the endpoint and finds every column it binds, in every *)
(* row of the record, before it writes the first of them.                  *)
Acceptable(e, carried) ==
    \/ e \in AllReports
    \/ /\ e \in SupportedIds
       /\ \A i \in DOMAIN RowKinds(e) :
             Required(e, RowKinds(e)[i]) \subseteq
                 Produced(e, RowKinds(e)[i], RowRetention(e, carried))

WriteRow ==
    /\ stage = "writing"
    /\ pending # <<>>
    /\ Acceptable(Endpoint, retention)
    /\ transaction' = transaction \cup {Head(pending)}
    /\ pending' = Tail(pending)
    /\ UNCHANGED <<stage, log, retention, normalized, stored>>

RefuseRow ==
    /\ stage = "writing"
    /\ pending # <<>>
    /\ ~Acceptable(Endpoint, retention)
    /\ Finish("REFUSED")
    /\ pending' = <<>>
    /\ transaction' = {}
    /\ UNCHANGED <<retention, normalized, stored>>

(* Mutant: the error handler commits what was written. *)
FailStatementCommits ==
    /\ stage = "writing"
    /\ Finish("DATABASE")
    /\ pending' = <<>>
    /\ transaction' = {}
    /\ stored' = stored \cup transaction
    /\ UNCHANGED <<retention, normalized>>

(* Any statement, or the commit itself, can fail: write rolls back. *)
FailStatement ==
    /\ stage = "writing"
    /\ Finish("DATABASE")
    /\ pending' = <<>>
    /\ transaction' = {}
    /\ UNCHANGED <<retention, normalized, stored>>

CommitBatch ==
    /\ stage = "writing"
    /\ pending = <<>>
    /\ Finish("PASS")
    /\ stored' = stored \cup transaction
    /\ transaction' = {}
    /\ UNCHANGED <<retention, normalized, pending>>

RecordsLeft ==
    MaxRecords - MapThenSumSet(LAMBDA b : Len(log[b].records), 1..batch)

PipelineNext ==
    \/ \E e \in Endpoints, n \in 0..RecordsLeft :
          \E records \in [1..n -> ShapesOf(e)] : TakeEndpoint(e, records)
    \/ \E k \in Reports, n \in 0..RecordsLeft :
          \E rows \in [1..n -> ReportShapes] : TakeReport(k, rows)
    \/ ReadRow
    \/ RefuseReport
    \/ RefuseDuplicate
    \/ NormalizeRecord
    \/ RefuseBatch
    \/ OpenTransaction
    \/ WriteRow
    \/ RefuseRow
    \/ FailStatement
    \/ CommitBatch

PipelineSpec == PipelineInit /\ [][PipelineNext]_pipelineVars

-----------------------------------------------------------------------------
(* Properties *)

StoredOf(b) == {row \in stored : row.batch = b}

(* An endpoint that passes has stored every row of every record it         *)
(* returned; one that does not pass, whether a record could not be         *)
(* adapted, the writer refused it or the database failed half-way, has     *)
(* stored none of them, whatever happened to the other endpoints.          *)
BatchIsAtomic ==
    \A b \in 1..batch :
        IF log[b].result = "PASS"
        THEN {<<row.position, row.kind>> : row \in StoredOf(b)}
                = {<<p, Kinds(log[b].endpoint)[k]>> :
                      p \in DOMAIN log[b].records,
                      k \in DOMAIN Kinds(log[b].endpoint)}
        ELSE StoredOf(b) = {}

(* Every stored row carries the retention class its own endpoint is        *)
(* registered with, never one left over from another endpoint of the run   *)
(* (the tables of the usage reports have no retention class).              *)
RetentionIsRegistered ==
    \A row \in stored :
        log[row.batch].endpoint \notin AllReports =>
            row.retention = Registered(log[row.batch].endpoint)

(* Endpoints whose adapter and writer disagree, see ColumnContract.        *)
ContractGaps == {"G01-005", "G01-014"} \cup Batch2Ids

(* Outside the known gaps the writer never refuses what the adapters made, *)
(* whichever endpoint came before.                                         *)
ContractKept ==
    \A b \in 1..batch :
        log[b].result = "REFUSED" => log[b].endpoint \in ContractGaps

(* registry.py, normalize_records: "so produced rows always satisfy the    *)
(* persistence column contract".                                           *)
ColumnContract == \A b \in 1..batch : log[b].result # "REFUSED"

=============================================================================
