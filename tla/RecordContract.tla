--------------------------- MODULE RecordContract ---------------------------
(***************************************************************************)
(* The two sides of the contract between the workload adapters and the     *)
(* record writers: the columns an adapter puts in the rows of an endpoint, *)
(* and the columns the writer of that endpoint requires.  Both are tables  *)
(* of the source, written independently of each other; columns and         *)
(* endpoints are opaque names here.                                        *)
(***************************************************************************)

(* workloads.registry: endpoints grouped by the module that adapts them.   *)
DirectoryIds ==
    {"G01-001", "G01-002", "G01-003", "G01-004", "G01-007", "G01-008",
     "G01-009", "G01-010", "G01-018", "G01-019"}
ServiceIds ==
    {"G01-005", "G01-006", "G01-011", "G01-012", "G01-013", "G01-014",
     "G01-015", "G01-016", "G01-017", "G01-020"}
AuditContentIds == {"SP-A01"}
Batch2Ids == {"DEF-P02", "DEF-P03", "DLP-P01", "DLP-P02"}
CsvIds == {"TM-001"}

ExpectedEndpointIds ==
    DirectoryIds \cup ServiceIds \cup AuditContentIds \cup Batch2Ids \cup CsvIds

SnapshotIds == {"G01-004", "G01-011", "G01-013", "G01-015", "G01-019", "TM-001"}
HistoryIds == {"G01-016", "G01-017"}
EventIds == {"G01-005", "G01-006", "G01-014", "SP-A01"}
ReferenceIds == {"G01-018"}

PersistenceMode(e) ==
    CASE e \in SnapshotIds -> "CURRENT_WITH_SNAPSHOT"
      [] e \in HistoryIds -> "CURRENT_WITH_HISTORY"
      [] e \in EventIds -> "EVENT"
      [] e \in ReferenceIds -> "REFERENCE"
      [] OTHER -> "CURRENT"

(* The rows of one record, in the order their statements are executed. *)
RowKinds(e) ==
    CASE PersistenceMode(e) = "CURRENT_WITH_SNAPSHOT" -> <<"current", "snapshot">>
      [] PersistenceMode(e) = "CURRENT_WITH_HISTORY" -> <<"current", "history">>
      [] PersistenceMode(e) = "EVENT" -> <<"event">>
      [] OTHER -> <<"current">>

LongIds == {"G01-019", "G01-005", "G01-006", "G01-013", "G01-014", "SP-A01"}
StandardIds ==
    {"G01-004", "G01-015", "G01-016", "G01-017"} \cup Batch2Ids \cup CsvIds

(* WorkloadEntry.retention_class *)
Registered(e) ==
    CASE e \in LongIds -> "LONG"
      [] e \in StandardIds -> "STANDARD"
      [] OTHER -> "REFERENCE"

(* The directory adapters carry a retention class of their own. *)
AdapterRetention(e) ==
    CASE e = "G01-004" -> "STANDARD"
      [] e = "G01-019" -> "LONG"
      [] OTHER -> "REFERENCE"

-----------------------------------------------------------------------------
(* What the adapters produce, common columns apart *)

UsersRow == {"user_principal_name", "display_name", "user_type",
             "account_enabled", "created_date_time",
             "_assigned_licenses_available", "_assigned_licenses"}
GroupsRow == {"display_name", "mail", "mail_enabled", "security_enabled",
              "group_types"}
OrganizationRow == {"display_name", "country_letter_code", "tenant_type",
                    "verified_domains"}
SubscribedSkusRow == {"sku_id", "sku_part_number", "capability_status",
                      "consumed_units", "prepaid_units", "service_plans",
                      "next_lifecycle_datetime"}
SubscribedSkusSnapshotRow == {"consumed_units", "prepaid_units",
                              "capability_status", "service_plans"}
ApplicationsRow == {"app_id", "display_name", "sign_in_audience",
                    "created_date_time"}
ServicePrincipalsRow == {"app_id", "display_name", "account_enabled",
                         "service_principal_type"}
DevicesRow == {"device_graph_id", "account_enabled", "operating_system",
               "operating_system_version", "trust_type",
               "approximate_last_sign_in_date_time"}
AdministrativeUnitsRow == {"display_name", "description", "visibility"}
RoleDefinitionsRow == {"display_name", "description", "is_built_in"}
RoleAssignmentsRow == {"role_definition_id", "principal_id",
                       "directory_scope_id"}
DirectoryAuditRow == {"event_source", "event_at", "activity", "category",
                      "result", "actor_user_id"}
SignInRow == DirectoryAuditRow \cup {"actor_app_id", "is_interactive"}
ConditionalAccessRow == {"display_name", "state", "created_date_time",
                         "modified_date_time", "client_app_types",
                         "grant_built_in_controls",
                         "security_evidence_complete"}
NamedLocationsRow == {"display_name", "created_date_time",
                      "modified_date_time"}
RiskyUsersRow == {"risk_level", "risk_state", "risk_detail", "is_deleted",
                  "is_processing", "risk_last_updated_at"}
RiskDetectionsRow == {"detected_at", "activity_at", "risk_event_type",
                      "risk_level", "risk_state", "risk_detail",
                      "detection_timing_type", "activity"}
HealthOverviewRow == {"service", "status"}
HealthIssuesRow == {"service", "status", "classification",
                    "start_date_time", "end_date_time",
                    "last_modified_date_time", "is_resolved"}
UpdateMessagesRow == {"category", "severity", "start_date_time",
                      "end_date_time", "last_modified_date_time",
                      "is_major_change", "action_required_by_date_time",
                      "services"}
SharePointSettingsRow ==
    {"sharing_capability", "default_sharing_link_type",
     "external_user_expiration_required", "external_user_expiration_in_days",
     "file_anonymous_link_type", "folder_anonymous_link_type",
     "require_anonymous_links_expire_in_days", "allow_guest_user_sharing"}
SharePointAuditRow ==
    {"tenant_id", "audit_record_id", "event_time", "operation", "workload",
     "record_type", "actor_upn", "event_category", "external_flag",
     "anonymous_flag", "collected_at", "client_ip", "object_id", "site_url",
     "source_relative_url", "source_file_name", "unique_sharing_id",
     "target_user_or_group_name", "target_user_or_group_type",
     "collection_run_id", "endpoint_run_id", "retention_class"}
Batch2Row == {"source_id", "tenant_id", "name", "status", "severity",
              "category", "observed_at", "created_at", "updated_at"}

DirectoryRow ==
    [e \in DirectoryIds |->
        CASE e = "G01-001" -> UsersRow
          [] e = "G01-002" -> GroupsRow
          [] e = "G01-003" -> OrganizationRow
          [] e = "G01-004" -> SubscribedSkusRow
          [] e = "G01-007" -> ApplicationsRow
          [] e = "G01-008" -> ServicePrincipalsRow
          [] e = "G01-009" -> DevicesRow
          [] e = "G01-010" -> AdministrativeUnitsRow
          [] e = "G01-018" -> RoleDefinitionsRow
          [] e = "G01-019" -> RoleAssignmentsRow]

ServiceRow ==
    [e \in ServiceIds |->
        CASE e = "G01-005" -> DirectoryAuditRow
          [] e = "G01-006" -> SignInRow
          [] e = "G01-011" -> ConditionalAccessRow
          [] e = "G01-012" -> NamedLocationsRow
          [] e = "G01-013" -> RiskyUsersRow
          [] e = "G01-014" -> RiskDetectionsRow
          [] e = "G01-015" -> HealthOverviewRow
          [] e = "G01-016" -> HealthIssuesRow
          [] e = "G01-017" -> UpdateMessagesRow
          [] e = "G01-020" -> SharePointSettingsRow]

LineageColumns == {"tenant_id", "collection_run_id", "endpoint_run_id",
                   "source_object_id"}

(* directory adapters: common lineage prefix and their own retention class *)
DirectoryColumns(e, kind) ==
    IF kind = "snapshot"
    THEN LineageColumns \cup {"snapshot_at", "retention_class"} \cup
         (IF e = "G01-004" THEN SubscribedSkusSnapshotRow ELSE DirectoryRow[e])
    ELSE LineageColumns \cup {"last_observed_at", "retention_class"} \cup
         DirectoryRow[e]

(* security_service adapters: the envelope carries a retention class only  *)
(* when the lineage does.                                                  *)
EnvelopeColumns(retention) ==
    LineageColumns \cup {"collected_at"} \cup
    (IF retention = "none" THEN {} ELSE {"retention_class"})

ObservationColumns(kind) ==
    CASE kind = "current" -> {"last_observed_at"}
      [] kind = "snapshot" -> {"snapshot_at"}
      [] kind = "history" -> {"observed_at", "version_identity"}
      [] OTHER -> {}

ServiceColumns(e, kind, retention) ==
    EnvelopeColumns(retention) \cup ObservationColumns(kind) \cup ServiceRow[e]

Produced(e, kind, retention) ==
    CASE e \in DirectoryIds -> DirectoryColumns(e, kind)
      [] e \in ServiceIds -> ServiceColumns(e, kind, retention)
      [] e \in AuditContentIds -> SharePointAuditRow
      [] OTHER -> Batch2Row

-----------------------------------------------------------------------------
(* What the writers require *)

Keyed(columns) == {"tenant_id", "source_object_id", "retention_class"} \cup columns
Current(columns) == Keyed(columns \cup {"last_observed_at"})
Versioned(columns) ==
    Keyed(columns \cup {"collection_run_id", "endpoint_run_id"})

(* _CURRENT_ENDPOINTS *)
CurrentDirectoryColumns ==
    [e \in {"G01-001", "G01-002", "G01-003", "G01-007"} |->
        CASE e = "G01-001" -> Current({"user_principal_name", "display_name",
                                       "user_type", "account_enabled",
                                       "created_date_time"})
          [] e = "G01-002" -> Current({"display_name", "mail", "mail_enabled",
                                       "security_enabled", "group_types"})
          [] e = "G01-003" -> Current({"display_name", "country_letter_code",
                                       "tenant_type", "verified_domains"})
          [] e = "G01-007" -> Current({"app_id", "display_name",
                                       "sign_in_audience",
                                       "created_date_time"})]

CurrentObjectColumns ==
    [e \in {"G01-008", "G01-009", "G01-010", "G01-012", "G01-020"} |->
        CASE e = "G01-008" -> Current({"app_id", "display_name",
                                       "account_enabled",
                                       "service_principal_type"})
          [] e = "G01-009" -> Current({"device_graph_id", "account_enabled",
                                       "operating_system",
                                       "operating_system_version",
                                       "trust_type",
                                       "approximate_last_sign_in_date_time"})
          [] e = "G01-010" -> Current({"display_name", "description",
                                       "visibility"})
          [] e = "G01-012" -> Current({"display_name", "created_date_time",
                                       "modified_date_time"})
          [] e = "G01-020" -> Current({"collected_at", "sharing_capability",
                                       "default_sharing_link_type",
                                       "external_user_expiration_required",
                                       "external_user_expiration_in_days",
                                       "file_anonymous_link_type",
                                       "folder_anonymous_link_type",
                                       "require_anonymous_links_expire_in_days",
                                       "allow_guest_user_sharing"})]

(* _REFERENCE_ENDPOINTS *)
ReferenceColumns ==
    [e \in ReferenceIds |-> Current({"display_name", "description",
                                     "is_built_in"})]

AuditEventColumns ==
    Versioned({"event_source", "event_at", "collected_at", "actor_user_id",
               "actor_app_id", "activity", "category", "result",
               "is_interactive", "risk_level", "extension"})

(* write_signin_log_record reads every other column with row.get *)
SigninRequired == Keyed({"event_at", "collected_at"})

SharePointAuditColumns ==
    {"tenant_id", "audit_record_id", "event_time", "operation", "workload",
     "record_type", "actor_upn", "event_category", "external_flag",
     "anonymous_flag", "collected_at", "client_ip", "object_id", "site_url",
     "source_relative_url", "source_file_name", "unique_sharing_id",
     "target_user_or_group_name", "target_user_or_group_type",
     "collection_run_id", "endpoint_run_id", "retention_class"}

(* _EVENT_ENDPOINTS, and the sign-in log in place of the audit table *)
EventColumns ==
    [e \in EventIds |->
        CASE e = "G01-005" -> AuditEventColumns
          [] e = "G01-006" -> SigninRequired
          [] e = "G01-014" -> Versioned({"detected_at", "activity_at",
                                         "collected_at", "risk_event_type",
                                         "risk_level", "risk_state",
                                         "risk_detail",
                                         "detection_timing_type", "activity",
                                         "affected_user_id"})
          [] e = "SP-A01" -> SharePointAuditColumns]

(* _HISTORY_ENDPOINTS *)
HealthIssueColumns ==
    {"service", "status", "classification", "start_date_time",
     "end_date_time", "last_modified_date_time", "is_resolved"}
UpdateMessageColumns ==
    {"category", "severity", "start_date_time", "end_date_time",
     "last_modified_date_time", "is_major_change",
     "action_required_by_date_time", "services"}
HistoryTable ==
    [e \in HistoryIds |->
        CASE e = "G01-016" -> HealthIssueColumns
          [] e = "G01-017" -> UpdateMessageColumns]

(* _SNAPSHOT_ENDPOINTS: the columns of the current and the snapshot table *)
SnapshotCurrentColumns ==
    [e \in {"G01-004", "G01-011", "G01-013", "G01-015", "G01-019"} |->
        CASE e = "G01-004" -> {"sku_id", "sku_part_number",
                               "capability_status", "consumed_units",
                               "prepaid_units", "service_plans"}
          [] e = "G01-011" -> {"display_name", "state", "created_date_time",
                               "modified_date_time", "client_app_types",
                               "grant_built_in_controls",
                               "security_evidence_complete"}
          [] e = "G01-013" -> {"risk_level", "risk_state", "risk_detail",
                               "is_deleted", "is_processing",
                               "risk_last_updated_at"}
          [] e = "G01-015" -> {"service", "status"}
          [] e = "G01-019" -> {"role_definition_id", "principal_id",
                               "directory_scope_id"}]

SnapshotColumns(e) ==
    IF e = "G01-004"
    THEN {"consumed_units", "prepaid_units", "capability_status",
          "service_plans"}
    ELSE SnapshotCurrentColumns[e]

CurrentTables ==
    [e \in DOMAIN CurrentDirectoryColumns \cup DOMAIN CurrentObjectColumns
              \cup DOMAIN ReferenceColumns |->
        CASE e \in DOMAIN CurrentDirectoryColumns -> CurrentDirectoryColumns[e]
          [] e \in DOMAIN CurrentObjectColumns -> CurrentObjectColumns[e]
          [] OTHER -> ReferenceColumns[e]]

(* The closed set of endpoints dispatch_persistence can write. *)
SupportedIds ==
    DOMAIN CurrentTables \cup DOMAIN EventColumns \cup DOMAIN HistoryTable
        \cup DOMAIN SnapshotCurrentColumns

Required(e, kind) ==
    CASE e \in DOMAIN CurrentTables -> CurrentTables[e]
      [] e \in EventIds -> EventColumns[e]
      [] e \in HistoryIds /\ kind = "history" ->
            Versioned({"version_identity", "observed_at", "collected_at"}
                          \cup HistoryTable[e])
      [] e \in HistoryIds /\ kind # "history" -> Current(HistoryTable[e])
      [] e \in DOMAIN SnapshotCurrentColumns /\ kind = "snapshot" ->
            Versioned({"snapshot_at"} \cup SnapshotColumns(e))
      [] OTHER -> Current(SnapshotCurrentColumns[e])

=============================================================================
