-------------------------- MODULE MCRecordPipeline --------------------------
(***************************************************************************)
(* RecordPipeline over every registered endpoint.                          *)
(***************************************************************************)
EXTENDS RecordPipeline

(* One report of each way to identify a row. *)
MCReports == {"teams_user_activity", "exchange_mailbox_usage",
              "sharepoint_site_usage"}

=============================================================================
