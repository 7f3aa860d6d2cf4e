--------------------------- MODULE MCCollectionRun ---------------------------
(***************************************************************************)
(* CollectionRun on small instances: which endpoints are usage reports and *)
(* gated, and one or two representatives of each kind of failure.          *)
(***************************************************************************)
EXTENDS CollectionRun

CONSTANTS r1, r2

MCGraphFailures == {"API_ERROR"}

(* One classification the endpoint row accepts and one it refuses. *)
MCUsageFailures == {"NETWORK_ERROR", "REPORT_SCHEMA_INVALID"}

(* Every classification a source can give, for the one-run instances.      *)
MCAllGraphFailures == GraphFailureVocabulary
MCAllUsageFailures == UsageFailureVocabulary

=============================================================================
