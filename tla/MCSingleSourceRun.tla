-------------------------- MODULE MCSingleSourceRun --------------------------
(***************************************************************************)
(* SingleSourceRun with one run of each driver, or with a driver alone.    *)
(***************************************************************************)
EXTENDS SingleSourceRun

CONSTANTS settings, audit, security

MCDriver == [r \in Runs |-> CASE r = settings -> "settings"
                              [] r = audit -> "audit"
                              [] OTHER -> "security"]

MCSourceFailures == {"AUTH_FAILURE", "API_ERROR"}

=============================================================================
