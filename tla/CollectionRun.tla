---------------------------- MODULE CollectionRun ----------------------------
(***************************************************************************)
(* CollectorRuntime.run with a persisting CollectionWriter: one process    *)
(* per collection run, walking the selected endpoints in order, against    *)
(* the control tables collection_run, endpoint_run and                     *)
(* collector_checkpoint.  Several runs share the tables (the scheduler,    *)
(* the API and an operator start them independently), every commit is a    *)
(* step of its own, and a process may stop between any two of them.        *)
(***************************************************************************)
EXTENDS Integers, FiniteSets

CONSTANTS
    Runs,             \* collection runs, each a process of its own
    NoRun,            \* "no run has advanced this checkpoint"
    NumEndpoints,     \* how many endpoints each run selects
    UsageEndpoints,   \* those with the USAGE_REPORT_CSV transport
    GatedEndpoints,   \* those the capability gate is consulted for
    GraphFailures,    \* error classifications of a Graph endpoint
    UsageFailures     \* error classifications of a usage-report endpoint

Endpoint == 1..NumEndpoints

(* collectors.core.errors.CLASSIFICATIONS *)
Classifications ==
    {"PASS", "AUTH_FAILURE", "PERMISSION_REQUIRED", "THROTTLED", "API_ERROR",
     "NETWORK_ERROR", "UNKNOWN", "ENTITY_IDENTITY_UNAVAILABLE",
     "PERSISTENCE_ERROR"}

(* What BaseCollector.collect, or an AuthError or another exception that   *)
(* leaves it, can classify a failed endpoint as.                           *)
GraphFailureVocabulary ==
    {"AUTH_FAILURE", "PERMISSION_REQUIRED", "THROTTLED", "API_ERROR",
     "NETWORK_ERROR", "UNKNOWN", "PERSISTENCE_ERROR"}

(* What the except clauses of _execute_usage_report can leave behind.      *)
UsageFailureVocabulary ==
    {"AUTH_FAILURE", "PERMISSION_REQUIRED", "API_ERROR", "NETWORK_ERROR",
     "ENTITY_IDENTITY_UNAVAILABLE", "PERSISTENCE_ERROR",
     "REPORT_SCHEMA_INVALID", "THROTTLED/RETRY_EXHAUSTED"}

ASSUME RunsAssumption == NoRun \notin Runs

ASSUME EndpointsAssumption ==
    /\ NumEndpoints \in Nat \ {0}
    /\ UsageEndpoints \subseteq Endpoint
    /\ GatedEndpoints \subseteq Endpoint

ASSUME FailuresAssumption ==
    /\ GraphFailures \subseteq GraphFailureVocabulary
    /\ UsageFailures \subseteq UsageFailureVocabulary

-----------------------------------------------------------------------------
VARIABLES
    pc,          \* pc[r]: where run() stands
    pos,         \* pos[r]: the next endpoint of its loop
    skipped,     \* skipped[r]: endpoints the gate planned as NOT_EXECUTED
    results,     \* results[r][e]: the CollectionResult appended for e
    runStatus,   \* collection_run.status ("NONE" before the INSERT)
    counts,      \* collection_run.endpoints_passed / endpoints_failed
    orphaned,    \* error_summary carries LEGACY_STALE_ORPHAN
    row,         \* row[r][e]: endpoint_run ("OPEN": no completed_at yet)
    committed,   \* committed[r]: endpoints whose records run r committed
    checkpoint   \* collector_checkpoint: the run that last advanced e

process == <<pc, pos, skipped, results>>
runRow == <<runStatus, counts, orphaned>>
vars == <<pc, pos, skipped, results, runStatus, counts, orphaned, row,
          committed, checkpoint>>

Stopped == {"returned", "raised", "killed"}
Active == {"planning", "token", "loop", "executing", "writing", "closing"}
Outcomes == {"none", "PASS", "SKIPPED"}
                \cup GraphFailureVocabulary \cup UsageFailureVocabulary
Terminal == {"SUCCESS", "PARTIAL_SUCCESS", "FAILED"}
Closed == {"PASS", "ERROR"}

TypeOK ==
    /\ pc \in [Runs -> {"new"} \cup Active \cup Stopped]
    /\ pos \in [Runs -> 1..(NumEndpoints + 1)]
    /\ skipped \in [Runs -> SUBSET Endpoint]
    /\ results \in [Runs -> [Endpoint -> Outcomes]]
    /\ runStatus \in [Runs -> {"NONE", "RUNNING"} \cup Terminal]
    /\ counts \in [Runs -> [passed : Nat, failed : Nat]]
    /\ orphaned \in [Runs -> BOOLEAN]
    /\ row \in [Runs -> [Endpoint -> {"ABSENT", "OPEN"} \cup Closed]]
    /\ committed \in [Runs -> SUBSET Endpoint]
    /\ checkpoint \in [Endpoint -> Runs \cup {NoRun}]

Init ==
    /\ pc = [r \in Runs |-> "new"]
    /\ pos = [r \in Runs |-> 1]
    /\ skipped = [r \in Runs |-> {}]
    /\ results = [r \in Runs |-> [e \in Endpoint |-> "none"]]
    /\ runStatus = [r \in Runs |-> "NONE"]
    /\ counts = [r \in Runs |-> [passed |-> 0, failed |-> 0]]
    /\ orphaned = [r \in Runs |-> FALSE]
    /\ row = [r \in Runs |-> [e \in Endpoint |-> "ABSENT"]]
    /\ committed = [r \in Runs |-> {}]
    /\ checkpoint = [e \in Endpoint |-> NoRun]

-----------------------------------------------------------------------------
(* Helpers *)

Goto(r, from, to) ==
    /\ pc[r] = from
    /\ pc' = [pc EXCEPT ![r] = to]

(* Mutant: a skipped endpoint is taken for one that passed. *)
PassedOrSkipped(r) == {e \in Endpoint : results[r][e] \in {"PASS", "SKIPPED"}}

Passed(r) == {e \in Endpoint : results[r][e] = "PASS"}

(* error_classification of a result; a skipped endpoint has none and is    *)
(* filed under UNKNOWN.                                                    *)
Classification(outcome) == IF outcome = "SKIPPED" THEN "UNKNOWN" ELSE outcome

(* Mutant: the result's own status is stored. *)
RawRowStatus(outcome) == outcome

(* endpoint_run.status of a result: everything but PASS is an error row.   *)
RowStatus(outcome) == IF outcome = "PASS" THEN "PASS" ELSE "ERROR"

(* Mutant: a run with any failure is FAILED. *)
VerdictWithoutPartial(passed) ==
    IF Endpoint \ passed = {} THEN "SUCCESS" ELSE "FAILED"

(* collection_run.status of the endpoints that passed. *)
Verdict(passed) ==
    IF Endpoint \ passed = {} THEN "SUCCESS"
    ELSE IF passed # {} THEN "PARTIAL_SUCCESS"
    ELSE "FAILED"

(* complete_collection_run: one unconditional UPDATE of the run's row.     *)
WriteVerdict(r, passed) ==
    /\ runStatus' = [runStatus EXCEPT ![r] = Verdict(passed)]
    /\ counts' = [counts EXCEPT ![r] =
                    [passed |-> Cardinality(passed),
                     failed |-> Cardinality(Endpoint \ passed)]]
    /\ orphaned' = [orphaned EXCEPT ![r] = FALSE]

-----------------------------------------------------------------------------
(* The steps of CollectorRuntime.run *)

(* The auth configuration or the tenant is rejected: run() answers, or     *)
(* raises, before it opens a row.                                          *)
RejectConfiguration(r) ==
    /\ Goto(r, "new", "returned")
    /\ UNCHANGED <<pos, skipped, results, runRow, row, committed, checkpoint>>

BeginCollectionRun(r) ==
    /\ Goto(r, "new", "planning")
    /\ runStatus' = [runStatus EXCEPT ![r] = "RUNNING"]
    /\ UNCHANGED <<pos, skipped, results, counts, orphaned, row, committed,
                   checkpoint>>

(* The gate decides for each gated endpoint; when it leaves nothing to     *)
(* execute, the token is never requested.                                  *)
PlanEndpoints(r) ==
    \E plan \in SUBSET GatedEndpoints :
        /\ Goto(r, "planning", IF plan = Endpoint THEN "loop" ELSE "token")
        /\ skipped' = [skipped EXCEPT ![r] = plan]
        /\ UNCHANGED <<pos, results, runRow, row, committed, checkpoint>>

AcquireToken(r) ==
    /\ Goto(r, "token", "loop")
    /\ UNCHANGED <<pos, skipped, results, runRow, row, committed, checkpoint>>

(* Mutant: the early return forgets complete_collection_run. *)
FailTokenSilently(r) ==
    /\ Goto(r, "token", "returned")
    /\ results' = [results EXCEPT ![r] = [e \in Endpoint |-> "AUTH_FAILURE"]]
    /\ UNCHANGED <<pos, skipped, runRow, row, committed, checkpoint>>

(* No token: every selected endpoint gets the auth error as its result     *)
(* (AUTH_FAILURE stands for whatever the error maps to) and the run is     *)
(* completed without one endpoint_run row.                                 *)
FailToken(r) ==
    /\ Goto(r, "token", "returned")
    /\ results' = [results EXCEPT ![r] = [e \in Endpoint |-> "AUTH_FAILURE"]]
    /\ WriteVerdict(r, {})
    /\ UNCHANGED <<pos, skipped, row, committed, checkpoint>>

(* Mutant: a skipped endpoint leaves the loop body before its row is       *)
(* completed.                                                              *)
BeginEndpointAndContinue(r) ==
    LET e == pos[r] IN
    /\ e \in Endpoint
    /\ row[r][e] = "ABSENT"
    /\ row' = [row EXCEPT ![r][e] = "OPEN"]
    /\ IF e \in skipped[r]
       THEN /\ Goto(r, "loop", "loop")
            /\ results' = [results EXCEPT ![r][e] = "SKIPPED"]
            /\ pos' = [pos EXCEPT ![r] = e + 1]
       ELSE /\ Goto(r, "loop", "executing")
            /\ UNCHANGED <<results, pos>>
    /\ UNCHANGED <<skipped, runRow, committed, checkpoint>>

(* Mutant: the plan of the gate is not looked at. *)
BeginEndpointUnplanned(r) ==
    /\ pos[r] \in Endpoint
    /\ row[r][pos[r]] = "ABSENT"
    /\ row' = [row EXCEPT ![r][pos[r]] = "OPEN"]
    /\ Goto(r, "loop", "executing")
    /\ UNCHANGED <<pos, skipped, results, runRow, committed, checkpoint>>

BeginEndpoint(r) ==
    LET e == pos[r] IN
    /\ e \in Endpoint
    /\ row[r][e] = "ABSENT"              \* UNIQUE (collection_run, endpoint)
    /\ row' = [row EXCEPT ![r][e] = "OPEN"]
    /\ IF e \in skipped[r]
       THEN /\ Goto(r, "loop", "closing")
            /\ results' = [results EXCEPT ![r][e] = "SKIPPED"]
       ELSE /\ Goto(r, "loop", "executing")
            /\ UNCHANGED results
    /\ UNCHANGED <<pos, skipped, runRow, committed, checkpoint>>

(* A Graph endpoint: collect first, commit the normalised records later.   *)
CollectRecords(r) ==
    LET e == pos[r] IN
    /\ e \notin UsageEndpoints
    /\ Goto(r, "executing", "writing")
    /\ results' = [results EXCEPT ![r][e] = "PASS"]
    /\ UNCHANGED <<pos, skipped, runRow, row, committed, checkpoint>>

FailCollection(r) ==
    LET e == pos[r] IN
    /\ e \notin UsageEndpoints
    /\ Goto(r, "executing", "closing")
    /\ \E f \in GraphFailures : results' = [results EXCEPT ![r][e] = f]
    /\ UNCHANGED <<pos, skipped, runRow, row, committed, checkpoint>>

WriteRecords(r) ==
    /\ Goto(r, "writing", "closing")
    /\ committed' = [committed EXCEPT ![r] = @ \cup {pos[r]}]
    /\ UNCHANGED <<pos, skipped, results, runRow, row, checkpoint>>

(* Mutant: the PASS of the collection survives the rolled back write. *)
FailWriteUnnoticed(r) ==
    /\ Goto(r, "writing", "closing")
    /\ UNCHANGED <<pos, skipped, results, runRow, row, committed, checkpoint>>

(* Normalisation or the write raises: the transaction is rolled back and   *)
(* the PASS result is overwritten.                                         *)
FailWrite(r) ==
    /\ Goto(r, "writing", "closing")
    /\ results' = [results EXCEPT ![r][pos[r]] = "PERSISTENCE_ERROR"]
    /\ UNCHANGED <<pos, skipped, runRow, row, committed, checkpoint>>

(* A usage report is downloaded, parsed and committed by one call.         *)
ExecuteUsageReport(r) ==
    LET e == pos[r] IN
    /\ e \in UsageEndpoints
    /\ Goto(r, "executing", "closing")
    /\ \/ /\ results' = [results EXCEPT ![r][e] = "PASS"]
          /\ committed' = [committed EXCEPT ![r] = @ \cup {e}]
       \/ /\ \E f \in UsageFailures : results' = [results EXCEPT ![r][e] = f]
          /\ UNCHANGED committed
    /\ UNCHANGED <<pos, skipped, runRow, row, checkpoint>>

(* Mutant: the checkpoint advances whatever the outcome. *)
CloseEndpointAndAdvance(r) ==
    LET e == pos[r] IN
    /\ Goto(r, "closing", "loop")
    /\ Classification(results[r][e]) \in Classifications
    /\ row' = [row EXCEPT ![r][e] = RowStatus(results[r][e])]
    /\ checkpoint' = [checkpoint EXCEPT ![e] = r]
    /\ pos' = [pos EXCEPT ![r] = e + 1]
    /\ UNCHANGED <<skipped, results, runRow, committed>>

(* complete_endpoint_run: the row and, for a PASS, the checkpoint of the   *)
(* endpoint, in one transaction.                                           *)
CloseEndpoint(r) ==
    LET e == pos[r]
        outcome == results[r][e]
    IN
    /\ Goto(r, "closing", "loop")
    /\ Classification(outcome) \in Classifications
    /\ row' = [row EXCEPT ![r][e] = RowStatus(outcome)]
    /\ checkpoint' = IF RowStatus(outcome) = "PASS"
                     THEN [checkpoint EXCEPT ![e] = r]
                     ELSE checkpoint
    /\ pos' = [pos EXCEPT ![r] = e + 1]
    /\ UNCHANGED <<skipped, results, runRow, committed>>

(* complete_endpoint_run refuses a classification it does not know, and    *)
(* the PersistenceError leaves run().                                      *)
RefuseClassification(r) ==
    /\ Goto(r, "closing", "raised")
    /\ Classification(results[r][pos[r]]) \notin Classifications
    /\ UNCHANGED <<pos, skipped, results, runRow, row, committed, checkpoint>>

(* Mutant: the loop ends one endpoint early. *)
CompleteCollectionRunEarly(r) ==
    /\ pos[r] = NumEndpoints
    /\ Goto(r, "loop", "returned")
    /\ WriteVerdict(r, Passed(r))
    /\ UNCHANGED <<pos, skipped, results, row, committed, checkpoint>>

CompleteCollectionRun(r) ==
    /\ pos[r] = NumEndpoints + 1
    /\ Goto(r, "loop", "returned")
    /\ WriteVerdict(r, Passed(r))
    /\ UNCHANGED <<pos, skipped, results, row, committed, checkpoint>>

-----------------------------------------------------------------------------
(* What happens around the process *)

(* The process dies, is killed by the scheduler's timeout, loses its       *)
(* database connection, or raises from a call that no try block of run()   *)
(* covers: nothing after the last commit takes effect.                     *)
Stop(r) ==
    /\ pc[r] \in Active
    /\ pc' = [pc EXCEPT ![r] = "killed"]
    /\ UNCHANGED <<pos, skipped, results, runRow, row, committed, checkpoint>>

(* Mutant: the UPDATE has lost its "status = 'RUNNING'" predicate. *)
RecoverAnyRun(r) ==
    /\ runStatus[r] # "NONE"
    /\ runStatus' = [runStatus EXCEPT ![r] = "FAILED"]
    /\ orphaned' = [orphaned EXCEPT ![r] = TRUE]
    /\ UNCHANGED <<process, counts, row, committed, checkpoint>>

(* An operator closes a RUNNING row with recover_orphaned_collection_run.  *)
(* Nothing ties this to the process being gone.                            *)
RecoverOrphan(r) ==
    /\ runStatus[r] = "RUNNING"
    /\ runStatus' = [runStatus EXCEPT ![r] = "FAILED"]
    /\ orphaned' = [orphaned EXCEPT ![r] = TRUE]
    /\ UNCHANGED <<process, counts, row, committed, checkpoint>>

-----------------------------------------------------------------------------
Step(r) ==
    \/ RejectConfiguration(r)
    \/ BeginCollectionRun(r)
    \/ PlanEndpoints(r)
    \/ AcquireToken(r)
    \/ FailToken(r)
    \/ BeginEndpoint(r)
    \/ CollectRecords(r)
    \/ FailCollection(r)
    \/ WriteRecords(r)
    \/ FailWrite(r)
    \/ ExecuteUsageReport(r)
    \/ CloseEndpoint(r)
    \/ RefuseClassification(r)
    \/ CompleteCollectionRun(r)

Next == \E r \in Runs : Step(r) \/ Stop(r) \/ RecoverOrphan(r)

Spec == Init /\ [][Next]_vars

(* Every call of run() has a bound on the time it takes (request timeouts, *)
(* a bounded number of retries), so a live process keeps moving.  Neither  *)
(* a crash nor the operator's recovery is ever owed.                       *)
Fairness == \A r \in Runs : WF_vars(Step(r))

FairSpec == Spec /\ Fairness

-----------------------------------------------------------------------------
(* Properties *)

RowsPassed(r) == {e \in Endpoint : row[r][e] = "PASS"}

(* The run's row is reconciled from its endpoint rows, although            *)
(* complete_collection_run computes it from the results kept in memory:    *)
(* status and both counters agree with what the tables say, and no         *)
(* endpoint row is left unfinished under a verdict.  Only a run that never *)
(* got a token has no endpoint rows, and it is FAILED.                     *)
ReconciledRun(r) ==
    runStatus[r] \in Terminal /\ ~orphaned[r] =>
        \/ /\ \A e \in Endpoint : row[r][e] \in Closed
           /\ runStatus[r] = Verdict(RowsPassed(r))
           /\ counts[r].passed = Cardinality(RowsPassed(r))
           /\ counts[r].failed = Cardinality(Endpoint \ RowsPassed(r))
        \/ /\ \A e \in Endpoint : row[r][e] = "ABSENT"
           /\ runStatus[r] = "FAILED"
           /\ counts[r].passed = 0
           /\ counts[r].failed = Cardinality(Endpoint)

ReconciledWithRows == \A r \in Runs : ReconciledRun(r)

(* A PASS row never stands for data that was not committed: not after a    *)
(* rolled back write, not after a crash between the write and the row.     *)
PassMeansCommitted ==
    \A r \in Runs : RowsPassed(r) \subseteq committed[r]

(* A checkpoint names only a run that committed that endpoint's records.   *)
CheckpointMeansCommitted ==
    \A e \in Endpoint :
        checkpoint[e] # NoRun => e \in committed[checkpoint[e]]

(* FAILED as the runtime's own verdict means that no endpoint of the run   *)
(* persisted anything; any other verdict means that some endpoint did.     *)
FailedMeansNothingCommitted ==
    \A r \in Runs :
        runStatus[r] \in Terminal /\ ~orphaned[r] =>
            (runStatus[r] = "FAILED" <=> committed[r] = {})

(* Whenever a run stops, the endpoint rows before the stop are finished,   *)
(* those after it do not exist, and at most the one at the stop is open.   *)
OneOpenRow ==
    \A r \in Runs : \A e \in Endpoint :
        /\ row[r][e] = "OPEN" => e = pos[r]
        /\ e < pos[r] => row[r][e] \in Closed
        /\ e > pos[r] => row[r][e] = "ABSENT"

(* An endpoint the gate skipped has no side effect: no records, no         *)
(* checkpoint; and a run with every endpoint skipped requests no token.    *)
SkippedLeavesNoTrace ==
    \A r \in Runs :
        /\ skipped[r] \cap committed[r] = {}
        /\ \A e \in skipped[r] : checkpoint[e] # r
        /\ pc[r] = "token" => skipped[r] # Endpoint

(* Once the runtime has settled a run, nothing rewrites its status, its    *)
(* counters or its endpoint rows, the operator's recovery included.        *)
VerdictIsFinal ==
    [][\A r \in Runs :
        runStatus[r] \in Terminal /\ ~orphaned[r] =>
            UNCHANGED <<runStatus[r], counts[r], orphaned[r], row[r]>>]_vars

(* A RUNNING row is eventually settled unless its process was killed or    *)
(* run() raised.                                                           *)
RunningIsSettled ==
    \A r \in Runs :
        runStatus[r] = "RUNNING" ~>
            (runStatus[r] \in Terminal \/ pc[r] \in {"killed", "raised"})

-----------------------------------------------------------------------------
(* The control tables as RunLedger sees them: an endpoint row counts once  *)
(* it is finished, and an orphan is told from a failure.                   *)

LedgerStatus ==
    [r \in Runs |-> IF orphaned[r] THEN "ORPHAN"
                    ELSE IF runStatus[r] = "RUNNING" THEN "OPEN"
                    ELSE runStatus[r]]

LedgerVerdict ==
    [r \in Runs |-> [e \in Endpoint |->
        IF row[r][e] \in Closed THEN row[r][e] ELSE "PENDING"]]

Ledger == INSTANCE RunLedger WITH status <- LedgerStatus,
                                  verdict <- LedgerVerdict

(* The runtime, its crashes and the operator's recovery together keep the  *)
(* promises of the ledger.                                                 *)
LedgerSpec == Ledger!Spec

=============================================================================
