--------------------------- MODULE SingleSourceRun ---------------------------
(***************************************************************************)
(* The drivers that open a collection run for one source and bypass        *)
(* CollectorRuntime.run: the SharePoint settings collector, the OneDrive   *)
(* and SharePoint audit branches of run_collector.main, and the security   *)
(* orchestrator.  All three fill the same control tables from a finally    *)
(* clause, and differ in the result that clause finds.                     *)
(***************************************************************************)
EXTENDS Integers

CONSTANTS
    Runs,            \* collection runs, each a process of its own
    Driver,          \* Driver[r] \in {"settings", "audit", "security"}
    SourceFailures   \* classifications of a failed collection

(* collectors.core.errors.CLASSIFICATIONS *)
Classifications ==
    {"PASS", "AUTH_FAILURE", "PERMISSION_REQUIRED", "THROTTLED", "API_ERROR",
     "NETWORK_ERROR", "UNKNOWN", "ENTITY_IDENTITY_UNAVAILABLE",
     "PERSISTENCE_ERROR"}

(* What a collector of either driver can classify its own failure as. *)
SourceFailureVocabulary ==
    {"AUTH_FAILURE", "PERMISSION_REQUIRED", "THROTTLED", "API_ERROR",
     "NETWORK_ERROR", "UNKNOWN"}

ASSUME DriverAssumption ==
    Driver \in [Runs -> {"settings", "audit", "security"}]

ASSUME SourceFailuresAssumption == SourceFailures \subseteq SourceFailureVocabulary

MaxWrites == 2      \* for attempt in range(2)

-----------------------------------------------------------------------------
VARIABLES
    pc,         \* pc[r]: where the driver stands
    result,     \* result[r]: status and error_classification it will report
    writes,     \* writes[r]: attempts to store the collected data
    stored,     \* stored[r]: the data is committed
    runStatus,  \* collection_run.status
    orphaned,   \* error_summary carries LEGACY_STALE_ORPHAN
    row,        \* endpoint_run of the one source ("OPEN": no completed_at)
    rowClass    \* endpoint_run.error_classification

vars == <<pc, result, writes, stored, runStatus, orphaned, row, rowClass>>

Active == {"begun", "collecting", "writing", "advancing", "closing",
           "completing"}
Terminal == {"SUCCESS", "FAILED"}
NoResult == [status |-> "none", class |-> "none"]
Outcome(s, c) == [status |-> s, class |-> c]

TypeOK ==
    /\ pc \in [Runs -> {"new", "returned", "raised", "killed"} \cup Active]
    /\ result \in [Runs -> [status : {"none", "PASS", "ERROR"},
                            class : {"none", "SOURCE_FAILURE"}
                                        \cup Classifications]]
    /\ writes \in [Runs -> 0..MaxWrites]
    /\ stored \in [Runs -> BOOLEAN]
    /\ runStatus \in [Runs -> {"NONE", "RUNNING"} \cup Terminal]
    /\ orphaned \in [Runs -> BOOLEAN]
    /\ row \in [Runs -> {"ABSENT", "OPEN", "PASS", "ERROR"}]
    /\ rowClass \in [Runs -> {"none"} \cup Classifications]

Init ==
    /\ pc = [r \in Runs |-> "new"]
    /\ result = [r \in Runs |-> NoResult]
    /\ writes = [r \in Runs |-> 0]
    /\ stored = [r \in Runs |-> FALSE]
    /\ runStatus = [r \in Runs |-> "NONE"]
    /\ orphaned = [r \in Runs |-> FALSE]
    /\ row = [r \in Runs |-> "ABSENT"]
    /\ rowClass = [r \in Runs |-> "none"]

-----------------------------------------------------------------------------
Goto(r, from, to) ==
    /\ pc[r] = from
    /\ pc' = [pc EXCEPT ![r] = to]

Report(r, s, c) == result' = [result EXCEPT ![r] = Outcome(s, c)]

control == <<runStatus, orphaned, row, rowClass>>

(* The plan of a security rule may say not to collect: no run is opened.   *)
SkipByPlan(r) ==
    /\ Driver[r] = "security"
    /\ Goto(r, "new", "returned")
    /\ UNCHANGED <<result, writes, stored, control>>

BeginRun(r) ==
    /\ Goto(r, "new", "begun")
    /\ runStatus' = [runStatus EXCEPT ![r] = "RUNNING"]
    /\ UNCHANGED <<result, writes, stored, orphaned, row, rowClass>>

(* The settings driver starts from an ERROR result; the others have none   *)
(* until the collection is over.                                           *)
BeginRow(r) ==
    /\ Goto(r, "begun", "collecting")
    /\ row' = [row EXCEPT ![r] = "OPEN"]
    /\ IF Driver[r] = "settings" THEN Report(r, "ERROR", "none")
       ELSE UNCHANGED result
    /\ UNCHANGED <<writes, stored, runStatus, orphaned, rowClass>>

(* begin_endpoint_run raises: only the orchestrator calls it in its try.   *)
FailBeginRow(r) ==
    /\ IF Driver[r] = "security"
       THEN Goto(r, "begun", "completing")
            /\ Report(r, "ERROR", "PERSISTENCE_ERROR")
       ELSE Goto(r, "begun", "raised") /\ UNCHANGED result
    /\ UNCHANGED <<writes, stored, control>>

CollectSettings(r) ==
    /\ Driver[r] = "settings"
    /\ \/ Goto(r, "collecting", "writing") /\ UNCHANGED result
       \/ /\ Goto(r, "collecting", "closing")
          /\ \E f \in SourceFailures : Report(r, "ERROR", f)
       \/ Goto(r, "collecting", "closing") /\ UNCHANGED result
    /\ UNCHANGED <<writes, stored, control>>

(* Every exception of the audit collector becomes a SOURCE_FAILURE. *)
CollectAudit(r) ==
    /\ Driver[r] = "audit"
    /\ \/ Goto(r, "collecting", "writing") /\ UNCHANGED result
       \/ /\ Goto(r, "collecting", "closing")
          /\ Report(r, "ERROR", "SOURCE_FAILURE")
    /\ UNCHANGED <<writes, stored, control>>

(* Mutant: the orchestrator, too, invents a classification of its own. *)
CollectSecurityAsSource(r) ==
    /\ Driver[r] = "security"
    /\ Goto(r, "collecting", "closing")
    /\ Report(r, "ERROR", "SOURCE_FAILURE")
    /\ UNCHANGED <<writes, stored, control>>

(* A failed collection is evaluated and written like a good one; what      *)
(* raises before there is a result (the token above all) leaves none.      *)
CollectSecurity(r) ==
    /\ Driver[r] = "security"
    /\ \/ /\ Goto(r, "collecting", "writing")
          /\ \/ Report(r, "PASS", "PASS")
             \/ \E f \in SourceFailures : Report(r, "ERROR", f)
       \/ Goto(r, "collecting", "closing") /\ UNCHANGED result
    /\ UNCHANGED <<writes, stored, control>>

StoreData(r) ==
    /\ Goto(r, "writing", IF Driver[r] = "audit" THEN "advancing" ELSE "closing")
    /\ writes' = [writes EXCEPT ![r] = @ + 1]
    /\ stored' = [stored EXCEPT ![r] = TRUE]
    /\ IF Driver[r] = "settings" THEN Report(r, "PASS", "none")
       ELSE UNCHANGED result
    /\ UNCHANGED control

(* Mutant: after the last attempt the result of the collection stands. *)
FailToStoreUnnoticed(r) ==
    /\ writes[r] < MaxWrites
    /\ writes' = [writes EXCEPT ![r] = @ + 1]
    /\ Goto(r, "writing", IF writes[r] + 1 < MaxWrites THEN "writing" ELSE "closing")
    /\ UNCHANGED <<result, stored, control>>

(* The orchestrator tries a failed write once more. *)
FailToStore(r) ==
    /\ writes' = [writes EXCEPT ![r] = @ + 1]
    /\ CASE Driver[r] = "settings" ->
                Goto(r, "writing", "closing") /\ UNCHANGED result
         [] Driver[r] = "audit" ->
                Goto(r, "writing", "closing")
                /\ Report(r, "ERROR", "SOURCE_FAILURE")
         [] Driver[r] = "security" /\ writes[r] + 1 < MaxWrites ->
                Goto(r, "writing", "writing") /\ UNCHANGED result
         [] OTHER ->
                Goto(r, "writing", "closing")
                /\ Report(r, "ERROR", "PERSISTENCE_ERROR")
    /\ UNCHANGED <<stored, control>>

(* The audit batch is committed; its checkpoint is a transaction of its    *)
(* own, and may fail alone.                                                *)
AdvanceCheckpoint(r) ==
    /\ Goto(r, "advancing", "closing")
    /\ Report(r, "PASS", "none") \/ Report(r, "ERROR", "SOURCE_FAILURE")
    /\ UNCHANGED <<writes, stored, control>>

(* What the finally clause hands to complete_endpoint_run. *)
Reported(r) ==
    IF result[r] = NoResult THEN Outcome("ERROR", "PERSISTENCE_ERROR")
    ELSE result[r]

ReportedClass(r) ==
    IF Reported(r).class = "none" THEN "UNKNOWN" ELSE Reported(r).class

CloseRow(r) ==
    /\ Goto(r, "closing", "completing")
    /\ ReportedClass(r) \in Classifications
    /\ row' = [row EXCEPT ![r] =
                  IF Reported(r).status = "PASS" THEN "PASS" ELSE "ERROR"]
    /\ rowClass' = [rowClass EXCEPT ![r] = ReportedClass(r)]
    /\ result' = [result EXCEPT ![r] = Reported(r)]
    /\ UNCHANGED <<writes, stored, runStatus, orphaned>>

(* complete_endpoint_run raises inside the finally clause, which therefore *)
(* never reaches complete_collection_run.                                  *)
RefuseClassification(r) ==
    /\ Goto(r, "closing", "raised")
    /\ ReportedClass(r) \notin Classifications
    /\ UNCHANGED <<result, writes, stored, control>>

(* Mutant: a run whose write succeeded is a SUCCESS. *)
CompleteRunByWrite(r) ==
    /\ Goto(r, "completing", "returned")
    /\ runStatus' = [runStatus EXCEPT ![r] =
                        IF stored[r] THEN "SUCCESS" ELSE "FAILED"]
    /\ orphaned' = [orphaned EXCEPT ![r] = FALSE]
    /\ UNCHANGED <<result, writes, stored, row, rowClass>>

CompleteRun(r) ==
    /\ Goto(r, "completing", "returned")
    /\ runStatus' = [runStatus EXCEPT ![r] =
                        IF result[r].status = "PASS" THEN "SUCCESS"
                        ELSE "FAILED"]
    /\ orphaned' = [orphaned EXCEPT ![r] = FALSE]
    /\ UNCHANGED <<result, writes, stored, row, rowClass>>

Stop(r) ==
    /\ pc[r] \in Active
    /\ pc' = [pc EXCEPT ![r] = "killed"]
    /\ UNCHANGED <<result, writes, stored, control>>

(* Mutant: the UPDATE has lost its "status = 'RUNNING'" predicate. *)
RecoverAnyRun(r) ==
    /\ runStatus[r] # "NONE"
    /\ runStatus' = [runStatus EXCEPT ![r] = "FAILED"]
    /\ orphaned' = [orphaned EXCEPT ![r] = TRUE]
    /\ UNCHANGED <<pc, result, writes, stored, row, rowClass>>

RecoverOrphan(r) ==
    /\ runStatus[r] = "RUNNING"
    /\ runStatus' = [runStatus EXCEPT ![r] = "FAILED"]
    /\ orphaned' = [orphaned EXCEPT ![r] = TRUE]
    /\ UNCHANGED <<pc, result, writes, stored, row, rowClass>>

Step(r) ==
    \/ SkipByPlan(r) \/ BeginRun(r) \/ BeginRow(r) \/ FailBeginRow(r)
    \/ CollectSettings(r) \/ CollectAudit(r) \/ CollectSecurity(r)
    \/ StoreData(r) \/ FailToStore(r) \/ AdvanceCheckpoint(r)
    \/ CloseRow(r) \/ RefuseClassification(r) \/ CompleteRun(r)

Next == \E r \in Runs : Step(r) \/ Stop(r) \/ RecoverOrphan(r)

Spec == Init /\ [][Next]_vars

-----------------------------------------------------------------------------
(* Properties *)

Settled(r) == runStatus[r] \in Terminal /\ ~orphaned[r]

(* SUCCESS is reported exactly when the endpoint row is a PASS, and no     *)
(* settled run leaves its row open.                                        *)
VerdictMatchesRow ==
    \A r \in Runs :
        Settled(r) => /\ row[r] # "OPEN"
                      /\ runStatus[r] = "SUCCESS" <=> row[r] = "PASS"

(* A PASS row stands for stored data, whichever driver wrote it and        *)
(* however many attempts it took.                                          *)
PassMeansStored == \A r \in Runs : row[r] = "PASS" => stored[r]

(* Once the endpoint row exists, a settings or security driver that ends   *)
(* by itself, raising or not, has settled the run.                         *)
FinallySettles ==
    \A r \in Runs :
        Driver[r] # "audit" /\ row[r] # "ABSENT"
            /\ pc[r] \in {"returned", "raised"} => Settled(r)

(* The single-source drivers keep the promises of the ledger as well. *)
LedgerStatus ==
    [r \in Runs |-> IF orphaned[r] THEN "ORPHAN"
                    ELSE IF runStatus[r] = "RUNNING" THEN "OPEN"
                    ELSE runStatus[r]]
LedgerVerdict ==
    [r \in Runs |-> [e \in {1} |->
        IF row[r] \in {"PASS", "ERROR"} THEN row[r] ELSE "PENDING"]]

Ledger == INSTANCE RunLedger WITH
    Endpoint <- {1}, status <- LedgerStatus, verdict <- LedgerVerdict

LedgerSpec == Ledger!Spec

-----------------------------------------------------------------------------
(* What the documents say and the drivers do not do *)

(* docs/evidence/OD-P05E...: "failure: terminal ERROR endpoint and failed  *)
(* collection state on source, normalization, or persistence exception".   *)
AuditFailureIsTerminal ==
    \A r \in Runs :
        /\ Driver[r] = "audit"
        /\ pc[r] \in {"returned", "raised"}
        /\ result[r].status = "ERROR"
        /\ ~orphaned[r]
        => row[r] = "ERROR" /\ rowClass[r] # "none" /\ runStatus[r] = "FAILED"

=============================================================================
