------------------------ MODULE SingleSourceRunProofs ------------------------
(***************************************************************************)
(* Proofs about SingleSourceRun for any number of runs of any mixture of   *)
(* drivers: what the control tables say of a settled run is true, a driver *)
(* that ends by itself settles its run, and all of them keep the promises  *)
(* of RunLedger.                                                           *)
(***************************************************************************)
EXTENDS SingleSourceRun, TLAPS

-----------------------------------------------------------------------------
(* The inductive invariant, for one run *)

(* What the columns of the control tables can be when the driver stands    *)
(* where it stands.  Between begin_collection_run and the end of           *)
(* complete_collection_run the run is unsettled, recovered or not.         *)
StageInv(r) ==
    /\ pc[r] = "new" => runStatus[r] = "NONE"
    /\ orphaned[r] => runStatus[r] = "FAILED"
    /\ pc[r] \in Active \cup {"raised", "killed"} =>
          runStatus[r] = "RUNNING" \/ orphaned[r]
    /\ pc[r] = "returned" =>
          \/ Settled(r)
          \/ runStatus[r] = "NONE" /\ row[r] = "ABSENT"

RowInv(r) ==
    /\ pc[r] \in {"new", "begun"} => row[r] = "ABSENT"
    /\ pc[r] \in {"collecting", "writing", "advancing", "closing"} => row[r] = "OPEN"
    /\ pc[r] \in {"completing", "returned"} => row[r] # "OPEN"
    /\ pc[r] = "raised" => row[r] = "ABSENT" \/ Driver[r] = "audit"

(* The result a driver holds is one its finally clause can report, and it  *)
(* is a PASS only when there is nothing left that could fail.              *)
ResultInv(r) ==
    /\ pc[r] \in {"new", "begun"} => result[r] = NoResult
    /\ pc[r] = "collecting" => result[r].status # "PASS"
    /\ (pc[r] \in {"collecting", "writing"} /\ Driver[r] = "audit") =>
          result[r] = NoResult
    /\ pc[r] = "advancing" =>
          stored[r] /\ result[r] = NoResult /\ Driver[r] = "audit"
    /\ pc[r] = "writing" => writes[r] < MaxWrites
    /\ (pc[r] = "writing" /\ Driver[r] # "security") => result[r].status # "PASS"
    /\ (pc[r] \in {"new", "begun", "collecting"}
          \/ (pc[r] = "writing" /\ Driver[r] # "security")) => writes[r] = 0
    /\ (pc[r] = "closing" /\ result[r].status = "PASS") => stored[r]
    /\ (pc[r] \in Active /\ Driver[r] # "audit") => result[r].class # "SOURCE_FAILURE"

VerdictInv(r) ==
    /\ pc[r] = "completing" => (result[r].status = "PASS" <=> row[r] = "PASS")
    /\ row[r] = "PASS" => stored[r]
    /\ Settled(r) => (runStatus[r] = "SUCCESS" <=> row[r] = "PASS")

RunInv(r) == StageInv(r) /\ RowInv(r) /\ ResultInv(r) /\ VerdictInv(r)

Inv == TypeOK /\ \A r \in Runs : RunInv(r)

-----------------------------------------------------------------------------
LEMMA InitInv == Init => Inv
<1> SUFFICES ASSUME Init PROVE Inv
  OBVIOUS
<1>1. TypeOK
  BY DEF Init, TypeOK, NoResult, Classifications, MaxWrites, Terminal, Active
<1>2. \A r \in Runs : RunInv(r)
  BY DEF Init, RunInv, StageInv, RowInv, ResultInv, VerdictInv, NoResult,
     MaxWrites, Active, Settled, Terminal
<1> QED BY <1>1, <1>2 DEF Inv

LEMMA FailuresAreClassified ==
    /\ SourceFailures \subseteq Classifications
    /\ "SOURCE_FAILURE" \notin SourceFailures
BY SourceFailuresAssumption DEF SourceFailureVocabulary, Classifications

ResultClasses == {"none", "SOURCE_FAILURE"} \cup Classifications

(* What a driver reports has the type of a result. *)
LEMMA ReportType ==
    ASSUME TypeOK, NEW r \in Runs,
           \/ result' = result
           \/ \E s \in {"PASS", "ERROR"}, c \in ResultClasses : Report(r, s, c)
    PROVE  result' \in [Runs -> [status : {"none", "PASS", "ERROR"},
                                 class : ResultClasses]]
<1>1. CASE result' = result
  BY <1>1 DEF TypeOK, ResultClasses
<1>2. ASSUME NEW s \in {"PASS", "ERROR"}, NEW c \in ResultClasses, Report(r, s, c)
      PROVE  result' \in [Runs -> [status : {"none", "PASS", "ERROR"},
                                   class : ResultClasses]]
  <2>1. [status |-> s, class |-> c] \in
            [status : {"none", "PASS", "ERROR"}, class : ResultClasses]
    OBVIOUS
  <2> QED BY <1>2, <2>1 DEF TypeOK, Report, Outcome, ResultClasses
<1> QED BY <1>1, <1>2

(* A step of one run leaves what belongs to the others alone.              *)
Elsewhere(r) ==
    \A q \in Runs \ {r} :
        /\ pc'[q] = pc[q] /\ result'[q] = result[q]
        /\ writes'[q] = writes[q] /\ stored'[q] = stored[q]
        /\ runStatus'[q] = runStatus[q] /\ orphaned'[q] = orphaned[q]
        /\ row'[q] = row[q] /\ rowClass'[q] = rowClass[q]

LEMMA OneRunInv ==
    ASSUME Inv, NEW r \in Runs, TypeOK', Elsewhere(r), RunInv(r)'
    PROVE  Inv'
<1>1. ASSUME NEW q \in Runs \ {r} PROVE RunInv(q)'
  BY DEF Inv, RunInv, StageInv, RowInv, ResultInv, VerdictInv, Settled, Elsewhere
<1> QED BY <1>1 DEF Inv

LEMMA SkipByPlanInv == ASSUME Inv, NEW r \in Runs, SkipByPlan(r) PROVE Inv'
<1> USE DEF Goto, Report, Outcome, control, NoResult, MaxWrites
<1>1. TypeOK /\ RunInv(r)
  BY DEF Inv
<1>2. TypeOK'
  BY <1>1, FailuresAreClassified
     DEF TypeOK, SkipByPlan, Active, Terminal, Classifications
<1>3. Elsewhere(r)
  BY <1>1 DEF TypeOK, SkipByPlan, Elsewhere
<1>4. RunInv(r)'
  BY <1>1, FailuresAreClassified
     DEF TypeOK, SkipByPlan, RunInv, StageInv, RowInv, ResultInv, VerdictInv,
         Settled, Active, Terminal, Classifications
<1> QED BY <1>2, <1>3, <1>4, OneRunInv

LEMMA BeginRunInv == ASSUME Inv, NEW r \in Runs, BeginRun(r) PROVE Inv'
<1> USE DEF Goto, Report, Outcome, control, NoResult, MaxWrites
<1>1. TypeOK /\ RunInv(r)
  BY DEF Inv
<1>2. TypeOK'
  BY <1>1, FailuresAreClassified
     DEF TypeOK, BeginRun, Active, Terminal, Classifications
<1>3. Elsewhere(r)
  BY <1>1 DEF TypeOK, BeginRun, Elsewhere
<1>4. RunInv(r)'
  BY <1>1, FailuresAreClassified
     DEF TypeOK, BeginRun, RunInv, StageInv, RowInv, ResultInv, VerdictInv,
         Settled, Active, Terminal, Classifications
<1> QED BY <1>2, <1>3, <1>4, OneRunInv

LEMMA BeginRowInv == ASSUME Inv, NEW r \in Runs, BeginRow(r) PROVE Inv'
<1> USE DEF Goto, Report, Outcome, control, NoResult, MaxWrites
<1>1. TypeOK /\ RunInv(r)
  BY DEF Inv
<1>2. TypeOK'
  BY <1>1, FailuresAreClassified
     DEF TypeOK, BeginRow, Active, Terminal, Classifications
<1>3. Elsewhere(r)
  BY <1>1 DEF TypeOK, BeginRow, Elsewhere
<1>4. RunInv(r)'
  BY <1>1, FailuresAreClassified
     DEF TypeOK, BeginRow, RunInv, StageInv, RowInv, ResultInv, VerdictInv,
         Settled, Active, Terminal, Classifications
<1> QED BY <1>2, <1>3, <1>4, OneRunInv

LEMMA FailBeginRowInv == ASSUME Inv, NEW r \in Runs, FailBeginRow(r) PROVE Inv'
<1>1. TypeOK /\ RunInv(r)
  BY DEF Inv
<1>2. TypeOK'
  <2>1. \/ result' = result
        \/ \E s \in {"PASS", "ERROR"}, c \in ResultClasses : Report(r, s, c)
    BY FailuresAreClassified DEF FailBeginRow, ResultClasses, Classifications
  <2>2. result' \in [Runs -> [status : {"none", "PASS", "ERROR"},
                             class : ResultClasses]]
    BY <1>1, <2>1, ReportType
  <2> QED BY <1>1, <2>2 DEF TypeOK, FailBeginRow, RunInv, ResultInv, Goto, control,
                            Active, MaxWrites, ResultClasses
<1> USE DEF Goto, Report, Outcome, control, NoResult, MaxWrites
<1>3. Elsewhere(r)
  BY <1>1 DEF TypeOK, FailBeginRow, Elsewhere
<1>4. RunInv(r)'
  BY <1>1, FailuresAreClassified
     DEF TypeOK, FailBeginRow, RunInv, StageInv, RowInv, ResultInv, VerdictInv,
         Settled, Active, Terminal, Classifications
<1> QED BY <1>2, <1>3, <1>4, OneRunInv

LEMMA CollectSettingsInv == ASSUME Inv, NEW r \in Runs, CollectSettings(r) PROVE Inv'
<1>1. TypeOK /\ RunInv(r)
  BY DEF Inv
<1>2. TypeOK'
  <2>1. \/ result' = result
        \/ \E s \in {"PASS", "ERROR"}, c \in ResultClasses : Report(r, s, c)
    BY FailuresAreClassified DEF CollectSettings, ResultClasses, Classifications
  <2>2. result' \in [Runs -> [status : {"none", "PASS", "ERROR"},
                             class : ResultClasses]]
    BY <1>1, <2>1, ReportType
  <2> QED BY <1>1, <2>2 DEF TypeOK, CollectSettings, RunInv, ResultInv, Goto, control,
                            Active, MaxWrites, ResultClasses
<1> USE DEF Goto, Report, Outcome, control, NoResult, MaxWrites
<1>3. Elsewhere(r)
  BY <1>1 DEF TypeOK, CollectSettings, Elsewhere
<1>4. RunInv(r)'
  BY <1>1, FailuresAreClassified
     DEF TypeOK, CollectSettings, RunInv, StageInv, RowInv, ResultInv, VerdictInv,
         Settled, Active, Terminal, Classifications
<1> QED BY <1>2, <1>3, <1>4, OneRunInv

LEMMA CollectAuditInv == ASSUME Inv, NEW r \in Runs, CollectAudit(r) PROVE Inv'
<1>1. TypeOK /\ RunInv(r)
  BY DEF Inv
<1>2. TypeOK'
  <2>1. \/ result' = result
        \/ \E s \in {"PASS", "ERROR"}, c \in ResultClasses : Report(r, s, c)
    BY FailuresAreClassified DEF CollectAudit, ResultClasses, Classifications
  <2>2. result' \in [Runs -> [status : {"none", "PASS", "ERROR"},
                             class : ResultClasses]]
    BY <1>1, <2>1, ReportType
  <2> QED BY <1>1, <2>2 DEF TypeOK, CollectAudit, RunInv, ResultInv, Goto, control,
                            Active, MaxWrites, ResultClasses
<1> USE DEF Goto, Report, Outcome, control, NoResult, MaxWrites
<1>3. Elsewhere(r)
  BY <1>1 DEF TypeOK, CollectAudit, Elsewhere
<1>4. RunInv(r)'
  BY <1>1, FailuresAreClassified
     DEF TypeOK, CollectAudit, RunInv, StageInv, RowInv, ResultInv, VerdictInv,
         Settled, Active, Terminal, Classifications
<1> QED BY <1>2, <1>3, <1>4, OneRunInv

LEMMA CollectSecurityInv == ASSUME Inv, NEW r \in Runs, CollectSecurity(r) PROVE Inv'
<1>1. TypeOK /\ RunInv(r)
  BY DEF Inv
<1>2. TypeOK'
  <2>1. \/ result' = result
        \/ \E s \in {"PASS", "ERROR"}, c \in ResultClasses : Report(r, s, c)
    BY FailuresAreClassified DEF CollectSecurity, ResultClasses, Classifications
  <2>2. result' \in [Runs -> [status : {"none", "PASS", "ERROR"},
                             class : ResultClasses]]
    BY <1>1, <2>1, ReportType
  <2> QED BY <1>1, <2>2 DEF TypeOK, CollectSecurity, RunInv, ResultInv, Goto, control,
                            Active, MaxWrites, ResultClasses
<1> USE DEF Goto, Report, Outcome, control, NoResult, MaxWrites
<1>3. Elsewhere(r)
  BY <1>1 DEF TypeOK, CollectSecurity, Elsewhere
<1>4. RunInv(r)'
  BY <1>1, FailuresAreClassified
     DEF TypeOK, CollectSecurity, RunInv, StageInv, RowInv, ResultInv, VerdictInv,
         Settled, Active, Terminal, Classifications
<1> QED BY <1>2, <1>3, <1>4, OneRunInv

LEMMA StoreDataInv == ASSUME Inv, NEW r \in Runs, StoreData(r) PROVE Inv'
<1>1. TypeOK /\ RunInv(r)
  BY DEF Inv
<1>2. TypeOK'
  <2>1. \/ result' = result
        \/ \E s \in {"PASS", "ERROR"}, c \in ResultClasses : Report(r, s, c)
    BY FailuresAreClassified DEF StoreData, ResultClasses, Classifications
  <2>2. result' \in [Runs -> [status : {"none", "PASS", "ERROR"},
                             class : ResultClasses]]
    BY <1>1, <2>1, ReportType
  <2> QED BY <1>1, <2>2 DEF TypeOK, StoreData, RunInv, ResultInv, Goto, control,
                            Active, MaxWrites, ResultClasses
<1> USE DEF Goto, Report, Outcome, control, NoResult, MaxWrites
<1>3. Elsewhere(r)
  BY <1>1 DEF TypeOK, StoreData, Elsewhere
<1>4. RunInv(r)'
  <2>1. /\ pc[r] = "writing"
        /\ pc'[r] = IF Driver[r] = "audit" THEN "advancing" ELSE "closing"
        /\ stored'[r] /\ row'[r] = row[r]
        /\ runStatus'[r] = runStatus[r] /\ orphaned'[r] = orphaned[r]
    BY <1>1 DEF TypeOK, StoreData
  <2>2. IF Driver[r] = "settings"
        THEN result'[r] = [status |-> "PASS", class |-> "none"]
        ELSE result'[r] = result[r]
    BY <1>1 DEF TypeOK, StoreData
  <2>3. Driver[r] = "audit" => result[r] = NoResult
    BY <1>1, <2>1 DEF RunInv, ResultInv
  <2>4. StageInv(r)' /\ RowInv(r)' /\ VerdictInv(r)'
    BY <1>1, <2>1 DEF RunInv, StageInv, RowInv, VerdictInv, Settled, Active, Terminal
  <2>5. ResultInv(r)'
    BY <1>1, <2>1, <2>2, <2>3 DEF RunInv, ResultInv, Active
  <2> QED BY <2>4, <2>5 DEF RunInv
<1> QED BY <1>2, <1>3, <1>4, OneRunInv

LEMMA FailToStoreInv == ASSUME Inv, NEW r \in Runs, FailToStore(r) PROVE Inv'
<1>1. TypeOK /\ RunInv(r)
  BY DEF Inv
<1>2. TypeOK'
  <2>1. \/ result' = result
        \/ \E s \in {"PASS", "ERROR"}, c \in ResultClasses : Report(r, s, c)
    BY FailuresAreClassified DEF FailToStore, ResultClasses, Classifications
  <2>2. result' \in [Runs -> [status : {"none", "PASS", "ERROR"},
                             class : ResultClasses]]
    BY <1>1, <2>1, ReportType
  <2>3. \/ Goto(r, "writing", "writing")
        \/ Goto(r, "writing", "closing")
    BY DEF FailToStore
  <2>4. writes' \in [Runs -> 0..MaxWrites]
    BY <1>1, <2>3 DEF TypeOK, FailToStore, RunInv, ResultInv, Goto, MaxWrites
  <2>5. pc' \in [Runs -> {"new", "returned", "raised", "killed"} \cup Active]
    BY <1>1, <2>3 DEF TypeOK, Goto, Active
  <2> QED BY <1>1, <2>2, <2>4, <2>5 DEF TypeOK, FailToStore, control, ResultClasses
<1> USE DEF Goto, Report, Outcome, control, NoResult, MaxWrites
<1>3. Elsewhere(r)
  BY <1>1 DEF TypeOK, FailToStore, Elsewhere
<1>4. RunInv(r)'
  BY <1>1, FailuresAreClassified
     DEF TypeOK, FailToStore, RunInv, StageInv, RowInv, ResultInv, VerdictInv,
         Settled, Active, Terminal, Classifications
<1> QED BY <1>2, <1>3, <1>4, OneRunInv

LEMMA AdvanceCheckpointInv == ASSUME Inv, NEW r \in Runs, AdvanceCheckpoint(r) PROVE Inv'
<1> USE DEF Goto, Report, Outcome, control, NoResult, MaxWrites
<1>1. TypeOK /\ RunInv(r)
  BY DEF Inv
<1>2. TypeOK'
  BY <1>1, FailuresAreClassified
     DEF TypeOK, AdvanceCheckpoint, Active, Terminal, Classifications
<1>3. Elsewhere(r)
  BY <1>1 DEF TypeOK, AdvanceCheckpoint, Elsewhere
<1>4. RunInv(r)'
  BY <1>1, FailuresAreClassified
     DEF TypeOK, AdvanceCheckpoint, RunInv, StageInv, RowInv, ResultInv, VerdictInv,
         Settled, Active, Terminal, Classifications
<1> QED BY <1>2, <1>3, <1>4, OneRunInv

LEMMA CloseRowInv == ASSUME Inv, NEW r \in Runs, CloseRow(r) PROVE Inv'
<1> USE DEF Goto, Report, Outcome, control, NoResult, MaxWrites
<1>1. TypeOK /\ RunInv(r)
  BY DEF Inv
<1>2. TypeOK'
  BY <1>1, FailuresAreClassified
     DEF TypeOK, CloseRow, Active, Terminal, Classifications, Reported, ReportedClass
<1>3. Elsewhere(r)
  BY <1>1 DEF TypeOK, CloseRow, Elsewhere
<1>4. RunInv(r)'
  BY <1>1, FailuresAreClassified
     DEF TypeOK, CloseRow, RunInv, StageInv, RowInv, ResultInv, VerdictInv,
         Settled, Active, Terminal, Classifications, Reported, ReportedClass
<1> QED BY <1>2, <1>3, <1>4, OneRunInv

LEMMA RefuseClassificationInv == ASSUME Inv, NEW r \in Runs, RefuseClassification(r) PROVE Inv'
<1> USE DEF Goto, Report, Outcome, control, NoResult, MaxWrites
<1>1. TypeOK /\ RunInv(r)
  BY DEF Inv
<1>2. TypeOK'
  BY <1>1, FailuresAreClassified
     DEF TypeOK, RefuseClassification, Active, Terminal, Classifications, Reported, ReportedClass
<1>3. Elsewhere(r)
  BY <1>1 DEF TypeOK, RefuseClassification, Elsewhere
<1>4. RunInv(r)'
  BY <1>1, FailuresAreClassified
     DEF TypeOK, RefuseClassification, RunInv, StageInv, RowInv, ResultInv, VerdictInv,
         Settled, Active, Terminal, Classifications, Reported, ReportedClass
<1> QED BY <1>2, <1>3, <1>4, OneRunInv

LEMMA CompleteRunInv == ASSUME Inv, NEW r \in Runs, CompleteRun(r) PROVE Inv'
<1> USE DEF Goto, Report, Outcome, control, NoResult, MaxWrites
<1>1. TypeOK /\ RunInv(r)
  BY DEF Inv
<1>2. TypeOK'
  BY <1>1, FailuresAreClassified
     DEF TypeOK, CompleteRun, Active, Terminal, Classifications
<1>3. Elsewhere(r)
  BY <1>1 DEF TypeOK, CompleteRun, Elsewhere
<1>4. RunInv(r)'
  BY <1>1, FailuresAreClassified
     DEF TypeOK, CompleteRun, RunInv, StageInv, RowInv, ResultInv, VerdictInv,
         Settled, Active, Terminal, Classifications
<1> QED BY <1>2, <1>3, <1>4, OneRunInv

LEMMA StopInv == ASSUME Inv, NEW r \in Runs, Stop(r) PROVE Inv'
<1> USE DEF Goto, Report, Outcome, control, NoResult, MaxWrites
<1>1. TypeOK /\ RunInv(r)
  BY DEF Inv
<1>2. TypeOK'
  BY <1>1, FailuresAreClassified
     DEF TypeOK, Stop, Active, Terminal, Classifications
<1>3. Elsewhere(r)
  BY <1>1 DEF TypeOK, Stop, Elsewhere
<1>4. RunInv(r)'
  BY <1>1, FailuresAreClassified
     DEF TypeOK, Stop, RunInv, StageInv, RowInv, ResultInv, VerdictInv,
         Settled, Active, Terminal, Classifications
<1> QED BY <1>2, <1>3, <1>4, OneRunInv

LEMMA RecoverOrphanInv == ASSUME Inv, NEW r \in Runs, RecoverOrphan(r) PROVE Inv'
<1> USE DEF Goto, Report, Outcome, control, NoResult, MaxWrites
<1>1. TypeOK /\ RunInv(r)
  BY DEF Inv
<1>2. TypeOK'
  BY <1>1, FailuresAreClassified
     DEF TypeOK, RecoverOrphan, Active, Terminal, Classifications
<1>3. Elsewhere(r)
  BY <1>1 DEF TypeOK, RecoverOrphan, Elsewhere
<1>4. RunInv(r)'
  BY <1>1, FailuresAreClassified
     DEF TypeOK, RecoverOrphan, RunInv, StageInv, RowInv, ResultInv, VerdictInv,
         Settled, Active, Terminal, Classifications
<1> QED BY <1>2, <1>3, <1>4, OneRunInv

LEMMA StutterInv == Inv /\ UNCHANGED vars => Inv'
<1> SUFFICES ASSUME Inv, UNCHANGED vars PROVE Inv'
  OBVIOUS
<1>1. TypeOK'
  BY DEF Inv, TypeOK, vars
<1>2. ASSUME NEW r \in Runs PROVE RunInv(r)'
  BY DEF Inv, RunInv, StageInv, RowInv, ResultInv, VerdictInv, Settled, vars
<1> QED BY <1>1, <1>2 DEF Inv

LEMMA Invariance == Spec => []Inv
<1>1. Inv /\ [Next]_vars => Inv'
  BY SkipByPlanInv, BeginRunInv, BeginRowInv, FailBeginRowInv, CollectSettingsInv,
     CollectAuditInv, CollectSecurityInv, StoreDataInv, FailToStoreInv,
     AdvanceCheckpointInv, CloseRowInv, RefuseClassificationInv, CompleteRunInv,
     StopInv, RecoverOrphanInv, StutterInv
     DEF Next, Step
<1> QED BY InitInv, <1>1, PTL DEF Spec

-----------------------------------------------------------------------------
(* Safety *)

LEMMA InvVerdictMatchesRow == Inv => VerdictMatchesRow
<1> SUFFICES ASSUME Inv, NEW r \in Runs, Settled(r)
             PROVE  row[r] # "OPEN" /\ (runStatus[r] = "SUCCESS" <=> row[r] = "PASS")
  BY DEF VerdictMatchesRow
<1>1. pc[r] = "returned"
  BY DEF Inv, TypeOK, RunInv, StageInv, Settled, Terminal
<1> QED BY <1>1 DEF Inv, RunInv, RowInv, VerdictInv

(* Whichever driver filled the tables, a settled run says of its row what  *)
(* the row says itself (complete_collection_run after complete_endpoint_   *)
(* run).                                                                   *)
THEOREM SettledVerdict == Spec => []VerdictMatchesRow
BY Invariance, InvVerdictMatchesRow, PTL

LEMMA InvPassMeansStored == Inv => PassMeansStored
BY DEF Inv, RunInv, VerdictInv, PassMeansStored

(* A PASS row stands for committed data, for any number of attempts the    *)
(* orchestrator made and whatever failed between them.                     *)
THEOREM StoredPass == Spec => []PassMeansStored
BY Invariance, InvPassMeansStored, PTL

LEMMA InvFinallySettles == Inv => FinallySettles
BY DEF Inv, RunInv, StageInv, RowInv, FinallySettles

(* The finally clauses of the settings and security drivers settle every   *)
(* run whose endpoint row they have begun.                                 *)
THEOREM FinallyClauses == Spec => []FinallySettles
BY Invariance, InvFinallySettles, PTL

-----------------------------------------------------------------------------
(* Refinement *)

LEMMA UnsettledInLedger ==
    ASSUME Inv, NEW r \in Runs, pc[r] \in Active
    PROVE  LedgerStatus[r] \in Ledger!Unsettled
BY DEF Inv, RunInv, StageInv, LedgerStatus, Ledger!Unsettled

LEMMA LedgerInit == Init => Ledger!Init
BY DEF Init, Ledger!Init, LedgerStatus, LedgerVerdict

LEMMA LedgerStutter ==
    ASSUME runStatus' = runStatus, orphaned' = orphaned, row' = row
    PROVE  UNCHANGED Ledger!vars
BY DEF Ledger!vars, LedgerStatus, LedgerVerdict

LEMMA BeginOpens ==
    ASSUME Inv, NEW r \in Runs, BeginRun(r) PROVE Ledger!Open(r)
<1>1. /\ TypeOK /\ runStatus[r] = "NONE" /\ ~orphaned[r]
      /\ runStatus' = [runStatus EXCEPT ![r] = "RUNNING"]
      /\ orphaned' = orphaned /\ row' = row
  BY DEF Inv, RunInv, StageInv, BeginRun, Goto
<1>2. ASSUME NEW q \in Runs
      PROVE  LedgerStatus'[q] = IF q = r THEN "OPEN" ELSE LedgerStatus[q]
  BY <1>1 DEF TypeOK, LedgerStatus
<1>3. LedgerStatus' = [LedgerStatus EXCEPT ![r] = "OPEN"]
  BY <1>2 DEF LedgerStatus
<1>4. LedgerStatus[r] = "NONE"
  BY <1>1 DEF LedgerStatus
<1>5. LedgerVerdict' = LedgerVerdict
  BY <1>1 DEF LedgerVerdict
<1> QED BY <1>3, <1>4, <1>5 DEF Ledger!Open

(* The row is still without a verdict when it is opened.                   *)
LEMMA BeginRowIsStutter ==
    ASSUME Inv, NEW r \in Runs, BeginRow(r) PROVE UNCHANGED Ledger!vars
<1>1. /\ TypeOK /\ row[r] = "ABSENT" /\ row' = [row EXCEPT ![r] = "OPEN"]
      /\ runStatus' = runStatus /\ orphaned' = orphaned
  BY DEF Inv, RunInv, RowInv, BeginRow, Goto
<1>2. LedgerStatus' = LedgerStatus
  BY <1>1 DEF LedgerStatus
<1>3. ASSUME NEW q \in Runs
      PROVE  (row'[q] \in {"PASS", "ERROR"} <=> row[q] \in {"PASS", "ERROR"})
             /\ (row[q] \in {"PASS", "ERROR"} => row'[q] = row[q])
  BY <1>1 DEF TypeOK
<1>4. LedgerVerdict' = LedgerVerdict
  BY <1>3 DEF LedgerVerdict
<1> QED BY <1>2, <1>4 DEF Ledger!vars

LEMMA CloseRecords ==
    ASSUME Inv, NEW r \in Runs, CloseRow(r) PROVE Ledger!Record(r, 1)
<1>1. PICK v \in {"PASS", "ERROR"} : row' = [row EXCEPT ![r] = v]
  BY DEF CloseRow
<1>2. /\ TypeOK /\ row[r] = "OPEN" /\ pc[r] \in Active
      /\ runStatus' = runStatus /\ orphaned' = orphaned
  BY DEF Inv, RunInv, RowInv, CloseRow, Goto, Active
<1>3. LedgerStatus[r] \in Ledger!Unsettled
  BY <1>2, UnsettledInLedger
<1>4. LedgerVerdict[r][1] = "PENDING"
  BY <1>2 DEF LedgerVerdict
<1>5. LedgerVerdict' = [LedgerVerdict EXCEPT ![r][1] = v]
  <2>1. ASSUME NEW q \in Runs
        PROVE  row'[q] = IF q = r THEN v ELSE row[q]
    BY <1>1, <1>2 DEF TypeOK
  <2>2. LedgerVerdict' = [q \in Runs |-> [e \in {1} |->
            IF q = r THEN v ELSE LedgerVerdict[q][e]]]
    BY <1>1, <2>1 DEF LedgerVerdict
  <2> QED BY <2>2 DEF LedgerVerdict
<1>6. LedgerStatus' = LedgerStatus
  BY <1>2 DEF LedgerStatus
<1> QED BY <1>1, <1>3, <1>4, <1>5, <1>6 DEF Ledger!Record, Ledger!Verdict

LEMMA CompleteSettles ==
    ASSUME Inv, NEW r \in Runs, CompleteRun(r) PROVE Ledger!Settle(r)
<1> DEFINE s == IF result[r].status = "PASS" THEN "SUCCESS" ELSE "FAILED"
<1>1. /\ TypeOK /\ pc[r] = "completing" /\ row' = row
      /\ runStatus' = [runStatus EXCEPT ![r] = s]
      /\ orphaned' = [orphaned EXCEPT ![r] = FALSE]
  BY DEF Inv, CompleteRun, Goto
<1>2. LedgerStatus[r] \in Ledger!Unsettled
  BY <1>1, UnsettledInLedger DEF Active
<1>3. /\ row[r] \in {"ABSENT", "PASS", "ERROR"}
      /\ result[r].status = "PASS" <=> row[r] = "PASS"
  BY <1>1 DEF Inv, TypeOK, RunInv, RowInv, VerdictInv
<1>4. s = IF row[r] = "PASS" THEN "SUCCESS" ELSE "FAILED"
  BY <1>3
<1>5. s # "RUNNING"
  OBVIOUS
<1> HIDE DEF s
<1>6. LedgerStatus' = [LedgerStatus EXCEPT ![r] = s]
  <2>1. ASSUME NEW q \in Runs
        PROVE  LedgerStatus'[q] = IF q = r THEN s ELSE LedgerStatus[q]
    BY <1>1, <1>5 DEF TypeOK, LedgerStatus
  <2> QED BY <2>1 DEF LedgerStatus
<1>7. LedgerVerdict' = LedgerVerdict
  BY <1>1 DEF LedgerVerdict
<1>8. CASE row[r] = "ABSENT"
  <2>1. s = "FAILED" /\ \A e \in {1} : LedgerVerdict[r][e] = "PENDING"
    BY <1>4, <1>8 DEF LedgerVerdict
  <2> QED BY <1>2, <1>6, <1>7, <2>1 DEF Ledger!Settle
<1>9. CASE row[r] \in {"PASS", "ERROR"}
  <2>1. \A e \in {1} : LedgerVerdict[r][e] \in Ledger!Verdict
    BY <1>9 DEF LedgerVerdict, Ledger!Verdict
  <2>2. LedgerVerdict[r][1] = row[r]
    BY <1>9 DEF LedgerVerdict
  <2>3. Ledger!PassedIn(r) = IF row[r] = "PASS" THEN {1} ELSE {}
    BY <2>2 DEF Ledger!PassedIn
  <2>4. s = Ledger!Reconciled(Ledger!PassedIn(r))
    BY <1>4, <2>3 DEF Ledger!Reconciled
  <2> QED BY <1>2, <1>6, <1>7, <2>1, <2>4 DEF Ledger!Settle
<1> QED BY <1>3, <1>8, <1>9

LEMMA RecoveryDeclaresOrphan ==
    ASSUME Inv, NEW r \in Runs, RecoverOrphan(r) PROVE Ledger!DeclareOrphan(r)
<1>1. /\ TypeOK /\ runStatus[r] = "RUNNING" /\ ~orphaned[r]
      /\ runStatus' = [runStatus EXCEPT ![r] = "FAILED"]
      /\ orphaned' = [orphaned EXCEPT ![r] = TRUE]
      /\ row' = row
  BY DEF Inv, RunInv, StageInv, RecoverOrphan
<1>2. ASSUME NEW q \in Runs
      PROVE  LedgerStatus'[q] = IF q = r THEN "ORPHAN" ELSE LedgerStatus[q]
  BY <1>1 DEF TypeOK, LedgerStatus
<1>3. LedgerStatus' = [LedgerStatus EXCEPT ![r] = "ORPHAN"]
  BY <1>2 DEF LedgerStatus
<1>4. LedgerStatus[r] = "OPEN"
  BY <1>1 DEF LedgerStatus
<1>5. LedgerVerdict' = LedgerVerdict
  BY <1>1 DEF LedgerVerdict
<1> QED BY <1>3, <1>4, <1>5 DEF Ledger!DeclareOrphan

LEMMA LedgerStep == Inv /\ [Next]_vars => [Ledger!Next]_(Ledger!vars)
<1> SUFFICES ASSUME Inv, [Next]_vars
             PROVE  Ledger!Next \/ UNCHANGED Ledger!vars
  OBVIOUS
<1>1. CASE UNCHANGED vars
  BY <1>1, LedgerStutter DEF vars
<1>2. ASSUME NEW r \in Runs, Step(r) \/ Stop(r) \/ RecoverOrphan(r)
      PROVE  Ledger!Next \/ UNCHANGED Ledger!vars
  <2>1. CASE BeginRun(r)
    BY <2>1, BeginOpens DEF Ledger!Next
  <2>2. CASE BeginRow(r)
    BY <2>2, BeginRowIsStutter
  <2>3. CASE CloseRow(r)
    BY <2>3, CloseRecords DEF Ledger!Next
  <2>4. CASE CompleteRun(r)
    BY <2>4, CompleteSettles DEF Ledger!Next
  <2>5. CASE RecoverOrphan(r)
    BY <2>5, RecoveryDeclaresOrphan DEF Ledger!Next
  <2>6. CASE \/ SkipByPlan(r) \/ FailBeginRow(r) \/ CollectSettings(r)
             \/ CollectAudit(r) \/ CollectSecurity(r) \/ StoreData(r)
             \/ FailToStore(r) \/ AdvanceCheckpoint(r)
             \/ RefuseClassification(r) \/ Stop(r)
    <3>1. runStatus' = runStatus /\ orphaned' = orphaned /\ row' = row
      BY <2>6 DEF SkipByPlan, FailBeginRow, CollectSettings, CollectAudit,
         CollectSecurity, StoreData, FailToStore, AdvanceCheckpoint,
         RefuseClassification, Stop, control
    <3> QED BY <3>1, LedgerStutter
  <2> QED BY <1>2, <2>1, <2>2, <2>3, <2>4, <2>5, <2>6 DEF Step
<1> QED BY <1>1, <1>2 DEF Next

(* The drivers that bypass CollectorRuntime.run implement the same ledger, *)
(* with their crashes, refusals and the operator's recovery.               *)
THEOREM ImplementsLedger == Spec => LedgerSpec
BY Invariance, LedgerInit, LedgerStep, PTL
   DEF Spec, LedgerSpec, Ledger!Spec

=============================================================================
