------------------------- MODULE CollectionRunProofs -------------------------
(***************************************************************************)
(* Proofs about CollectionRun for any number of runs and endpoints and any *)
(* classification of failures: its type invariant, the inductive invariant *)
(* behind its safety properties, and that it implements RunLedger.         *)
(***************************************************************************)
EXTENDS CollectionRun, FiniteSetTheorems, TLAPS

-----------------------------------------------------------------------------
(* The inductive invariant, run by run. *)

(* Where the process stands, against the status of its row: a verdict the  *)
(* runtime wrote belongs to a process that has returned.                   *)
StageInv(r) ==
    /\ orphaned[r] => runStatus[r] = "FAILED"
    /\ pc[r] \in Active \cup {"raised", "killed"} =>
            runStatus[r] = "RUNNING" \/ orphaned[r]
    /\ pc[r] = "new" => runStatus[r] = "NONE"
    /\ pc[r] \in {"new", "planning", "token"} => pos[r] = 1
    /\ pc[r] = "token" => skipped[r] # Endpoint

(* The endpoint rows follow the loop's position. *)
RowInv(r) ==
    /\ \A e \in Endpoint :
        /\ e < pos[r] => row[r][e] \in Closed
        /\ e = pos[r] => row[r][e] \in {"ABSENT", "OPEN"}
        /\ e > pos[r] => row[r][e] = "ABSENT"
        /\ row[r][e] \in Closed => row[r][e] = RowStatus(results[r][e])
    /\ pc[r] \in {"executing", "writing", "closing"} =>
            pos[r] \in Endpoint /\ row[r][pos[r]] = "OPEN"
    /\ pc[r] \in {"new", "planning", "token", "loop"} =>
            \A e \in Endpoint : row[r][e] # "OPEN"

(* Committed data, the result in memory and the endpoint row agree. *)
DataInv(r) ==
    /\ \A e \in Endpoint :
        /\ e \in committed[r] => results[r][e] = "PASS"
        /\ e \in committed[r] => row[r][e] \in {"OPEN", "PASS"}
        /\ row[r][e] = "PASS" => e \in committed[r]
        /\ e \in committed[r] => e \notin skipped[r]
    /\ pc[r] \in {"executing", "writing"} =>
            pos[r] \notin skipped[r] /\ pos[r] \notin committed[r]
    /\ pc[r] = "writing" => results[r][pos[r]] = "PASS"
    /\ pc[r] = "closing" /\ results[r][pos[r]] = "PASS" =>
            pos[r] \in committed[r]

RunInv(r) == StageInv(r) /\ RowInv(r) /\ DataInv(r) /\ ReconciledRun(r)

CheckpointInv ==
    \A e \in Endpoint :
        checkpoint[e] # NoRun => row[checkpoint[e]][e] = "PASS"

-----------------------------------------------------------------------------
(* Type correctness *)

(* A set of endpoints is finite, and counting it gives a number. *)
LEMMA EndpointSubsetsFinite ==
    ASSUME NEW S \in SUBSET Endpoint
    PROVE  IsFiniteSet(S) /\ Cardinality(S) \in Nat
<1>1. IsFiniteSet(Endpoint)
  BY EndpointsAssumption, FS_Interval DEF Endpoint
<1>2. IsFiniteSet(S)
  BY <1>1, FS_Subset
<1> QED
  BY <1>2, FS_CardinalityType

(* What complete_collection_run writes has the types of its columns. *)
LEMMA WriteVerdictType ==
    ASSUME TypeOK, NEW r \in Runs, NEW P \in SUBSET Endpoint,
           WriteVerdict(r, P)
    PROVE  /\ runStatus' \in [Runs -> {"NONE", "RUNNING"} \cup Terminal]
           /\ counts' \in [Runs -> [passed : Nat, failed : Nat]]
           /\ orphaned' \in [Runs -> BOOLEAN]
<1>1. Cardinality(P) \in Nat /\ Cardinality(Endpoint \ P) \in Nat
  <2>1. Endpoint \ P \in SUBSET Endpoint
    OBVIOUS
  <2> QED BY <2>1, EndpointSubsetsFinite
<1>2. Verdict(P) \in Terminal
  BY DEF Verdict, Terminal
<1>3. runStatus' \in [Runs -> {"NONE", "RUNNING"} \cup Terminal]
  BY <1>2 DEF TypeOK, WriteVerdict
<1>4. counts' \in [Runs -> [passed : Nat, failed : Nat]]
  <2>1. [passed |-> Cardinality(P), failed |-> Cardinality(Endpoint \ P)]
            \in [passed : Nat, failed : Nat]
    BY <1>1
  <2> QED BY <2>1 DEF TypeOK, WriteVerdict
<1>5. orphaned' \in [Runs -> BOOLEAN]
  BY DEF TypeOK, WriteVerdict
<1> QED BY <1>3, <1>4, <1>5

(* TypeOK alone is not inductive: complete_endpoint_run moves the position *)
(* on, and stays in range because a process that has an endpoint in hand   *)
(* stands at an endpoint.                                                  *)
PositionInv ==
    \A r \in Runs :
        pc[r] \in {"executing", "writing", "closing"} => pos[r] \in Endpoint

TypeInv == TypeOK /\ PositionInv

LEMMA TypeInit == Init => TypeInv
BY EndpointsAssumption
   DEF Init, TypeInv, PositionInv, TypeOK, Endpoint, Outcomes, Active, Stopped,
       Terminal, Closed

LEMMA PositionStep == TypeInv /\ [Next]_vars => PositionInv'
<1> SUFFICES ASSUME TypeInv, [Next]_vars PROVE PositionInv'
  OBVIOUS
<1>1. CASE UNCHANGED vars
  BY <1>1 DEF TypeInv, PositionInv, vars
<1>2. ASSUME NEW r \in Runs, Step(r) \/ Stop(r) \/ RecoverOrphan(r)
      PROVE  PositionInv'
  <2>1. CASE BeginEndpoint(r)
    BY <2>1 DEF TypeInv, TypeOK, PositionInv, BeginEndpoint, Goto
  <2>2. CASE CloseEndpoint(r)
    BY <2>2 DEF TypeInv, TypeOK, PositionInv, CloseEndpoint, Goto
  <2>3. CASE PlanEndpoints(r)
    BY <2>3 DEF TypeInv, TypeOK, PositionInv, PlanEndpoints, Goto
  <2>4. CASE \/ RejectConfiguration(r) \/ BeginCollectionRun(r)
             \/ AcquireToken(r) \/ FailToken(r) \/ Stop(r)
             \/ RefuseClassification(r) \/ CompleteCollectionRun(r)
    BY <2>4 DEF TypeInv, TypeOK, PositionInv, RejectConfiguration,
       BeginCollectionRun, AcquireToken, FailToken, Stop,
       RefuseClassification, CompleteCollectionRun, Goto
  <2>5. CASE \/ CollectRecords(r) \/ FailCollection(r) \/ WriteRecords(r)
             \/ FailWrite(r) \/ ExecuteUsageReport(r)
    BY <2>5 DEF TypeInv, TypeOK, PositionInv, CollectRecords, FailCollection,
       WriteRecords, FailWrite, ExecuteUsageReport, Goto
  <2>6. CASE RecoverOrphan(r)
    BY <2>6 DEF TypeInv, PositionInv, RecoverOrphan, process
  <2> QED
    BY <1>2, <2>1, <2>2, <2>3, <2>4, <2>5, <2>6 DEF Step
<1> QED BY <1>1, <1>2 DEF Next

LEMMA TypeStep == TypeInv /\ [Next]_vars => TypeInv'
<1> SUFFICES ASSUME TypeInv, [Next]_vars PROVE TypeOK'
  BY PositionStep DEF TypeInv
<1>0. TypeOK /\ PositionInv
  BY DEF TypeInv
<1>a. /\ GraphFailures \subseteq Outcomes
      /\ UsageFailures \subseteq Outcomes
      /\ {"PASS", "SKIPPED", "PERSISTENCE_ERROR"} \subseteq Outcomes
  BY FailuresAssumption DEF Outcomes, GraphFailureVocabulary
<1> USE EndpointsAssumption
<1>1. CASE UNCHANGED vars
  BY <1>0, <1>1 DEF TypeOK, vars
<1>2. ASSUME NEW r \in Runs, Step(r) \/ Stop(r) \/ RecoverOrphan(r)
      PROVE  TypeOK'
  <2> USE DEF Goto, Active, Stopped, runRow, process
  <2>1. CASE RejectConfiguration(r)
    BY <1>0, <2>1 DEF TypeOK, RejectConfiguration
  <2>2. CASE BeginCollectionRun(r)
    BY <1>0, <2>2 DEF TypeOK, BeginCollectionRun
  <2>3. CASE PlanEndpoints(r)
    BY <1>0, <2>3 DEF TypeOK, PlanEndpoints
  <2>4. CASE AcquireToken(r)
    BY <1>0, <2>4 DEF TypeOK, AcquireToken
  <2>5. CASE FailToken(r)
    <3>1. {} \in SUBSET Endpoint
      OBVIOUS
    <3>2. results' \in [Runs -> [Endpoint -> Outcomes]]
      <4>1. [e \in Endpoint |-> "AUTH_FAILURE"] \in [Endpoint -> Outcomes]
        BY DEF Outcomes, GraphFailureVocabulary
      <4> QED BY <1>0, <2>5, <4>1 DEF TypeOK, FailToken
    <3> QED
      BY <1>0, <2>5, <3>1, <3>2, WriteVerdictType DEF TypeOK, FailToken
  <2>6. CASE BeginEndpoint(r)
    <3>1. results' \in [Runs -> [Endpoint -> Outcomes]]
      <4>1. \/ results' = [results EXCEPT ![r][pos[r]] = "SKIPPED"]
            \/ results' = results
        BY <2>6 DEF BeginEndpoint
      <4>2. "SKIPPED" \in Outcomes
        BY <1>a
      <4>3. CASE results' = [results EXCEPT ![r][pos[r]] = "SKIPPED"]
        BY <1>0, <4>2, <4>3 DEF TypeOK
      <4>4. CASE results' = results
        BY <1>0, <4>4 DEF TypeOK
      <4> QED BY <4>1, <4>3, <4>4
    <3>2. row' \in [Runs -> [Endpoint -> {"ABSENT", "OPEN"} \cup Closed]]
      BY <1>0, <2>6 DEF TypeOK, BeginEndpoint
    <3> QED BY <1>0, <2>6, <3>1, <3>2 DEF TypeOK, BeginEndpoint
  <2>7. CASE CollectRecords(r)
    BY <1>0, <1>a, <2>7 DEF TypeOK, CollectRecords
  <2>8. CASE FailCollection(r)
    <3>1. PICK f \in GraphFailures :
              results' = [results EXCEPT ![r][pos[r]] = f]
      BY <2>8 DEF FailCollection
    <3>2. results' \in [Runs -> [Endpoint -> Outcomes]]
      BY <1>0, <1>a, <3>1 DEF TypeOK
    <3> QED BY <1>0, <2>8, <3>2 DEF TypeOK, FailCollection
  <2>9. CASE WriteRecords(r)
    <3>1. pos[r] \in Endpoint
      BY <1>0, <2>9 DEF PositionInv, WriteRecords
    <3> QED BY <1>0, <2>9, <3>1 DEF TypeOK, WriteRecords
  <2>10. CASE FailWrite(r)
    BY <1>0, <1>a, <2>10 DEF TypeOK, FailWrite
  <2>11. CASE ExecuteUsageReport(r)
    <3>1. committed' \in [Runs -> SUBSET Endpoint]
      <4>1. committed[r] \cup {pos[r]} \in SUBSET Endpoint
        BY <1>0, <2>11 DEF TypeOK, ExecuteUsageReport
      <4> QED BY <1>0, <2>11, <4>1 DEF TypeOK, ExecuteUsageReport
    <3>2. results' \in [Runs -> [Endpoint -> Outcomes]]
      <4>1. PICK f \in UsageFailures \cup {"PASS"} :
                results' = [results EXCEPT ![r][pos[r]] = f]
        BY <2>11 DEF ExecuteUsageReport
      <4> QED BY <1>0, <1>a, <4>1 DEF TypeOK
    <3> QED BY <1>0, <2>11, <3>1, <3>2 DEF TypeOK, ExecuteUsageReport
  <2>12. CASE CloseEndpoint(r)
    <3>1. pos[r] \in Endpoint
      BY <1>0, <2>12 DEF PositionInv, CloseEndpoint
    <3>2. pos' \in [Runs -> 1..(NumEndpoints + 1)]
      BY <1>0, <2>12, <3>1 DEF TypeOK, CloseEndpoint, Endpoint
    <3>3. row' \in [Runs -> [Endpoint -> {"ABSENT", "OPEN"} \cup Closed]]
      BY <1>0, <2>12, <3>1 DEF TypeOK, CloseEndpoint, RowStatus, Closed
    <3>4. checkpoint' \in [Endpoint -> Runs \cup {NoRun}]
      BY <1>0, <2>12, <3>1 DEF TypeOK, CloseEndpoint
    <3> QED
      BY <1>0, <2>12, <3>2, <3>3, <3>4 DEF TypeOK, CloseEndpoint
  <2>13. CASE RefuseClassification(r)
    BY <1>0, <2>13 DEF TypeOK, RefuseClassification
  <2>14. CASE CompleteCollectionRun(r)
    <3>1. Passed(r) \in SUBSET Endpoint
      BY DEF Passed
    <3> QED
      BY <1>0, <2>14, <3>1, WriteVerdictType DEF TypeOK, CompleteCollectionRun
  <2>15. CASE Stop(r)
    BY <1>0, <2>15 DEF TypeOK, Stop
  <2>16. CASE RecoverOrphan(r)
    BY <1>0, <2>16 DEF TypeOK, RecoverOrphan, Terminal
  <2> QED
    BY <1>2, <2>1, <2>2, <2>3, <2>4, <2>5, <2>6, <2>7, <2>8, <2>9, <2>10,
       <2>11, <2>12, <2>13, <2>14, <2>15, <2>16 DEF Step
<1> QED BY <1>1, <1>2 DEF Next

(* Every variable of the control tables and of the processes keeps its     *)
(* type, the counters included.                                            *)
THEOREM TypeCorrect == Spec => []TypeOK
<1>1. TypeInv => TypeOK
  BY DEF TypeInv
<1> QED BY TypeInit, TypeStep, <1>1, PTL DEF Spec

-----------------------------------------------------------------------------
(* A step of one run leaves the others alone. *)

SameRun(q) ==
    /\ pc'[q] = pc[q]
    /\ pos'[q] = pos[q]
    /\ skipped'[q] = skipped[q]
    /\ results'[q] = results[q]
    /\ runStatus'[q] = runStatus[q]
    /\ counts'[q] = counts[q]
    /\ orphaned'[q] = orphaned[q]
    /\ row'[q] = row[q]
    /\ committed'[q] = committed[q]

(* Runs share no control row: what one process does, it does to its own.   *)
LEMMA OthersUntouched ==
    ASSUME TypeOK, NEW p \in Runs, NEW q \in Runs, p # q,
           Step(p) \/ Stop(p) \/ RecoverOrphan(p)
    PROVE  SameRun(q)
<1> USE DEF SameRun, TypeOK, Goto, runRow, process, WriteVerdict
<1>1. CASE RejectConfiguration(p)
  BY <1>1 DEF RejectConfiguration
<1>2. CASE BeginCollectionRun(p)
  BY <1>2 DEF BeginCollectionRun
<1>3. CASE PlanEndpoints(p)
  BY <1>3 DEF PlanEndpoints
<1>4. CASE AcquireToken(p)
  BY <1>4 DEF AcquireToken
<1>5. CASE FailToken(p)
  BY <1>5 DEF FailToken
<1>6. CASE BeginEndpoint(p)
  BY <1>6 DEF BeginEndpoint
<1>7. CASE CollectRecords(p)
  BY <1>7 DEF CollectRecords
<1>8. CASE FailCollection(p)
  BY <1>8 DEF FailCollection
<1>9. CASE WriteRecords(p)
  BY <1>9 DEF WriteRecords
<1>10. CASE FailWrite(p)
  BY <1>10 DEF FailWrite
<1>11. CASE ExecuteUsageReport(p)
  BY <1>11 DEF ExecuteUsageReport
<1>12. CASE CloseEndpoint(p)
  BY <1>12 DEF CloseEndpoint
<1>13. CASE RefuseClassification(p)
  BY <1>13 DEF RefuseClassification
<1>14. CASE CompleteCollectionRun(p)
  BY <1>14 DEF CompleteCollectionRun
<1>15. CASE Stop(p)
  BY <1>15 DEF Stop
<1>16. CASE RecoverOrphan(p)
  BY <1>16 DEF RecoverOrphan
<1> QED
  BY <1>1, <1>2, <1>3, <1>4, <1>5, <1>6, <1>7, <1>8,
     <1>9, <1>10, <1>11, <1>12, <1>13, <1>14, <1>15, <1>16 DEF Step

(* The invariant of a run depends on nothing but that run. *)
LEMMA RunFrame ==
    ASSUME NEW q \in Runs, SameRun(q), RunInv(q)
    PROVE  RunInv(q)'
<1>1. RowsPassed(q)' = RowsPassed(q)
  BY DEF SameRun, RowsPassed
<1>2. StageInv(q)'
  BY DEF SameRun, RunInv, StageInv
<1>3. RowInv(q)'
  BY DEF SameRun, RunInv, RowInv
<1>4. DataInv(q)'
  BY DEF SameRun, RunInv, DataInv
<1>5. ReconciledRun(q)'
  BY <1>1 DEF SameRun, RunInv, ReconciledRun
<1> QED BY <1>2, <1>3, <1>4, <1>5 DEF RunInv

-----------------------------------------------------------------------------
(* A step of a run keeps the run's own invariant. *)

(* While a process is at work its row has no verdict of the runtime, so a  *)
(* step that leaves the row alone owes the reconciliation nothing.         *)
LEMMA UnsettledStep ==
    ASSUME NEW r \in Runs, StageInv(r), pc[r] \in Active \cup {"new"},
           runStatus'[r] = runStatus[r] \/ runStatus'[r] = "RUNNING",
           orphaned'[r] = orphaned[r]
    PROVE  ReconciledRun(r)'
BY DEF StageInv, ReconciledRun, Terminal

(* Before the loop, a run has no endpoint rows and no data. *)
LEMMA NothingYet ==
    ASSUME TypeInv, NEW r \in Runs, RunInv(r),
           pc[r] \in {"new", "planning", "token"}
    PROVE  \A e \in Endpoint : row[r][e] = "ABSENT" /\ e \notin committed[r]
<1>1. \A e \in Endpoint : row[r][e] = "ABSENT"
  BY EndpointsAssumption
     DEF TypeInv, TypeOK, RunInv, StageInv, RowInv, Endpoint
<1> QED BY <1>1 DEF RunInv, DataInv

LEMMA RunStep ==
    ASSUME TypeInv, NEW r \in Runs, RunInv(r),
           Step(r) \/ Stop(r) \/ RecoverOrphan(r)
    PROVE  RunInv(r)'
<1> USE DEF TypeInv, TypeOK, Goto, runRow, process
<1>0. StageInv(r) /\ RowInv(r) /\ DataInv(r) /\ ReconciledRun(r)
  BY DEF RunInv
<1>1. CASE RejectConfiguration(r)
  <2>1. StageInv(r)'
    BY <1>0, <1>1 DEF RejectConfiguration, StageInv, Active
  <2>2. RowInv(r)'
    BY <1>0, <1>1 DEF RejectConfiguration, RowInv, Endpoint, Closed
  <2>3. DataInv(r)'
    BY <1>0, <1>1 DEF RejectConfiguration, DataInv, RowInv
  <2>4. ReconciledRun(r)'
    BY <1>0, <1>1, UnsettledStep DEF RejectConfiguration, Active
  <2> QED BY <2>1, <2>2, <2>3, <2>4 DEF RunInv
<1>2. CASE BeginCollectionRun(r)
  <2>1. StageInv(r)'
    BY <1>0, <1>2 DEF BeginCollectionRun, StageInv, Active
  <2>2. RowInv(r)'
    BY <1>0, <1>2 DEF BeginCollectionRun, RowInv, Endpoint, Closed
  <2>3. DataInv(r)'
    BY <1>0, <1>2 DEF BeginCollectionRun, DataInv, RowInv
  <2>4. ReconciledRun(r)'
    BY <1>0, <1>2, UnsettledStep DEF BeginCollectionRun, Active
  <2> QED BY <2>1, <2>2, <2>3, <2>4 DEF RunInv
<1>3. CASE PlanEndpoints(r)
  <2>1. StageInv(r)'
    BY <1>0, <1>3 DEF PlanEndpoints, StageInv, Active
  <2>2. RowInv(r)'
    BY <1>0, <1>3 DEF PlanEndpoints, RowInv, Endpoint, Closed, StageInv
  <2>3. DataInv(r)'
    BY <1>0, <1>3, NothingYet DEF PlanEndpoints, DataInv
  <2>4. ReconciledRun(r)'
    BY <1>0, <1>3, UnsettledStep DEF PlanEndpoints, Active
  <2> QED BY <2>1, <2>2, <2>3, <2>4 DEF RunInv
<1>4. CASE AcquireToken(r)
  <2>1. StageInv(r)'
    BY <1>0, <1>4 DEF AcquireToken, StageInv, Active
  <2>2. RowInv(r)'
    BY <1>0, <1>4 DEF AcquireToken, RowInv, Endpoint, Closed
  <2>3. DataInv(r)'
    BY <1>0, <1>4 DEF AcquireToken, DataInv, RowInv
  <2>4. ReconciledRun(r)'
    BY <1>0, <1>4, UnsettledStep DEF AcquireToken, Active
  <2> QED BY <2>1, <2>2, <2>3, <2>4 DEF RunInv
<1>5. CASE FailToken(r)
  <2>1. StageInv(r)'
    BY <1>0, <1>5 DEF FailToken, StageInv, Active, WriteVerdict
  <2>2. RowInv(r)'
    BY <1>0, <1>5 DEF FailToken, RowInv, Endpoint, Closed, StageInv
  <2>3. DataInv(r)'
    BY <1>0, <1>5, NothingYet DEF FailToken, DataInv
  <2>4. ReconciledRun(r)'
    <3>1. Endpoint # {} /\ Endpoint \ {} = Endpoint
      <4>1. 1 \in Endpoint
        BY EndpointsAssumption DEF Endpoint
      <4> QED BY <4>1
    <3>2. Cardinality({}) = 0
      BY FS_EmptySet
    <3>3. /\ runStatus'[r] = "FAILED"
          /\ counts'[r] = [passed |-> 0, failed |-> Cardinality(Endpoint)]
      BY <1>5, <3>1, <3>2 DEF FailToken, WriteVerdict, Verdict
    <3>4. \A e \in Endpoint : row'[r][e] = "ABSENT"
      BY <1>0, <1>5, NothingYet DEF FailToken
    <3> QED BY <3>3, <3>4 DEF ReconciledRun
  <2> QED BY <2>1, <2>2, <2>3, <2>4 DEF RunInv
<1>6. CASE BeginEndpoint(r)
  <2>1. StageInv(r)'
    BY <1>0, <1>6 DEF BeginEndpoint, StageInv, Active
  <2>2. RowInv(r)'
    <3>1. /\ pos'[r] = pos[r]
          /\ pos[r] \in Endpoint
          /\ pc'[r] \in {"executing", "closing"}
          /\ row'[r][pos[r]] = "OPEN"
      BY <1>6 DEF BeginEndpoint
    <3>2. \A e \in Endpoint \ {pos[r]} :
              row'[r][e] = row[r][e] /\ results'[r][e] = results[r][e]
      BY <1>6 DEF BeginEndpoint
    <3> QED BY <1>0, <3>1, <3>2 DEF RowInv, Endpoint, Closed
  <2>3. DataInv(r)'
    BY <1>0, <1>6 DEF BeginEndpoint, DataInv, RowInv
  <2>4. ReconciledRun(r)'
    BY <1>0, <1>6, UnsettledStep DEF BeginEndpoint, Active
  <2> QED BY <2>1, <2>2, <2>3, <2>4 DEF RunInv
<1>7. CASE CollectRecords(r)
  <2>1. StageInv(r)'
    BY <1>0, <1>7 DEF CollectRecords, StageInv, Active
  <2>2. RowInv(r)'
    BY <1>0, <1>7 DEF CollectRecords, RowInv, Endpoint, Closed
  <2>3. DataInv(r)'
    BY <1>0, <1>7 DEF CollectRecords, DataInv, RowInv
  <2>4. ReconciledRun(r)'
    BY <1>0, <1>7, UnsettledStep DEF CollectRecords, Active
  <2> QED BY <2>1, <2>2, <2>3, <2>4 DEF RunInv
<1>8. CASE FailCollection(r)
  <2>1. StageInv(r)'
    BY <1>0, <1>8 DEF FailCollection, StageInv, Active
  <2>2. RowInv(r)'
    BY <1>0, <1>8 DEF FailCollection, RowInv, Endpoint, Closed
  <2>3. DataInv(r)'
    <3>1. PICK f \in GraphFailures :
              results' = [results EXCEPT ![r][pos[r]] = f]
      BY <1>8 DEF FailCollection
    <3>2. f # "PASS"
      BY FailuresAssumption DEF GraphFailureVocabulary
    <3> QED
      BY <1>0, <1>8, <3>1, <3>2 DEF FailCollection, DataInv, RowInv
  <2>4. ReconciledRun(r)'
    BY <1>0, <1>8, UnsettledStep DEF FailCollection, Active
  <2> QED BY <2>1, <2>2, <2>3, <2>4 DEF RunInv
<1>9. CASE WriteRecords(r)
  <2>1. StageInv(r)'
    BY <1>0, <1>9 DEF WriteRecords, StageInv, Active
  <2>2. RowInv(r)'
    BY <1>0, <1>9 DEF WriteRecords, RowInv, Endpoint, Closed
  <2>3. DataInv(r)'
    <3>1. /\ committed'[r] = committed[r] \cup {pos[r]}
          /\ results'[r] = results[r] /\ row'[r] = row[r]
          /\ skipped'[r] = skipped[r] /\ pos'[r] = pos[r]
          /\ pc'[r] = "closing" /\ pc[r] = "writing"
      BY <1>9 DEF WriteRecords
    <3>2. row[r][pos[r]] = "OPEN"
      BY <1>0, <3>1 DEF RowInv
    <3> QED BY <1>0, <3>1, <3>2 DEF DataInv
  <2>4. ReconciledRun(r)'
    BY <1>0, <1>9, UnsettledStep DEF WriteRecords, Active
  <2> QED BY <2>1, <2>2, <2>3, <2>4 DEF RunInv
<1>10. CASE FailWrite(r)
  <2>1. StageInv(r)'
    BY <1>0, <1>10 DEF FailWrite, StageInv, Active
  <2>2. RowInv(r)'
    BY <1>0, <1>10 DEF FailWrite, RowInv, Endpoint, Closed
  <2>3. DataInv(r)'
    BY <1>0, <1>10 DEF FailWrite, DataInv, RowInv
  <2>4. ReconciledRun(r)'
    BY <1>0, <1>10, UnsettledStep DEF FailWrite, Active
  <2> QED BY <2>1, <2>2, <2>3, <2>4 DEF RunInv
<1>11. CASE ExecuteUsageReport(r)
  <2>1. StageInv(r)'
    BY <1>0, <1>11 DEF ExecuteUsageReport, StageInv, Active
  <2>2. RowInv(r)'
    <3>1. /\ pos'[r] = pos[r] /\ row'[r] = row[r]
          /\ pc[r] = "executing" /\ pc'[r] = "closing"
      BY <1>11 DEF ExecuteUsageReport
    <3>2. \A e \in Endpoint \ {pos[r]} : results'[r][e] = results[r][e]
      BY <1>11 DEF ExecuteUsageReport
    <3> QED BY <1>0, <3>1, <3>2 DEF RowInv, Closed
  <2>3. DataInv(r)'
    <3>1. /\ row'[r] = row[r] /\ pos'[r] = pos[r]
          /\ skipped'[r] = skipped[r]
          /\ pc[r] = "executing" /\ pc'[r] = "closing"
      BY <1>11 DEF ExecuteUsageReport
    <3>2. /\ row[r][pos[r]] = "OPEN"
          /\ pos[r] \in Endpoint
          /\ pos[r] \notin skipped[r] /\ pos[r] \notin committed[r]
      BY <1>0, <3>1 DEF RowInv, DataInv
    <3>3. CASE /\ results' = [results EXCEPT ![r][pos[r]] = "PASS"]
               /\ committed' = [committed EXCEPT ![r] = @ \cup {pos[r]}]
      BY <1>0, <3>1, <3>2, <3>3 DEF DataInv
    <3>4. CASE /\ \E f \in UsageFailures :
                       results' = [results EXCEPT ![r][pos[r]] = f]
               /\ committed' = committed
      <4>1. PICK f \in UsageFailures :
                results' = [results EXCEPT ![r][pos[r]] = f]
        BY <3>4
      <4>2. f # "PASS"
        BY FailuresAssumption DEF UsageFailureVocabulary
      <4> QED BY <1>0, <3>1, <3>2, <3>4, <4>1, <4>2 DEF DataInv
    <3> QED BY <1>11, <3>3, <3>4 DEF ExecuteUsageReport
  <2>4. ReconciledRun(r)'
    BY <1>0, <1>11, UnsettledStep DEF ExecuteUsageReport, Active
  <2> QED BY <2>1, <2>2, <2>3, <2>4 DEF RunInv
<1>12. CASE CloseEndpoint(r)
  <2>1. StageInv(r)'
    BY <1>0, <1>12 DEF CloseEndpoint, StageInv, Active
  <2>2. RowInv(r)'
    <3>1. /\ pos[r] \in Endpoint /\ pos'[r] = pos[r] + 1
          /\ pc'[r] = "loop"
          /\ results'[r] = results[r]
          /\ row'[r][pos[r]] = RowStatus(results[r][pos[r]])
      BY <1>0, <1>12 DEF CloseEndpoint, RowInv
    <3>2. \A e \in Endpoint \ {pos[r]} : row'[r][e] = row[r][e]
      BY <1>12 DEF CloseEndpoint
    <3>3. RowStatus(results[r][pos[r]]) \in Closed
      BY DEF RowStatus, Closed
    <3>4. \A e \in Endpoint :
              /\ e < pos[r] + 1 <=> e < pos[r] \/ e = pos[r]
              /\ e = pos[r] + 1 => e > pos[r]
              /\ e > pos[r] + 1 => e > pos[r]
      BY <3>1 DEF Endpoint
    <3>5. \A e \in Endpoint :
              /\ e < pos'[r] => row'[r][e] \in Closed
              /\ e = pos'[r] => row'[r][e] \in {"ABSENT", "OPEN"}
              /\ e > pos'[r] => row'[r][e] = "ABSENT"
              /\ row'[r][e] \in Closed => row'[r][e] = RowStatus(results'[r][e])
      BY <1>0, <3>1, <3>2, <3>3, <3>4 DEF RowInv, Endpoint
    <3>6. \A e \in Endpoint : row'[r][e] # "OPEN"
      <4>1. \A e \in Endpoint : e < pos[r] \/ e = pos[r] \/ e > pos[r]
        BY <3>1 DEF Endpoint
      <4>2. \A e \in Endpoint :
                row'[r][e] \in Closed \/ row'[r][e] = "ABSENT"
        BY <1>0, <3>1, <3>2, <3>3, <4>1 DEF RowInv
      <4> QED BY <4>2 DEF Closed
    <3> QED BY <3>1, <3>5, <3>6 DEF RowInv
  <2>3. DataInv(r)'
    <3>1. /\ pos[r] \in Endpoint
          /\ pc[r] = "closing" /\ pc'[r] = "loop"
          /\ results'[r] = results[r]
          /\ committed'[r] = committed[r] /\ skipped'[r] = skipped[r]
          /\ row'[r][pos[r]] = RowStatus(results[r][pos[r]])
      BY <1>0, <1>12 DEF CloseEndpoint, RowInv
    <3>2. \A e \in Endpoint \ {pos[r]} : row'[r][e] = row[r][e]
      BY <1>12 DEF CloseEndpoint
    <3> QED BY <1>0, <3>1, <3>2 DEF DataInv, RowStatus
  <2>4. ReconciledRun(r)'
    BY <1>0, <1>12, UnsettledStep DEF CloseEndpoint, Active
  <2> QED BY <2>1, <2>2, <2>3, <2>4 DEF RunInv
<1>13. CASE RefuseClassification(r)
  <2>1. StageInv(r)'
    BY <1>0, <1>13 DEF RefuseClassification, StageInv, Active
  <2>2. RowInv(r)'
    BY <1>0, <1>13 DEF RefuseClassification, RowInv, Endpoint, Closed
  <2>3. DataInv(r)'
    BY <1>0, <1>13 DEF RefuseClassification, DataInv, RowInv
  <2>4. ReconciledRun(r)'
    BY <1>0, <1>13, UnsettledStep DEF RefuseClassification, Active
  <2> QED BY <2>1, <2>2, <2>3, <2>4 DEF RunInv
<1>14. CASE CompleteCollectionRun(r)
  <2>1. StageInv(r)'
    BY <1>0, <1>14 DEF CompleteCollectionRun, StageInv, Active, WriteVerdict
  <2>2. RowInv(r)'
    BY <1>0, <1>14 DEF CompleteCollectionRun, RowInv, Endpoint, Closed
  <2>3. DataInv(r)'
    BY <1>0, <1>14 DEF CompleteCollectionRun, DataInv, RowInv
  <2>4. ReconciledRun(r)'
    <3>1. /\ pos[r] = NumEndpoints + 1
          /\ row' = row /\ results' = results
      BY <1>14 DEF CompleteCollectionRun
    <3>2. \A e \in Endpoint :
              row[r][e] \in Closed /\ row[r][e] = RowStatus(results[r][e])
      BY <1>0, <3>1, EndpointsAssumption DEF RowInv, Endpoint
    <3>3. RowsPassed(r)' = Passed(r)
      BY <3>1, <3>2 DEF RowsPassed, Passed, RowStatus
    <3>4. /\ runStatus'[r] = Verdict(Passed(r))
          /\ counts'[r] = [passed |-> Cardinality(Passed(r)),
                           failed |-> Cardinality(Endpoint \ Passed(r))]
      BY <1>14 DEF CompleteCollectionRun, WriteVerdict
    <3> QED BY <3>1, <3>2, <3>3, <3>4 DEF ReconciledRun
  <2> QED BY <2>1, <2>2, <2>3, <2>4 DEF RunInv
<1>15. CASE Stop(r)
  <2>1. StageInv(r)'
    BY <1>0, <1>15 DEF Stop, StageInv, Active
  <2>2. RowInv(r)'
    BY <1>0, <1>15 DEF Stop, RowInv, Endpoint, Closed
  <2>3. DataInv(r)'
    BY <1>0, <1>15 DEF Stop, DataInv, RowInv
  <2>4. ReconciledRun(r)'
    BY <1>0, <1>15, UnsettledStep DEF Stop
  <2> QED BY <2>1, <2>2, <2>3, <2>4 DEF RunInv
<1>16. CASE RecoverOrphan(r)
  <2>1. StageInv(r)'
    BY <1>0, <1>16 DEF RecoverOrphan, StageInv, Active, WriteVerdict
  <2>2. RowInv(r)'
    BY <1>0, <1>16 DEF RecoverOrphan, RowInv, Endpoint, Closed
  <2>3. DataInv(r)'
    BY <1>0, <1>16 DEF RecoverOrphan, DataInv, RowInv
  <2>4. ReconciledRun(r)'
    BY <1>0, <1>16 DEF RecoverOrphan, WriteVerdict, ReconciledRun, RowsPassed
  <2> QED BY <2>1, <2>2, <2>3, <2>4 DEF RunInv
<1> QED
  BY <1>1, <1>2, <1>3, <1>4, <1>5, <1>6, <1>7, <1>8,
     <1>9, <1>10, <1>11, <1>12, <1>13, <1>14, <1>15, <1>16 DEF Step

-----------------------------------------------------------------------------
(* The inductive invariant *)

(* Only complete_endpoint_run touches a checkpoint, and no step reopens a  *)
(* PASS row.                                                               *)
LEMMA CheckpointStep ==
    ASSUME TypeInv, NEW r \in Runs, RunInv(r), CheckpointInv,
           Step(r) \/ Stop(r) \/ RecoverOrphan(r)
    PROVE  CheckpointInv'
<1> USE DEF TypeInv, TypeOK
<1>1. CASE CloseEndpoint(r)
  <2>1. /\ pos[r] \in Endpoint
        /\ row[r][pos[r]] = "OPEN"
        /\ row' = [row EXCEPT ![r][pos[r]] = RowStatus(results[r][pos[r]])]
        /\ checkpoint' = IF RowStatus(results[r][pos[r]]) = "PASS"
                         THEN [checkpoint EXCEPT ![pos[r]] = r]
                         ELSE checkpoint
    BY <1>1 DEF CloseEndpoint, Goto, RunInv, RowInv
  <2>2. SUFFICES ASSUME NEW e \in Endpoint, checkpoint'[e] # NoRun
                 PROVE  row'[checkpoint'[e]][e] = "PASS"
    BY DEF CheckpointInv
  <2>3. CASE checkpoint'[e] = checkpoint[e]
    <3>1. checkpoint[e] \in Runs /\ row[checkpoint[e]][e] = "PASS"
      BY <2>2, <2>3 DEF CheckpointInv
    <3>2. ~(checkpoint[e] = r /\ e = pos[r])
      BY <2>1, <3>1
    <3> QED BY <2>1, <2>3, <3>1, <3>2
  <2>4. CASE checkpoint'[e] # checkpoint[e]
    <3>1. /\ RowStatus(results[r][pos[r]]) = "PASS"
          /\ e = pos[r] /\ checkpoint'[e] = r
      BY <2>1, <2>4
    <3> QED BY <2>1, <3>1
  <2> QED BY <2>3, <2>4
<1>2. CASE BeginEndpoint(r)
  <2>1. /\ checkpoint' = checkpoint
        /\ pos[r] \in Endpoint
        /\ row[r][pos[r]] = "ABSENT"
        /\ row' = [row EXCEPT ![r][pos[r]] = "OPEN"]
    BY <1>2 DEF BeginEndpoint
  <2> QED BY <2>1 DEF CheckpointInv
<1>3. CASE \/ RejectConfiguration(r) \/ BeginCollectionRun(r)
           \/ PlanEndpoints(r) \/ AcquireToken(r) \/ FailToken(r)
           \/ CollectRecords(r) \/ FailCollection(r) \/ WriteRecords(r)
           \/ FailWrite(r) \/ ExecuteUsageReport(r)
           \/ RefuseClassification(r) \/ CompleteCollectionRun(r)
           \/ Stop(r) \/ RecoverOrphan(r)
  <2>1. checkpoint' = checkpoint /\ row' = row
    BY <1>3 DEF RejectConfiguration, BeginCollectionRun, PlanEndpoints,
       AcquireToken, FailToken, CollectRecords, FailCollection, WriteRecords,
       FailWrite, ExecuteUsageReport, RefuseClassification,
       CompleteCollectionRun, Stop, RecoverOrphan
  <2> QED BY <2>1 DEF CheckpointInv
<1> QED BY <1>1, <1>2, <1>3 DEF Step

Inv == TypeInv /\ (\A r \in Runs : RunInv(r)) /\ CheckpointInv

LEMMA InvInit == Init => Inv
<1> SUFFICES ASSUME Init PROVE Inv
  OBVIOUS
<1>1. TypeInv
  BY TypeInit
<1>2. ASSUME NEW r \in Runs PROVE RunInv(r)
  <2>1. StageInv(r)
    BY DEF Init, StageInv, Active
  <2>2. RowInv(r)
    BY DEF Init, RowInv, Endpoint, Closed
  <2>3. DataInv(r)
    BY DEF Init, DataInv
  <2>4. ReconciledRun(r)
    BY DEF Init, ReconciledRun, Terminal
  <2> QED BY <2>1, <2>2, <2>3, <2>4 DEF RunInv
<1>3. CheckpointInv
  BY DEF Init, CheckpointInv
<1> QED BY <1>1, <1>2, <1>3 DEF Inv

LEMMA InvStep == Inv /\ [Next]_vars => Inv'
<1> SUFFICES ASSUME Inv, [Next]_vars PROVE Inv'
  OBVIOUS
<1>1. TypeInv'
  BY TypeStep DEF Inv
<1>2. CASE UNCHANGED vars
  <2>1. ASSUME NEW q \in Runs PROVE RunInv(q)'
    BY <1>2, RunFrame DEF Inv, SameRun, vars
  <2>2. CheckpointInv'
    BY <1>2 DEF Inv, CheckpointInv, vars
  <2> QED BY <1>1, <2>1, <2>2 DEF Inv
<1>3. ASSUME NEW r \in Runs, Step(r) \/ Stop(r) \/ RecoverOrphan(r)
      PROVE  Inv'
  <2>1. ASSUME NEW q \in Runs PROVE RunInv(q)'
    <3>1. CASE q = r
      BY <1>3, <3>1, RunStep DEF Inv
    <3>2. CASE q # r
      <4>1. SameRun(q)
        BY <1>3, <3>2, OthersUntouched DEF Inv, TypeInv
      <4> QED BY <4>1, RunFrame DEF Inv
    <3> QED BY <3>1, <3>2
  <2>2. CheckpointInv'
    BY <1>3, CheckpointStep DEF Inv
  <2> QED BY <1>1, <2>1, <2>2 DEF Inv
<1> QED BY <1>2, <1>3 DEF Next

LEMMA Invariance == Spec => []Inv
BY InvInit, InvStep, PTL DEF Spec

-----------------------------------------------------------------------------
(* The safety properties *)

(* The verdict and the counters of a settled run are those of its endpoint *)
(* rows, although complete_collection_run never reads them.                *)
THEOREM Reconciliation == Spec => []ReconciledWithRows
<1>1. Inv => ReconciledWithRows
  BY DEF Inv, RunInv, ReconciledWithRows
<1> QED BY Invariance, <1>1, PTL

(* A PASS row stands for committed records, wherever processes crash.      *)
THEOREM PassIsBacked == Spec => []PassMeansCommitted
<1>1. Inv => PassMeansCommitted
  BY DEF Inv, RunInv, DataInv, PassMeansCommitted, RowsPassed
<1> QED BY Invariance, <1>1, PTL

(* A checkpoint names a run that committed the endpoint's records.         *)
THEOREM CheckpointIsBacked == Spec => []CheckpointMeansCommitted
<1>1. Inv => CheckpointMeansCommitted
  <2> SUFFICES ASSUME Inv, NEW e \in Endpoint, checkpoint[e] # NoRun
               PROVE  e \in committed[checkpoint[e]]
    BY DEF CheckpointMeansCommitted
  <2>1. checkpoint[e] \in Runs /\ row[checkpoint[e]][e] = "PASS"
    BY DEF Inv, TypeInv, TypeOK, CheckpointInv
  <2> QED BY <2>1 DEF Inv, RunInv, DataInv
<1> QED BY Invariance, <1>1, PTL

(* A crash leaves at most the endpoint in hand unfinished.                 *)
THEOREM AtMostOneOpenRow == Spec => []OneOpenRow
<1>1. Inv => OneOpenRow
  <2> SUFFICES ASSUME Inv, NEW r \in Runs, NEW e \in Endpoint
               PROVE  /\ row[r][e] = "OPEN" => e = pos[r]
                      /\ e < pos[r] => row[r][e] \in Closed
                      /\ e > pos[r] => row[r][e] = "ABSENT"
    BY DEF OneOpenRow
  <2>1. e < pos[r] \/ e = pos[r] \/ e > pos[r]
    BY DEF Inv, TypeInv, TypeOK, Endpoint
  <2> QED BY <2>1 DEF Inv, RunInv, RowInv, Closed
<1> QED BY Invariance, <1>1, PTL

(* FAILED is said exactly of the settled runs that persisted nothing.      *)
THEOREM FailureIsEmpty == Spec => []FailedMeansNothingCommitted
<1>1. Inv => FailedMeansNothingCommitted
  <2> SUFFICES ASSUME Inv, NEW r \in Runs, runStatus[r] \in Terminal,
                      ~orphaned[r]
               PROVE  runStatus[r] = "FAILED" <=> committed[r] = {}
    BY DEF FailedMeansNothingCommitted
  <2>1. ReconciledRun(r) /\ DataInv(r) /\ committed[r] \subseteq Endpoint
    BY DEF Inv, RunInv, TypeInv, TypeOK
  <2>2. CASE /\ \A e \in Endpoint : row[r][e] \in Closed
             /\ runStatus[r] = Verdict(RowsPassed(r))
    <3>1. committed[r] = RowsPassed(r)
      BY <2>1, <2>2 DEF DataInv, RowsPassed, Closed
    <3>2. Endpoint # {}
      <4>1. 1 \in Endpoint
        BY EndpointsAssumption DEF Endpoint
      <4> QED BY <4>1
    <3>3. RowsPassed(r) = {} => Verdict(RowsPassed(r)) = "FAILED"
      BY <3>2 DEF Verdict
    <3>4. RowsPassed(r) # {} => Verdict(RowsPassed(r)) # "FAILED"
      BY DEF Verdict
    <3> QED BY <2>2, <3>1, <3>3, <3>4
  <2>3. CASE /\ \A e \in Endpoint : row[r][e] = "ABSENT"
             /\ runStatus[r] = "FAILED"
    BY <2>1, <2>3 DEF DataInv
  <2> QED BY <2>1, <2>2, <2>3 DEF ReconciledRun
<1> QED BY Invariance, <1>1, PTL

(* What the gate skips has no effect anywhere.                             *)
THEOREM SkippedIsInert == Spec => []SkippedLeavesNoTrace
<1>1. Inv => SkippedLeavesNoTrace
  <2> SUFFICES ASSUME Inv, NEW r \in Runs
               PROVE  /\ skipped[r] \cap committed[r] = {}
                      /\ \A e \in skipped[r] : checkpoint[e] # r
                      /\ pc[r] = "token" => skipped[r] # Endpoint
    BY DEF SkippedLeavesNoTrace
  <2>1. /\ skipped[r] \subseteq Endpoint /\ committed[r] \subseteq Endpoint
        /\ DataInv(r) /\ StageInv(r)
    BY DEF Inv, TypeInv, TypeOK, RunInv
  <2>2. \A e \in Endpoint : checkpoint[e] = r => e \in committed[r]
    <3> SUFFICES ASSUME NEW e \in Endpoint, checkpoint[e] = r
                 PROVE  e \in committed[r]
      OBVIOUS
    <3>1. row[r][e] = "PASS"
      BY RunsAssumption DEF Inv, CheckpointInv
    <3> QED BY <2>1, <3>1 DEF DataInv
  <2> QED BY <2>1, <2>2 DEF DataInv, StageInv
<1> QED BY Invariance, <1>1, PTL

(* Nothing rewrites a verdict of the runtime, the operator's recovery and  *)
(* the other runs included.                                                *)
THEOREM FinalVerdict == Spec => VerdictIsFinal
<1> DEFINE Frozen ==
        \A r \in Runs :
            runStatus[r] \in Terminal /\ ~orphaned[r] =>
                UNCHANGED <<runStatus[r], counts[r], orphaned[r], row[r]>>
<1>1. Inv /\ [Next]_vars => [Frozen]_vars
  <2> SUFFICES ASSUME Inv, Next, NEW q \in Runs,
                      runStatus[q] \in Terminal, ~orphaned[q]
               PROVE  UNCHANGED <<runStatus[q], counts[q], orphaned[q], row[q]>>
    OBVIOUS
  <2>1. pc[q] = "returned"
    BY DEF Inv, TypeInv, TypeOK, RunInv, StageInv, Terminal, Stopped
  <2>2. PICK r \in Runs : Step(r) \/ Stop(r) \/ RecoverOrphan(r)
    BY DEF Next
  <2>3. q # r
    <3>1. ~Step(q)
      BY <2>1 DEF Step, RejectConfiguration, BeginCollectionRun,
         PlanEndpoints, AcquireToken, FailToken, BeginEndpoint,
         CollectRecords, FailCollection, WriteRecords, FailWrite,
         ExecuteUsageReport, CloseEndpoint, RefuseClassification,
         CompleteCollectionRun, Goto
    <3>2. ~Stop(q)
      BY <2>1 DEF Stop, Active
    <3>3. ~RecoverOrphan(q)
      BY DEF RecoverOrphan, Terminal
    <3> QED BY <2>2, <3>1, <3>2, <3>3
  <2>4. SameRun(q)
    BY <2>2, <2>3, OthersUntouched DEF Inv, TypeInv
  <2> QED BY <2>4 DEF SameRun
<1> QED BY Invariance, <1>1, PTL DEF Spec, VerdictIsFinal

-----------------------------------------------------------------------------
(* Refinement: the runtime keeps the promises of the ledger *)

(* A run whose process is at work is unsettled in the ledger. *)
LEMMA ActiveIsUnsettled ==
    ASSUME Inv, NEW r \in Runs, pc[r] \in Active
    PROVE  LedgerStatus[r] \in Ledger!Unsettled
BY DEF Inv, RunInv, StageInv, LedgerStatus, Ledger!Unsettled

(* A step that leaves the control rows of every run alone is a stutter.    *)
LEMMA LedgerStutter ==
    ASSUME runStatus' = runStatus, orphaned' = orphaned, row' = row
    PROVE  UNCHANGED Ledger!vars
BY DEF Ledger!vars, LedgerStatus, LedgerVerdict

(* The ledger's verdicts are those of the finished rows. *)
LEMMA LedgerPassed ==
    ASSUME NEW r \in Runs
    PROVE  Ledger!PassedIn(r) = RowsPassed(r)
BY DEF Ledger!PassedIn, RowsPassed, LedgerVerdict, Closed

LEMMA ReconciledIsVerdict ==
    ASSUME NEW P \in SUBSET Endpoint
    PROVE  Ledger!Reconciled(P) = Verdict(P)
<1>1. Endpoint \ P = {} <=> P = Endpoint
  OBVIOUS
<1> QED BY <1>1 DEF Ledger!Reconciled, Verdict

LEMMA LedgerInit == Init => Ledger!Init
BY DEF Init, Ledger!Init, LedgerStatus, LedgerVerdict, Closed

(* begin_endpoint_run is invisible: an open row is still pending. *)
LEMMA BeginIsStutter ==
    ASSUME TypeOK, NEW r \in Runs, BeginEndpoint(r)
    PROVE  UNCHANGED Ledger!vars
<1>1. LedgerStatus' = LedgerStatus
  BY DEF BeginEndpoint, runRow, LedgerStatus
<1>2. ASSUME NEW q \in Runs, NEW e \in Endpoint
      PROVE  (IF row'[q][e] \in Closed THEN row'[q][e] ELSE "PENDING")
                = (IF row[q][e] \in Closed THEN row[q][e] ELSE "PENDING")
  <2>1. CASE q = r /\ e = pos[r]
    BY <2>1 DEF BeginEndpoint, TypeOK, Closed
  <2>2. CASE ~(q = r /\ e = pos[r])
    <3>1. row'[q][e] = row[q][e]
      BY <2>2 DEF BeginEndpoint, TypeOK
    <3> QED BY <3>1
  <2> QED BY <2>1, <2>2
<1>3. LedgerVerdict' = LedgerVerdict
  BY <1>2 DEF LedgerVerdict
<1> QED BY <1>1, <1>3 DEF Ledger!vars

(* complete_endpoint_run records one verdict. *)
LEMMA CloseRecords ==
    ASSUME Inv, NEW r \in Runs, CloseEndpoint(r)
    PROVE  Ledger!Record(r, pos[r]) /\ pos[r] \in Endpoint
<1> DEFINE v == RowStatus(results[r][pos[r]])
<1>1. /\ TypeOK
      /\ pos[r] \in Endpoint
      /\ row[r][pos[r]] = "OPEN"
      /\ row' = [row EXCEPT ![r][pos[r]] = v]
      /\ v \in Closed
  BY DEF Inv, TypeInv, RunInv, RowInv, CloseEndpoint, Goto, RowStatus, Closed
<1>2. LedgerStatus[r] \in Ledger!Unsettled
  BY ActiveIsUnsettled DEF CloseEndpoint, Goto, Active
<1>3. LedgerVerdict[r][pos[r]] = "PENDING"
  BY <1>1 DEF LedgerVerdict, Closed
<1>4. LedgerVerdict' = [LedgerVerdict EXCEPT ![r][pos[r]] = v]
  <2> HIDE DEF v
  <2>1. ASSUME NEW q \in Runs, NEW e \in Endpoint
        PROVE  row'[q][e] = IF q = r /\ e = pos[r] THEN v ELSE row[q][e]
    BY <1>1 DEF TypeOK
  <2>2. LedgerVerdict' = [q \in Runs |-> [e \in Endpoint |->
            IF q = r /\ e = pos[r] THEN v ELSE LedgerVerdict[q][e]]]
    BY <1>1, <2>1 DEF LedgerVerdict
  <2> QED BY <1>1, <2>2 DEF LedgerVerdict
<1>5. LedgerStatus' = LedgerStatus
  BY DEF CloseEndpoint, runRow, LedgerStatus
<1>6. v \in Ledger!Verdict
  BY DEF RowStatus, Ledger!Verdict
<1> HIDE DEF v
<1> QED BY <1>1, <1>2, <1>3, <1>4, <1>5, <1>6 DEF Ledger!Record

(* Writing a verdict changes the status of that run alone. *)
LEMMA VerdictStatus ==
    ASSUME TypeOK, NEW r \in Runs, NEW P \in SUBSET Endpoint,
           WriteVerdict(r, P)
    PROVE  LedgerStatus' = [LedgerStatus EXCEPT ![r] = Verdict(P)]
<1>1. /\ runStatus' = [runStatus EXCEPT ![r] = Verdict(P)]
      /\ orphaned' = [orphaned EXCEPT ![r] = FALSE]
      /\ Verdict(P) # "RUNNING"
  BY DEF WriteVerdict, Verdict
<1>2. ASSUME NEW q \in Runs
      PROVE  LedgerStatus'[q] = IF q = r THEN Verdict(P) ELSE LedgerStatus[q]
  BY <1>1 DEF TypeOK, LedgerStatus
<1> QED BY <1>2 DEF LedgerStatus

(* complete_collection_run settles the run, and so does a missing token.   *)
LEMMA CompleteSettles ==
    ASSUME Inv, NEW r \in Runs, CompleteCollectionRun(r)
    PROVE  Ledger!Settle(r)
<1>1. /\ TypeOK
      /\ pos[r] = NumEndpoints + 1
      /\ Passed(r) \in SUBSET Endpoint
      /\ WriteVerdict(r, Passed(r))
      /\ row' = row
  BY DEF Inv, TypeInv, CompleteCollectionRun, Passed
<1>2. LedgerStatus[r] \in Ledger!Unsettled
  BY ActiveIsUnsettled DEF CompleteCollectionRun, Goto, Active
<1>3. \A e \in Endpoint :
          row[r][e] \in Closed /\ row[r][e] = RowStatus(results[r][e])
  BY <1>1, EndpointsAssumption DEF Inv, RunInv, RowInv, Endpoint
<1>4. RowsPassed(r) = Passed(r)
  BY <1>3 DEF RowsPassed, Passed, RowStatus
<1>5. LedgerStatus' = [LedgerStatus EXCEPT
                           ![r] = Ledger!Reconciled(Ledger!PassedIn(r))]
  BY <1>1, <1>4, VerdictStatus, LedgerPassed, ReconciledIsVerdict
<1>6. \A e \in Endpoint : LedgerVerdict[r][e] \in Ledger!Verdict
  BY <1>3 DEF LedgerVerdict, Ledger!Verdict, Closed
<1>7. LedgerVerdict' = LedgerVerdict
  BY <1>1 DEF LedgerVerdict
<1> QED BY <1>2, <1>5, <1>6, <1>7 DEF Ledger!Settle

LEMMA FailTokenSettles ==
    ASSUME Inv, NEW r \in Runs, FailToken(r)
    PROVE  Ledger!Settle(r)
<1>1. /\ TypeOK /\ {} \in SUBSET Endpoint
      /\ WriteVerdict(r, {}) /\ row' = row
      /\ pc[r] = "token"
  BY DEF Inv, TypeInv, FailToken, Goto
<1>2. LedgerStatus[r] \in Ledger!Unsettled
  BY <1>1, ActiveIsUnsettled DEF Active
<1>3. \A e \in Endpoint : LedgerVerdict[r][e] = "PENDING"
  BY <1>1, NothingYet DEF Inv, LedgerVerdict, Closed
<1>4. Verdict({}) = "FAILED"
  <2>1. 1 \in Endpoint
    BY EndpointsAssumption DEF Endpoint
  <2> QED BY <2>1 DEF Verdict
<1>5. LedgerStatus' = [LedgerStatus EXCEPT ![r] = "FAILED"]
  BY <1>1, <1>4, VerdictStatus
<1>6. LedgerVerdict' = LedgerVerdict
  BY <1>1 DEF LedgerVerdict
<1> QED BY <1>2, <1>3, <1>5, <1>6 DEF Ledger!Settle

LEMMA BeginOpens ==
    ASSUME Inv, NEW r \in Runs, BeginCollectionRun(r)
    PROVE  Ledger!Open(r)
<1>1. /\ TypeOK /\ runStatus[r] = "NONE" /\ ~orphaned[r]
      /\ runStatus' = [runStatus EXCEPT ![r] = "RUNNING"]
      /\ orphaned' = orphaned /\ row' = row
  BY DEF Inv, TypeInv, RunInv, StageInv, BeginCollectionRun, Goto
<1>2. ASSUME NEW q \in Runs
      PROVE  LedgerStatus'[q] = IF q = r THEN "OPEN" ELSE LedgerStatus[q]
  BY <1>1 DEF TypeOK, LedgerStatus
<1>3. LedgerStatus' = [LedgerStatus EXCEPT ![r] = "OPEN"]
  BY <1>2 DEF LedgerStatus
<1>4. LedgerStatus[r] = "NONE"
  BY <1>1 DEF LedgerStatus
<1>5. LedgerVerdict' = LedgerVerdict
  BY <1>1 DEF LedgerVerdict
<1> QED BY <1>3, <1>4, <1>5 DEF Ledger!Open

LEMMA RecoveryDeclaresOrphan ==
    ASSUME Inv, NEW r \in Runs, RecoverOrphan(r)
    PROVE  Ledger!DeclareOrphan(r)
<1>1. /\ TypeOK /\ runStatus[r] = "RUNNING" /\ ~orphaned[r]
      /\ runStatus' = [runStatus EXCEPT ![r] = "FAILED"]
      /\ orphaned' = [orphaned EXCEPT ![r] = TRUE]
      /\ row' = row
  BY DEF Inv, TypeInv, RunInv, StageInv, RecoverOrphan
<1>2. ASSUME NEW q \in Runs
      PROVE  LedgerStatus'[q] = IF q = r THEN "ORPHAN" ELSE LedgerStatus[q]
  BY <1>1 DEF TypeOK, LedgerStatus
<1>3. LedgerStatus' = [LedgerStatus EXCEPT ![r] = "ORPHAN"]
  BY <1>2 DEF LedgerStatus
<1>4. LedgerStatus[r] = "OPEN"
  BY <1>1 DEF LedgerStatus
<1>5. LedgerVerdict' = LedgerVerdict
  BY <1>1 DEF LedgerVerdict
<1> QED BY <1>3, <1>4, <1>5 DEF Ledger!DeclareOrphan

LEMMA LedgerStep == Inv /\ [Next]_vars => [Ledger!Next]_(Ledger!vars)
<1> SUFFICES ASSUME Inv, [Next]_vars
             PROVE  Ledger!Next \/ UNCHANGED Ledger!vars
  OBVIOUS
<1>1. CASE UNCHANGED vars
  BY <1>1, LedgerStutter DEF vars
<1>2. ASSUME NEW r \in Runs, Step(r) \/ Stop(r) \/ RecoverOrphan(r)
      PROVE  Ledger!Next \/ UNCHANGED Ledger!vars
  <2>1. CASE BeginCollectionRun(r)
    BY <2>1, BeginOpens DEF Ledger!Next
  <2>2. CASE FailToken(r)
    BY <2>2, FailTokenSettles DEF Ledger!Next
  <2>3. CASE BeginEndpoint(r)
    BY <2>3, BeginIsStutter DEF Inv, TypeInv
  <2>4. CASE CloseEndpoint(r)
    BY <2>4, CloseRecords DEF Ledger!Next
  <2>5. CASE CompleteCollectionRun(r)
    BY <2>5, CompleteSettles DEF Ledger!Next
  <2>6. CASE RecoverOrphan(r)
    BY <2>6, RecoveryDeclaresOrphan DEF Ledger!Next
  <2>7. CASE \/ RejectConfiguration(r) \/ PlanEndpoints(r)
             \/ AcquireToken(r) \/ CollectRecords(r) \/ FailCollection(r)
             \/ WriteRecords(r) \/ FailWrite(r) \/ ExecuteUsageReport(r)
             \/ RefuseClassification(r) \/ Stop(r)
    <3>1. runStatus' = runStatus /\ orphaned' = orphaned /\ row' = row
      BY <2>7 DEF RejectConfiguration, PlanEndpoints, AcquireToken,
         CollectRecords, FailCollection, WriteRecords, FailWrite,
         ExecuteUsageReport, RefuseClassification, Stop, runRow
    <3> QED BY <3>1, LedgerStutter
  <2> QED BY <1>2, <2>1, <2>2, <2>3, <2>4, <2>5, <2>6, <2>7 DEF Step
<1> QED BY <1>1, <1>2 DEF Next

(* The runtime, with its crashes and the operator's recovery, implements   *)
(* the ledger.                                                             *)
THEOREM ImplementsLedger == Spec => LedgerSpec
BY Invariance, LedgerInit, LedgerStep, PTL
   DEF Spec, LedgerSpec, Ledger!Spec

=============================================================================
