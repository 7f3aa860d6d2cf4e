------------------------------ MODULE RunLedger ------------------------------
(***************************************************************************)
(* What the control tables of the database promise about collection runs,  *)
(* whatever the process that fills them looks like: a run is opened once,  *)
(* each of its endpoints receives at most one verdict, verdicts arrive     *)
(* only while the run is not yet settled, and the status the run settles   *)
(* with is a function of those verdicts.  An operator may declare an       *)
(* unsettled run an orphan.  CollectionRun implements this specification.  *)
(***************************************************************************)
EXTENDS Integers

CONSTANTS Runs,      \* collection runs
          Endpoint   \* the endpoints each run selects

VARIABLES status,    \* status[r]: how far run r is settled
          verdict    \* verdict[r][e]: what run r recorded for endpoint e

vars == <<status, verdict>>

Verdict == {"PASS", "ERROR"}

Settled == {"SUCCESS", "PARTIAL_SUCCESS", "FAILED"}

Unsettled == {"OPEN", "ORPHAN"}

(* The status that summarises a set of passed endpoints. *)
Reconciled(passed) ==
    IF passed = Endpoint THEN "SUCCESS"
    ELSE IF passed # {} THEN "PARTIAL_SUCCESS"
    ELSE "FAILED"

PassedIn(r) == {e \in Endpoint : verdict[r][e] = "PASS"}

Init ==
    /\ status = [r \in Runs |-> "NONE"]
    /\ verdict = [r \in Runs |-> [e \in Endpoint |-> "PENDING"]]

Open(r) ==
    /\ status[r] = "NONE"
    /\ status' = [status EXCEPT ![r] = "OPEN"]
    /\ UNCHANGED verdict

Record(r, e) ==
    /\ status[r] \in Unsettled
    /\ verdict[r][e] = "PENDING"
    /\ \E v \in Verdict : verdict' = [verdict EXCEPT ![r][e] = v]
    /\ UNCHANGED status

(* A run settles when every endpoint has its verdict, or, as a failure,    *)
(* before it attempted any endpoint.                                       *)
Settle(r) ==
    /\ status[r] \in Unsettled
    /\ \/ /\ \A e \in Endpoint : verdict[r][e] \in Verdict
          /\ status' = [status EXCEPT ![r] = Reconciled(PassedIn(r))]
       \/ /\ \A e \in Endpoint : verdict[r][e] = "PENDING"
          /\ status' = [status EXCEPT ![r] = "FAILED"]
    /\ UNCHANGED verdict

DeclareOrphan(r) ==
    /\ status[r] = "OPEN"
    /\ status' = [status EXCEPT ![r] = "ORPHAN"]
    /\ UNCHANGED verdict

Next ==
    \E r \in Runs :
        \/ Open(r)
        \/ \E e \in Endpoint : Record(r, e)
        \/ Settle(r)
        \/ DeclareOrphan(r)

Spec == Init /\ [][Next]_vars

=============================================================================
