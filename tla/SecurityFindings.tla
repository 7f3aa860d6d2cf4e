-------------------------- MODULE SecurityFindings --------------------------
(***************************************************************************)
(* Runs of one security rule that overlap: each observes the tenant,       *)
(* evaluates, and stores observation, evaluation and current finding in    *)
(* one transaction, which it tries twice.  A run that dies takes no more   *)
(* steps; the control tables of the same runs are in SingleSourceRun.      *)
(***************************************************************************)
EXTENDS SecurityRules

CONSTANTS
    Runs,       \* runs of the rule
    MaxClock    \* bound: evaluations with different times

ASSUME MaxClockAssumption == MaxClock \in Nat

(* orchestration._EXECUTIONS; no caller stores what the others find. *)
Orchestrated ==
    {"CA_ENFORCEMENT", "CA_MFA", "CA_LEGACY_AUTH", "MFA_REG", "ADMIN_MFA_REG"}
MaxWrites == 2

VARIABLES
    rule,         \* the rule, fixed
    clock,        \* utcnow
    phase,        \* phase[r]: "new", "evaluated", "stored" or "unstored"
    verdict,      \* verdict[r]: outcome and evaluated_at, or NoVerdict
    failures,     \* failures[r]: failed writes
    evaluations,  \* rows of observation and finding_evaluation, by run
    current       \* the row of finding_current, or NoVerdict

vars == <<rule, clock, phase, verdict, failures, evaluations, current>>

NoVerdict == [run |-> "none"]

Verdict(r, outcome) == [run |-> r, outcome |-> outcome, at |-> clock]

TypeOK ==
    /\ rule \in RuleIds
    /\ clock \in 0..MaxClock
    /\ phase \in [Runs -> {"new", "evaluated", "stored", "unstored"}]
    /\ \A r \in Runs :
          \/ verdict[r] = NoVerdict
          \/ /\ verdict[r].outcome \in Outcomes[rule]
             /\ verdict[r].at <= clock
    /\ failures \in [Runs -> 0..MaxWrites]
    /\ evaluations \subseteq {verdict[r] : r \in Runs}
    /\ current \in evaluations \cup {NoVerdict}

Init ==
    /\ rule \in RuleIds
    /\ clock = 0
    /\ phase = [r \in Runs |-> "new"]
    /\ verdict = [r \in Runs |-> NoVerdict]
    /\ failures = [r \in Runs |-> 0]
    /\ evaluations = {}
    /\ current = NoVerdict

-----------------------------------------------------------------------------
(* Two evaluations may read the same time. *)
Tick ==
    /\ clock < MaxClock
    /\ clock' = clock + 1
    /\ UNCHANGED <<rule, phase, verdict, failures, evaluations, current>>

(* The collector asks Graph, and the service evaluates what came back. *)
Evaluate(r) ==
    /\ phase[r] = "new"
    /\ phase' = [phase EXCEPT ![r] = "evaluated"]
    /\ \E outcome \in Outcomes[rule] :
          verdict' = [verdict EXCEPT ![r] = Verdict(r, outcome)]
    /\ UNCHANGED <<rule, clock, failures, evaluations, current>>

(* The statements of one transaction: the digests name run and endpoint    *)
(* run, so a conflict is with a row of this run, which stays as it is; the *)
(* current row is locked before its evaluated_at is compared.              *)
InsertEvaluation(r) == evaluations \cup {verdict[r]}

(* Mutant: the current row is replaced without a condition. *)
OverwriteCurrent(r) == verdict[r]

UpsertCurrent(r) ==
    IF current = NoVerdict THEN verdict[r]
    ELSE IF current.at <= verdict[r].at THEN verdict[r] ELSE current

StoreFinding(r) ==
    /\ rule \in Orchestrated
    /\ phase[r] = "evaluated"
    /\ verdict[r].outcome.fits
    /\ evaluations' = InsertEvaluation(r)
    /\ current' = UpsertCurrent(r)
    /\ \/ phase' = [phase EXCEPT ![r] = "stored"] /\ UNCHANGED failures
       \* the commit succeeds and its answer is lost with the connection,
       \* on which the second write fails as well
       \/ /\ phase' = [phase EXCEPT ![r] = "unstored"]
          /\ failures' = [failures EXCEPT ![r] = MaxWrites]
    /\ UNCHANGED <<rule, clock, verdict>>

(* Mutant: the exception of the last write is swallowed. *)
FailWriteUnnoticed(r) ==
    /\ rule \in Orchestrated
    /\ phase[r] = "evaluated"
    /\ failures' = [failures EXCEPT ![r] = @ + 1]
    /\ phase' = [phase EXCEPT ![r] =
                    IF failures[r] + 1 = MaxWrites THEN "stored" ELSE @]
    /\ UNCHANGED <<rule, clock, verdict, evaluations, current>>

(* A statement fails and the transaction is rolled back; or the value is   *)
(* too long for its column, and there is no transaction at all.            *)
FailWrite(r) ==
    /\ rule \in Orchestrated
    /\ phase[r] = "evaluated"
    /\ failures' = [failures EXCEPT ![r] = @ + 1]
    /\ phase' = [phase EXCEPT ![r] =
                    IF failures[r] + 1 = MaxWrites THEN "unstored" ELSE @]
    /\ UNCHANGED <<rule, clock, verdict, evaluations, current>>

Next ==
    \/ Tick
    \/ \E r \in Runs : Evaluate(r) \/ StoreFinding(r) \/ FailWrite(r)

Spec == Init /\ [][Next]_vars

-----------------------------------------------------------------------------
(* Properties *)

Verdicts == {verdict[r] : r \in Runs} \ {NoVerdict}

(* The one rule that judges a policy whose state it does not know. *)
Misread(v) == rule = "CA_LEGACY_AUTH" /\ ~v.outcome.supported

(* NO_EVIDENCE is not a security gap, and no evidence is no assurance: a   *)
(* finding is OPEN only if the tenant violates the baseline, and PASS only *)
(* if it meets it, whatever the answer of Graph hid, dropped or garbled.   *)
(* Two evaluations are known not to keep it: registration rows counted     *)
(* twice, and policies in an unknown state (NeverOpenOnUnknown).           *)
VerdictIsSound ==
    \A v \in Verdicts :
        v.outcome.once =>
            /\ v.outcome.status = "PASS" => v.outcome.meets
            /\ (v.outcome.status = "OPEN" /\ ~Misread(v)) => v.outcome.gap

(* The current finding is the latest of all evaluations stored, whatever   *)
(* order overlapping runs committed in, and there is one as soon as any    *)
(* run has stored anything.                                                *)
CurrentIsLatest ==
    IF evaluations = {} THEN current = NoVerdict
    ELSE current \in evaluations /\ \A v \in evaluations : v.at <= current.at

(* A run that reports its finding as stored has stored exactly one         *)
(* evaluation, the one it made; a finding that does not fit is never       *)
(* stored, and is reported.                                                *)
ReportedIsStored ==
    \A r \in Runs :
        LET own == {v \in evaluations : v.run = r}
        IN /\ phase[r] = "stored" => own = {verdict[r]}
           /\ own \subseteq {verdict[r]}
           /\ (verdict[r] # NoVerdict /\ ~verdict[r].outcome.fits) =>
                 (own = {} /\ phase[r] # "stored")

(* models.py, SecurityObservation: "When the source is unavailable or the  *)
(* value is unsupported, the evaluation becomes NOT_EVALUATED (never       *)
(* OPEN)."                                                                 *)
NeverOpenOnUnknown ==
    \A v \in Verdicts : v.outcome.status = "OPEN" => v.outcome.supported

=============================================================================
