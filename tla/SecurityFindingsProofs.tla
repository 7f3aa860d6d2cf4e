----------------------- MODULE SecurityFindingsProofs -----------------------
(***************************************************************************)
(* Proofs about SecurityFindings for any number of runs of any rule: the   *)
(* current finding is the latest stored, what a run reports as stored is   *)
(* stored, and no verdict says what the tenant does not bear out.          *)
(***************************************************************************)
EXTENDS SecurityFindings, FiniteSetTheorems, TLAPS

-----------------------------------------------------------------------------
(* The inductive invariant *)

AllVerdicts == [run : Runs, outcome : Outcomes[rule], at : Nat]

ShapeInv ==
    /\ clock \in Nat
    /\ phase \in [Runs -> {"new", "evaluated", "stored", "unstored"}]
    /\ verdict \in [Runs -> AllVerdicts \cup {NoVerdict}]

(* A run's verdict is its own, and is there once it has evaluated. *)
OwnInv(r) ==
    /\ phase[r] # "new" => verdict[r] \in AllVerdicts /\ verdict[r].run = r
    /\ phase[r] = "new" => verdict[r] = NoVerdict
    /\ phase[r] = "stored" => verdict[r] \in evaluations /\ verdict[r].outcome.fits

(* Every evaluation stored is the verdict of the run it names, and fits.   *)
StoredInv ==
    \A v \in evaluations :
        /\ v \in AllVerdicts
        /\ phase[v.run] # "new"
        /\ v = verdict[v.run]
        /\ v.outcome.fits

Inv ==
    /\ ShapeInv
    /\ \A r \in Runs : OwnInv(r)
    /\ StoredInv
    /\ CurrentIsLatest

-----------------------------------------------------------------------------
LEMMA NoVerdictIsNone == NoVerdict \notin AllVerdicts
<1> SUFFICES ASSUME NoVerdict \in AllVerdicts PROVE FALSE
    OBVIOUS
<1>1. "at" \in DOMAIN NoVerdict
    BY DEF AllVerdicts
<1>2. DOMAIN NoVerdict = {"run"}
    BY DEF NoVerdict
<1> QED  BY <1>1, <1>2

LEMMA InitInv == Init => Inv
<1> SUFFICES ASSUME Init PROVE Inv
    OBVIOUS
<1>1. ShapeInv
    BY DEF Init, ShapeInv
<1>2. \A r \in Runs : OwnInv(r)
    BY DEF Init, OwnInv
<1>3. StoredInv /\ CurrentIsLatest
    BY DEF Init, StoredInv, CurrentIsLatest
<1> QED  BY <1>1, <1>2, <1>3 DEF Inv

(* A step that leaves the tables alone and changes no verdict that a run   *)
(* has already reached.                                                    *)
LEMMA TickInv == Inv /\ Tick => Inv'
<1> SUFFICES ASSUME Inv, Tick PROVE Inv'
    OBVIOUS
<1>1. ShapeInv'
    BY DEF Inv, ShapeInv, Tick, AllVerdicts
<1>2. \A r \in Runs : OwnInv(r)'
    BY DEF Inv, OwnInv, Tick, AllVerdicts
<1>3. StoredInv'
    BY DEF Inv, StoredInv, Tick, AllVerdicts
<1>4. CurrentIsLatest'
    BY DEF Inv, CurrentIsLatest, Tick
<1> QED  BY <1>1, <1>2, <1>3, <1>4 DEF Inv

LEMMA EvaluateInv ==
    ASSUME Inv, NEW r \in Runs, Evaluate(r) PROVE Inv'
<1>1. PICK outcome \in Outcomes[rule] :
          verdict' = [verdict EXCEPT ![r] = Verdict(r, outcome)]
    BY DEF Evaluate
<1>2. /\ Verdict(r, outcome) \in AllVerdicts
      /\ Verdict(r, outcome).run = r
    BY DEF Inv, ShapeInv, Verdict, AllVerdicts
<1>3. AllVerdicts' = AllVerdicts
    BY DEF Evaluate, AllVerdicts
<1>4. ShapeInv'
    BY <1>1, <1>2, <1>3 DEF Inv, ShapeInv, Evaluate
<1>5. ASSUME NEW s \in Runs PROVE OwnInv(s)'
    BY <1>1, <1>2, <1>3 DEF Inv, ShapeInv, OwnInv, Evaluate
<1>6. StoredInv'
    <2> SUFFICES ASSUME NEW v \in evaluations
                 PROVE  /\ v \in AllVerdicts
                        /\ phase'[v.run] # "new"
                        /\ v = verdict'[v.run]
                        /\ v.outcome.fits
        BY <1>3 DEF StoredInv, Evaluate
    <2>1. v.run \in Runs /\ v.run # r
        BY DEF Inv, StoredInv, AllVerdicts, Evaluate
    <2> QED  BY <1>1, <2>1 DEF Inv, ShapeInv, StoredInv, Evaluate
<1>7. CurrentIsLatest'
    BY DEF Inv, CurrentIsLatest, Evaluate
<1> QED  BY <1>4, <1>5, <1>6, <1>7 DEF Inv

LEMMA StoreFindingInv ==
    ASSUME Inv, NEW r \in Runs, StoreFinding(r) PROVE Inv'
<1>1. /\ verdict[r] \in AllVerdicts
      /\ verdict[r].run = r
      /\ verdict[r].outcome.fits
      /\ verdict[r].at \in Nat
    BY DEF Inv, OwnInv, StoreFinding, AllVerdicts
<1>2. AllVerdicts' = AllVerdicts /\ verdict' = verdict /\ clock' = clock
    BY DEF StoreFinding, AllVerdicts
<1>3. evaluations' = evaluations \cup {verdict[r]}
    BY DEF StoreFinding, InsertEvaluation
<1>4. PICK p \in {"stored", "unstored"} : phase' = [phase EXCEPT ![r] = p]
    BY DEF StoreFinding
<1>5. ShapeInv'
    BY <1>2, <1>4 DEF Inv, ShapeInv
<1>6. ASSUME NEW s \in Runs PROVE OwnInv(s)'
    BY <1>1, <1>2, <1>3, <1>4 DEF Inv, ShapeInv, OwnInv
<1>7. StoredInv'
    <2> SUFFICES ASSUME NEW v \in evaluations'
                 PROVE  /\ v \in AllVerdicts
                        /\ phase'[v.run] # "new"
                        /\ v = verdict[v.run]
                        /\ v.outcome.fits
        BY <1>2 DEF StoredInv
    <2>1. CASE v = verdict[r]
        BY <1>1, <1>4, <2>1 DEF Inv, ShapeInv
    <2>2. CASE v \in evaluations
        <3>1. v.run \in Runs
            BY <2>2 DEF Inv, StoredInv, AllVerdicts
        <3> QED  BY <1>4, <2>2, <3>1 DEF Inv, ShapeInv, StoredInv
    <2> QED  BY <1>3, <2>1, <2>2
<1>8. CurrentIsLatest'
    <2>1. \A v \in evaluations : v.at \in Nat
        BY DEF Inv, StoredInv, AllVerdicts
    <2>2. current' = IF current = NoVerdict THEN verdict[r]
                     ELSE IF current.at <= verdict[r].at THEN verdict[r] ELSE current
        BY DEF StoreFinding, UpsertCurrent
    <2>3. evaluations' # {}
        BY <1>3
    <2>4. CASE evaluations = {}
        BY <1>1, <1>3, <2>2, <2>3, <2>4 DEF Inv, CurrentIsLatest
    <2>5. CASE evaluations # {}
        <3>1. current \in evaluations /\ \A v \in evaluations : v.at <= current.at
            BY <2>5 DEF Inv, CurrentIsLatest
        <3>2. current # NoVerdict
            BY <3>1, NoVerdictIsNone DEF Inv, StoredInv
        <3> QED  BY <1>1, <1>3, <2>1, <2>2, <2>3, <3>1, <3>2 DEF CurrentIsLatest
    <2> QED  BY <2>4, <2>5
<1> QED  BY <1>5, <1>6, <1>7, <1>8 DEF Inv

LEMMA FailWriteInv ==
    ASSUME Inv, NEW r \in Runs, FailWrite(r) PROVE Inv'
<1>1. /\ AllVerdicts' = AllVerdicts
      /\ verdict' = verdict /\ clock' = clock
      /\ evaluations' = evaluations /\ current' = current
    BY DEF FailWrite, AllVerdicts
<1>2. PICK p \in {"evaluated", "unstored"} : phase' = [phase EXCEPT ![r] = p]
    BY DEF FailWrite
<1>3. ShapeInv'
    BY <1>1, <1>2 DEF Inv, ShapeInv
<1>4. ASSUME NEW s \in Runs PROVE OwnInv(s)'
    BY <1>1, <1>2 DEF Inv, ShapeInv, OwnInv, FailWrite
<1>5. StoredInv'
    BY <1>1, <1>2 DEF Inv, ShapeInv, StoredInv, AllVerdicts
<1>6. CurrentIsLatest'
    BY <1>1 DEF Inv, CurrentIsLatest
<1> QED  BY <1>3, <1>4, <1>5, <1>6 DEF Inv

LEMMA StutterInv == Inv /\ UNCHANGED vars => Inv'
BY DEF Inv, ShapeInv, OwnInv, StoredInv, CurrentIsLatest, AllVerdicts, vars

LEMMA Invariance == Spec => []Inv
<1>1. Inv /\ [Next]_vars => Inv'
    BY TickInv, EvaluateInv, StoreFindingInv, FailWriteInv, StutterInv DEF Next
<1> QED  BY InitInv, <1>1, PTL DEF Spec

-----------------------------------------------------------------------------
(* Theorems *)

(* The current finding is the latest of the evaluations stored, however    *)
(* many runs overlap, whatever the order of their commits and whichever of *)
(* them fail (store_finding, finding_current).                             *)
THEOREM CurrentFinding == Spec => []CurrentIsLatest
BY Invariance, PTL DEF Inv

LEMMA InvReported == Inv => ReportedIsStored
<1> SUFFICES ASSUME Inv, NEW r \in Runs
             PROVE LET own == {v \in evaluations : v.run = r}
                   IN /\ phase[r] = "stored" => own = {verdict[r]}
                      /\ own \subseteq {verdict[r]}
                      /\ (verdict[r] # NoVerdict /\ ~verdict[r].outcome.fits) =>
                            (own = {} /\ phase[r] # "stored")
    BY DEF ReportedIsStored
<1> DEFINE own == {v \in evaluations : v.run = r}
<1>1. \A v \in own : v = verdict[r] /\ v.outcome.fits
    BY DEF Inv, StoredInv
<1>2. phase[r] = "stored" => verdict[r] \in own /\ verdict[r].outcome.fits
    BY DEF Inv, OwnInv
<1> QED  BY <1>1, <1>2

(* A run that reports its finding as stored has stored its one evaluation, *)
(* and a finding that does not fit its column is never stored nor reported *)
(* as stored (the write that is tried twice).                              *)
THEOREM ReportedFinding == Spec => []ReportedIsStored
BY Invariance, InvReported, PTL

-----------------------------------------------------------------------------
(* What the rules come to.  An outcome is sound if its PASS is of a tenant *)
(* that meets the baseline and its OPEN of one that violates it.           *)
Sound(outcome) ==
    outcome.once =>
        /\ outcome.status = "PASS" => outcome.meets
        /\ outcome.status = "OPEN" => outcome.gap

LEMMA LevelsAreSound ==
    ASSUME NEW levels \in {SharingLevels, InvitationLevels},
           NEW o \in LevelOutcomes(levels)
    PROVE  Sound(o)
<1>1. /\ DOMAIN levels = 1..4
      /\ \A i \in 1..4 : levels[i] # Hidden /\ levels[i] # Undocumented
    BY DEF SharingLevels, InvitationLevels, Hidden, Undocumented
<1>2. PICK actual \in {levels[i] : i \in DOMAIN levels} \cup {Undocumented},
           shown \in BOOLEAN :
          o = Outcome(EvaluateLevel(levels, IF shown THEN actual ELSE Hidden),
                      actual \in {levels[1], levels[2]},
                      actual \in {levels[3], levels[4]},
                      shown /\ actual \in {levels[i] : i \in DOMAIN levels})
    BY DEF LevelOutcomes
<1>3. PICK status : status = EvaluateLevel(levels, IF shown THEN actual ELSE Hidden)
    OBVIOUS
<1>4. status # "NOT_EVALUATED" =>
          shown /\ actual \in {levels[1], levels[2], levels[3], levels[4]}
    BY <1>1, <1>2, <1>3 DEF EvaluateLevel
<1>5. shown => status \in {"NOT_EVALUATED", PassIf(actual \in {levels[1], levels[2]})}
    BY <1>3 DEF EvaluateLevel
<1>6. /\ status = "PASS" => actual \in {levels[1], levels[2]}
      /\ status = "OPEN" => actual \in {levels[3], levels[4]}
    BY <1>4, <1>5 DEF PassIf
<1> QED  BY <1>2, <1>3, <1>6 DEF Sound, Outcome

LEMMA ConsentIsSound ==
    ASSUME NEW o \in ConsentOutcomes PROVE Sound(o)
<1>1. PICK assigned \in SUBSET GrantPolicies, shown \in BOOLEAN :
          o = Outcome(EvaluateUserConsent(
                          IF shown THEN NormalizeUserConsent(assigned) ELSE Hidden),
                      assigned \cap {"legacy", "custom"} = {}, "legacy" \in assigned,
                      shown)
    BY DEF ConsentOutcomes
<1>2. PICK state : state = NormalizeUserConsent(assigned)
    OBVIOUS
<1>3. /\ state = "legacy_broad_consent" => "legacy" \in assigned
      /\ "legacy" \in assigned => state = "legacy_broad_consent"
      /\ ("legacy" \notin assigned /\ "custom" \in assigned) =>
            state = "custom_or_unknown"
    <2>1. CASE "legacy" \in assigned
        BY <1>2, <2>1 DEF NormalizeUserConsent
    <2>2. CASE "legacy" \notin assigned /\ "custom" \in assigned
        BY <1>2, <2>2 DEF NormalizeUserConsent
    <2>3. CASE "legacy" \notin assigned /\ "custom" \notin assigned
        <3>1. assigned \ {"other"} \subseteq {"recommended", "low"}
            BY <2>3 DEF GrantPolicies
        <3> QED  BY <1>2, <2>3, <3>1 DEF NormalizeUserConsent
    <2> QED  BY <2>1, <2>2, <2>3
<1>4. PICK seen : seen = IF shown THEN state ELSE Hidden
    OBVIOUS
<1>5. /\ EvaluateUserConsent(seen) = "PASS" =>
            seen \notin {Hidden, "custom_or_unknown", "legacy_broad_consent"}
      /\ EvaluateUserConsent(seen) = "OPEN" => seen = "legacy_broad_consent"
    BY DEF EvaluateUserConsent, Hidden
<1>6. /\ EvaluateUserConsent(seen) = "PASS" => assigned \cap {"legacy", "custom"} = {}
      /\ EvaluateUserConsent(seen) = "OPEN" => "legacy" \in assigned
    BY <1>3, <1>4, <1>5 DEF Hidden
<1> QED  BY <1>1, <1>2, <1>4, <1>6 DEF Sound, Outcome

LEMMA RiskyConsentIsSound ==
    ASSUME NEW o \in RiskyConsentOutcomes PROVE Sound(o)
BY DEF RiskyConsentOutcomes, EvaluateRiskyConsent, Hidden, PassIf, Sound, Outcome

LEMMA GuestAccessIsSound ==
    ASSUME NEW o \in GuestAccessOutcomes PROVE Sound(o)
BY DEF GuestAccessOutcomes, EvaluateGuestAccess, GuestRoles, Hidden, Undocumented,
       PassIf, Sound, Outcome

(* Pages that overlap, and leave nothing out, count every assignment once. *)
LEMMA DistinctIsAll ==
    ASSUME NEW a \in GlobalAdminAnswers
    PROVE  DistinctAssignments(<<1..a.first, a.second..a.admins>>) = a.admins
<1>1. /\ a.admins \in Nat /\ a.first \in Nat /\ a.second \in Nat
      /\ 1 <= a.second /\ a.second <= a.first + 1 /\ a.first <= a.admins
    BY SecurityBoundsAssumption DEF GlobalAdminAnswers
<1>2. (1..a.first) \cup (a.second..a.admins) = 1..a.admins
    BY <1>1
<1>3. Cardinality(1..a.admins) = a.admins
    <2>1. PICK n \in Nat : n = a.admins
        BY <1>1
    <2>2. Cardinality(1..n) = n
        BY FS_Interval
    <2> QED  BY <2>1, <2>2
<1> QED  BY <1>2, <1>3 DEF DistinctAssignments

LEMMA GlobalAdminIsSound ==
    ASSUME NEW o \in GlobalAdminOutcomes PROVE Sound(o)
<1>1. PICK a \in GlobalAdminAnswers :
          o = Outcome(EvaluateGlobalAdmins(<<1..a.first, a.second..a.admins>>, a.broken),
                      a.admins < 5, a.admins >= 5, ~a.broken)
    BY DEF GlobalAdminOutcomes
<1>2. a.admins \in Nat
    BY SecurityBoundsAssumption DEF GlobalAdminAnswers
<1>3. EvaluateGlobalAdmins(<<1..a.first, a.second..a.admins>>, a.broken)
          \in {"NOT_EVALUATED", PassIf(a.admins < 5)}
    BY DistinctIsAll DEF EvaluateGlobalAdmins
<1>4. PICK status :
          status = EvaluateGlobalAdmins(<<1..a.first, a.second..a.admins>>, a.broken)
    OBVIOUS
<1>5. /\ status = "PASS" => a.admins < 5
      /\ status = "OPEN" => a.admins >= 5
    BY <1>2, <1>3, <1>4 DEF PassIf
<1>6. \A few, many : (status = "PASS" => few) /\ (status = "OPEN" => many) =>
                         Sound(Outcome(status, few, many, ~a.broken))
    BY DEF Sound, Outcome
<1> QED  BY <1>1, <1>4, <1>5, <1>6

LEMMA KnownStates ==
    ASSUME NEW record
    PROVE  /\ StateOf(record) \in {"unknown_state", record.policy.state}
           /\ StateOf(record) = "enabled" => record.policy.state = "enabled"
BY DEF StateOf

LEMMA EnforcementIsSound ==
    ASSUME NEW o \in EnforcementOutcomes PROVE Sound(o)
<1>1. PICK records \in Tenants, complete \in BOOLEAN :
          o = PolicyOutcome(complete, records, EvaluateEnforcement(complete, records),
                            HasEnabled(records), ~HasEnabled(records), MaxPolicies)
    BY DEF EnforcementOutcomes
<1>2. PICK status : status = EvaluateEnforcement(complete, records)
    OBVIOUS
<1>3. /\ status = "PASS" => HasEnabled(records)
      /\ status = "OPEN" => ~HasEnabled(records)
    BY <1>2, KnownStates DEF EvaluateEnforcement, PassIf, HasEnabled, EnabledPolicies
<1>4. o.status = status /\ o.meets = HasEnabled(records) /\ o.gap = ~HasEnabled(records)
    BY <1>1, <1>2 DEF PolicyOutcome, Outcome
<1> QED  BY <1>3, <1>4 DEF Sound

LEMMA MfaPolicyIsSound ==
    ASSUME NEW o \in MfaPolicyOutcomes PROVE Sound(o)
<1>1. PICK records \in Tenants, complete \in BOOLEAN :
          o = PolicyOutcome(complete, records, EvaluateMfaPolicy(complete, records),
                            HasMfa(records), ~HasMfa(records) /\ ~HasStrength(records),
                            MaxPolicies)
    BY DEF MfaPolicyOutcomes
<1>2. PICK status : status = EvaluateMfaPolicy(complete, records)
    OBVIOUS
<1>3. ASSUME status = "PASS" PROVE HasMfa(records)
    <2>1. PICK i \in DOMAIN records : ShowsMfa(records[i])
        BY <1>2, <1>3 DEF EvaluateMfaPolicy
    <2>2. "mfa" \in records[i].policy.controls /\ records[i].policy.state = "enabled"
        BY <2>1, KnownStates DEF ShowsMfa
    <2> QED  BY <2>2 DEF HasMfa, EnabledPolicies
<1>4. ASSUME status = "OPEN" PROVE ~HasMfa(records) /\ ~HasStrength(records)
    <2>1. /\ CountsReliable(records)
          /\ \A i \in DOMAIN records : ~ShowsMfa(records[i]) /\ ~ShowsStrength(records[i])
        BY <1>2, <1>4 DEF EvaluateMfaPolicy
    <2>2. ASSUME NEW i \in DOMAIN records, records[i].policy.state = "enabled"
          PROVE  "mfa" \notin records[i].policy.controls /\ ~records[i].policy.strength
        <3>1. /\ StateOf(records[i]) = "enabled"
              /\ records[i].shape \notin {"no_controls", "odd_controls"}
            BY <2>1, <2>2, KnownStates DEF CountsReliable
        <3> QED  BY <2>1, <3>1 DEF ShowsMfa, ShowsStrength
    <2> QED  BY <2>2 DEF HasMfa, HasStrength, EnabledPolicies
<1>5. /\ o.status = status /\ o.meets = HasMfa(records)
      /\ o.gap = (~HasMfa(records) /\ ~HasStrength(records))
    BY <1>1, <1>2 DEF PolicyOutcome, Outcome
<1> QED  BY <1>3, <1>4, <1>5 DEF Sound

(* The rule on legacy authentication may misread a policy in an unknown    *)
(* state.                                                                  *)
LEMMA LegacyAuthIsSound ==
    ASSUME NEW o \in LegacyAuthOutcomes
    PROVE  /\ o.status = "PASS" => o.meets
           /\ o.status = "OPEN" /\ o.supported => o.gap
<1>1. PICK records \in Tenants, complete \in BOOLEAN :
          o = PolicyOutcome(complete, records, EvaluateLegacyAuth(complete, records),
                            HasLegacyBlock(records), ~HasLegacyBlock(records), PolicyRoom)
    BY DEF LegacyAuthOutcomes
<1>2. PICK status : status = EvaluateLegacyAuth(complete, records)
    OBVIOUS
<1>3. o.supported = (complete /\ StatesKnown(records))
    BY <1>1 DEF PolicyOutcome, Outcome
<1>4. ASSUME status = "PASS" PROVE HasLegacyBlock(records)
    <2>1. PICK i \in DOMAIN records : BlocksLegacy(records[i])
        BY <1>2, <1>4 DEF EvaluateLegacyAuth
    <2>2. /\ "block" \in records[i].policy.controls /\ records[i].policy.legacy
          /\ records[i].policy.state = "enabled"
        BY <2>1, KnownStates DEF BlocksLegacy
    <2> QED  BY <2>2 DEF HasLegacyBlock, EnabledPolicies
<1>5. ASSUME status = "OPEN", StatesKnown(records) PROVE ~HasLegacyBlock(records)
    <2>1. \A i \in DOMAIN records :
              ~BlocksLegacy(records[i]) /\ EvidenceComplete(records[i])
        BY <1>2, <1>5 DEF EvaluateLegacyAuth
    <2>2. ASSUME NEW i \in DOMAIN records, records[i].policy.state = "enabled"
          PROVE  ~("block" \in records[i].policy.controls /\ records[i].policy.legacy)
        <3>1. StateOf(records[i]) = "enabled"
            BY <1>5, <2>2, KnownStates DEF StatesKnown
        <3> QED  BY <2>1, <3>1 DEF BlocksLegacy
    <2> QED  BY <2>2 DEF HasLegacyBlock, EnabledPolicies
<1>6. status = "OPEN" => complete
    BY <1>2 DEF EvaluateLegacyAuth
<1>7. /\ o.status = status /\ o.meets = HasLegacyBlock(records)
      /\ o.gap = ~HasLegacyBlock(records)
    BY <1>1, <1>2 DEF PolicyOutcome, Outcome
<1> QED  BY <1>3, <1>4, <1>5, <1>6, <1>7

-----------------------------------------------------------------------------
(* Registration reports *)

(* As many rows of different users as there are users leave no user out.   *)
LEMMA EveryUserMatched ==
    ASSUME NEW enabled, IsFiniteSet(enabled), NEW report, IsFiniteSet(DOMAIN report),
           \A i, j \in DOMAIN report : report[i].user = report[j].user => i = j,
           Cardinality({i \in DOMAIN report : report[i].user \in enabled})
               = Cardinality(enabled)
    PROVE  \A u \in enabled : \E i \in DOMAIN report : report[i].user = u
<1> DEFINE matched == {i \in DOMAIN report : report[i].user \in enabled}
           who == [i \in matched |-> report[i].user]
<1>1. IsFiniteSet(matched)
    BY FS_Subset
<1>2. who \in Injection(matched, enabled)
    BY DEF Injection, IsInjective
<1>3. Cardinality(matched) = Cardinality(enabled)
    OBVIOUS
<1>4. \A i \in matched : who[i] = report[i].user /\ i \in DOMAIN report
    OBVIOUS
<1> HIDE DEF matched, who
<1>5. who \in Surjection(matched, enabled)
    BY <1>1, <1>2, <1>3, FS_Injection
<1>6. \A u \in enabled : \E i \in matched : who[i] = u
    BY <1>5 DEF Surjection
<1> QED  BY <1>4, <1>6

LEMMA ReportRows ==
    ASSUME NEW report \in Reports
    PROVE  /\ IsFiniteSet(DOMAIN report)
           /\ \A i \in DOMAIN report :
                 report[i] = [user |-> report[i].user, shape |-> report[i].shape]
                 /\ report[i].shape \in {"registered", "unregistered", "malformed"}
<1>1. PICK n \in 0..MaxRows : report \in [1..n -> Row]
    BY DEF Reports
<1>2. IsFiniteSet(1..n)
    BY SecurityBoundsAssumption, FS_Interval
<1> QED  BY <1>1, <1>2 DEF Row

LEMMA RegistrationIsSound ==
    ASSUME NEW o \in RegistrationOutcomes PROVE Sound(o)
<1>1. PICK complete \in BOOLEAN, enabled \in SUBSET Users, report \in Reports :
          o = [Outcome(EvaluateRegistration(complete, enabled, report),
                       AllSaid(report, enabled, "registered"),
                       SomeSaid(report, enabled, "unregistered"),
                       complete /\ ~Malformed(report))
               EXCEPT !.once = EachOnce(report)]
    BY DEF RegistrationOutcomes
<1>2. PICK status : status = EvaluateRegistration(complete, enabled, report)
    OBVIOUS
<1>3. /\ o.status = status /\ o.once = EachOnce(report)
      /\ o.meets = AllSaid(report, enabled, "registered")
      /\ o.gap = SomeSaid(report, enabled, "unregistered")
    BY <1>1, <1>2 DEF Outcome
<1>4. status \in {"PASS", "OPEN"} =>
          /\ ~Malformed(report)
          /\ Cardinality({i \in DOMAIN report : report[i].user \in enabled})
                 = Cardinality(enabled)
          /\ status = PassIf(\A i \in {j \in DOMAIN report : report[j].user \in enabled} :
                                report[i].shape = "registered")
    BY <1>2 DEF EvaluateRegistration
<1>5. ASSUME status = "PASS", EachOnce(report)
      PROVE  AllSaid(report, enabled, "registered")
    <2>1. IsFiniteSet(enabled)
        BY UsersAssumption, FS_Subset
    <2>2. \A u \in enabled : \E i \in DOMAIN report : report[i].user = u
        BY <1>4, <1>5, <2>1, ReportRows, EveryUserMatched DEF EachOnce
    <2>3. \A i \in DOMAIN report : report[i].user \in enabled =>
              report[i].shape = "registered"
        BY <1>4, <1>5 DEF PassIf
    <2> QED  BY <2>2, <2>3, ReportRows DEF AllSaid, Says
<1>6. ASSUME status = "OPEN" PROVE SomeSaid(report, enabled, "unregistered")
    <2>1. PICK i \in DOMAIN report :
              report[i].user \in enabled /\ report[i].shape # "registered"
        BY <1>4, <1>6 DEF PassIf
    <2>2. report[i] = [user |-> report[i].user, shape |-> "unregistered"]
        BY <1>4, <1>6, <2>1, ReportRows DEF Malformed
    <2> QED  BY <2>1, <2>2 DEF SomeSaid, Says
<1> QED  BY <1>3, <1>5, <1>6 DEF Sound

LEMMA AdminRegistrationIsSound ==
    ASSUME NEW o \in AdminRegistrationOutcomes PROVE Sound(o)
<1>1. PICK complete \in BOOLEAN, admins \in SUBSET Users, report \in Reports :
          o = Outcome(EvaluateAdminRegistration(complete, admins, report),
                      ~SomeSaid(report, admins, "unregistered"),
                      SomeSaid(report, admins, "unregistered"),
                      complete /\ ~Malformed(report))
    BY DEF AdminRegistrationOutcomes
<1>2. PICK status : status = EvaluateAdminRegistration(complete, admins, report)
    OBVIOUS
<1>3. status \in {"PASS", "OPEN"} =>
          /\ ~Malformed(report)
          /\ status = PassIf(\A i \in {j \in DOMAIN report : report[j].user \in admins} :
                                report[i].shape = "registered")
    BY <1>2 DEF EvaluateAdminRegistration
<1>4. ASSUME status = "PASS" PROVE ~SomeSaid(report, admins, "unregistered")
    BY <1>3, <1>4 DEF PassIf, SomeSaid, Says
<1>5. ASSUME status = "OPEN" PROVE SomeSaid(report, admins, "unregistered")
    <2>1. PICK i \in DOMAIN report :
              report[i].user \in admins /\ report[i].shape # "registered"
        BY <1>3, <1>5 DEF PassIf
    <2>2. report[i] = [user |-> report[i].user, shape |-> "unregistered"]
        BY <1>3, <1>5, <2>1, ReportRows DEF Malformed
    <2> QED  BY <2>1, <2>2 DEF SomeSaid, Says
<1>6. /\ o.status = status /\ o.meets = ~SomeSaid(report, admins, "unregistered")
      /\ o.gap = SomeSaid(report, admins, "unregistered")
    BY <1>1, <1>2 DEF Outcome
<1> QED  BY <1>4, <1>5, <1>6 DEF Sound

-----------------------------------------------------------------------------
LEMMA RulesAreSound ==
    ASSUME NEW id \in RuleIds, NEW o \in Outcomes[id], o.once
    PROVE  /\ o.status = "PASS" => o.meets
           /\ o.status = "OPEN" /\ (id = "CA_LEGACY_AUTH" => o.supported) => o.gap
<1>1. CASE id \in {"SP_EXT", "GUEST"}
    <2>1. Outcomes[id] \in {LevelOutcomes(SharingLevels), LevelOutcomes(InvitationLevels)}
        BY <1>1 DEF Outcomes
    <2> QED  BY <2>1, LevelsAreSound DEF Sound
<1>2. CASE id \in {"CONSENT", "RISKY_CONSENT", "GUEST_ACCESS", "GA"}
    <2>1. o \in ConsentOutcomes \/ o \in RiskyConsentOutcomes
          \/ o \in GuestAccessOutcomes \/ o \in GlobalAdminOutcomes
        BY <1>2 DEF Outcomes
    <2> QED  BY <2>1, ConsentIsSound, RiskyConsentIsSound, GuestAccessIsSound,
                GlobalAdminIsSound DEF Sound
<1>3. CASE id \in {"CA_ENFORCEMENT", "CA_MFA", "MFA_REG", "ADMIN_MFA_REG"}
    <2>1. o \in EnforcementOutcomes \/ o \in MfaPolicyOutcomes
          \/ o \in RegistrationOutcomes \/ o \in AdminRegistrationOutcomes
        BY <1>3 DEF Outcomes
    <2> QED  BY <2>1, EnforcementIsSound, MfaPolicyIsSound, RegistrationIsSound,
                AdminRegistrationIsSound DEF Sound
<1>4. CASE id = "CA_LEGACY_AUTH"
    <2>1. o \in LegacyAuthOutcomes
        BY <1>4 DEF Outcomes
    <2> QED  BY <1>4, <2>1, LegacyAuthIsSound
<1>5. RuleIds = {"SP_EXT", "GUEST", "CONSENT", "RISKY_CONSENT", "GUEST_ACCESS", "GA",
                 "CA_ENFORCEMENT", "CA_MFA", "CA_LEGACY_AUTH", "MFA_REG", "ADMIN_MFA_REG"}
    BY DEF RuleIds, Outcomes
<1> QED  BY <1>1, <1>2, <1>3, <1>4, <1>5

LEMMA RuleIsFixed == Spec => [](rule \in RuleIds)
<1>1. Init => rule \in RuleIds
    BY DEF Init
<1>2. rule \in RuleIds /\ [Next]_vars => (rule \in RuleIds)'
    BY DEF Next, Tick, Evaluate, StoreFinding, FailWrite, vars
<1> QED  BY <1>1, <1>2, PTL DEF Spec

LEMMA InvSound == Inv /\ rule \in RuleIds => VerdictIsSound
<1> SUFFICES ASSUME Inv, rule \in RuleIds, NEW v \in Verdicts
             PROVE  v.outcome.once =>
                        /\ v.outcome.status = "PASS" => v.outcome.meets
                        /\ (v.outcome.status = "OPEN" /\ ~Misread(v)) => v.outcome.gap
    BY DEF VerdictIsSound
<1>1. v.outcome \in Outcomes[rule]
    BY DEF Inv, ShapeInv, Verdicts, AllVerdicts
<1>2. PICK o : o = v.outcome
    OBVIOUS
<1>3. o.once => /\ o.status = "PASS" => o.meets
                /\ o.status = "OPEN" /\ (rule = "CA_LEGACY_AUTH" => o.supported) => o.gap
    BY <1>1, <1>2, RulesAreSound
<1> QED  BY <1>2, <1>3 DEF Misread

(* Whatever a tenant has and whatever Graph hides of it, a rule opens a    *)
(* finding only on a tenant that violates the baseline, and passes only    *)
(* one that meets it, for any policies, administrators, users and reports, *)
(* and any number of them; repeated registration rows and legacy           *)
(* authentication over unknown policy states are the two exceptions        *)
(* (service._EVALUATORS).                                                  *)
THEOREM SoundVerdicts == Spec => []VerdictIsSound
BY Invariance, RuleIsFixed, InvSound, PTL

=============================================================================
