---------------------------- MODULE SecurityRules ----------------------------
(***************************************************************************)
(* The security collectors and the rules that judge what they observed, as *)
(* pure operators.  The tenant is in some state; the collector sees it     *)
(* through an answer of Graph that may hide a part of it; the rule turns   *)
(* the observation into PASS, OPEN or NOT_EVALUATED.  For every rule,      *)
(* Outcomes is the set of verdicts together with the truth about the       *)
(* tenant they were reached on.                                            *)
(***************************************************************************)
EXTENDS Integers, Sequences, FiniteSets

CONSTANTS
    Policies,     \* Conditional Access policies a tenant may have
    MaxPolicies,  \* bound: policies of one tenant
    PolicyRoom,   \* policies whose evidence fits in a normalized value
    MaxAdmins,    \* bound: Global Administrator assignments
    Users,        \* users a registration report may have rows of
    MaxRows       \* bound: rows of one registration report

ASSUME PoliciesAssumption ==
    Policies \subseteq [state : {"enabled", "report_only", "disabled"},
                        controls : SUBSET {"mfa", "block"},
                        strength : BOOLEAN, legacy : BOOLEAN]
ASSUME SecurityBoundsAssumption ==
    MaxPolicies \in Nat /\ PolicyRoom \in Nat /\ MaxAdmins \in Nat /\ MaxRows \in Nat
ASSUME UsersAssumption == IsFiniteSet(Users) /\ "stranger" \notin Users

Statuses == {"PASS", "OPEN", "NOT_EVALUATED"}

(* What a run of a rule came to: its verdict; whether the tenant really    *)
(* meets the baseline, or really violates it; whether every value of the   *)
(* answer was one the rule documents; whether every row came once; whether *)
(* the normalized value fits in its column.                                *)
Outcome(status, meets, gap, supported) ==
    [status |-> status, meets |-> meets, gap |-> gap,
     supported |-> supported, once |-> TRUE, fits |-> TRUE]

(* The request failed, or the property is missing or of the wrong type.    *)
Hidden == "hidden"
Undocumented == "undocumented"

PassIf(condition) == IF condition THEN "PASS" ELSE "OPEN"

-----------------------------------------------------------------------------
(* M365-SP-EXT-001 and M365-ENTRA-GUEST-001: levels in order, and the      *)
(* baseline is the second of four.                                         *)
SharingLevels == <<"disabled", "existingExternalUserSharingOnly",
                   "externalUserSharingOnly", "externalUserAndGuestSharing">>
InvitationLevels == <<"none", "adminsAndGuestInviters",
                      "adminsGuestInvitersAndAllMembers", "everyone">>

EvaluateLevel(levels, seen) ==
    IF \A i \in DOMAIN levels : levels[i] # seen THEN "NOT_EVALUATED"
    ELSE PassIf(seen \in {levels[1], levels[2]})

LevelOutcomes(levels) ==
    LET documented == {levels[i] : i \in DOMAIN levels}
    IN {Outcome(EvaluateLevel(levels, IF shown THEN actual ELSE Hidden),
                actual \in {levels[1], levels[2]},
                actual \in {levels[3], levels[4]},
                shown /\ actual \in documented) :
          actual \in documented \cup {Undocumented}, shown \in BOOLEAN}

(* M365-ENTRA-CONSENT-001: the permission grant policies assigned to the   *)
(* default user role; "other" is outside managePermissionGrantsForSelf.    *)
GrantPolicies == {"recommended", "low", "legacy", "custom", "other"}

NormalizeUserConsent(assigned) ==
    LET relevant == assigned \ {"other"}
    IN CASE "legacy" \in relevant -> "legacy_broad_consent"
         [] "legacy" \notin relevant /\ "custom" \in relevant -> "custom_or_unknown"
         [] relevant = {} -> "user_consent_disabled"
         [] relevant # {} /\ relevant \subseteq {"recommended", "low"} ->
               IF "recommended" \in relevant THEN "microsoft_recommended"
               ELSE "limited_low_risk"

EvaluateUserConsent(state) ==
    CASE state \in {Hidden, "custom_or_unknown"} -> "NOT_EVALUATED"
      [] state = "legacy_broad_consent" -> "OPEN"
      [] OTHER -> "PASS"

ConsentOutcomes ==
    {Outcome(EvaluateUserConsent(
                 IF shown THEN NormalizeUserConsent(assigned) ELSE Hidden),
             assigned \cap {"legacy", "custom"} = {}, "legacy" \in assigned,
             shown) :
        assigned \in SUBSET GrantPolicies, shown \in BOOLEAN}

(* M365-ENTRA-RISKY-CONSENT-001: type(value) is bool, nothing else counts. *)
EvaluateRiskyConsent(seen) ==
    IF seen = Hidden THEN "NOT_EVALUATED" ELSE PassIf(seen = "disabled")

RiskyConsentOutcomes ==
    {Outcome(EvaluateRiskyConsent(IF shown THEN actual ELSE Hidden),
             actual = "disabled", actual = "enabled", shown) :
        actual \in {"enabled", "disabled"}, shown \in BOOLEAN}

(* M365-ENTRA-GUEST-ACCESS-001: guestUserRoleId. *)
GuestRoles == {"same_as_members", "limited_guest", "restricted_guest"}

EvaluateGuestAccess(seen) ==
    IF seen \notin GuestRoles THEN "NOT_EVALUATED"
    ELSE PassIf(seen # "same_as_members")

GuestAccessOutcomes ==
    {Outcome(EvaluateGuestAccess(IF shown THEN actual ELSE Hidden),
             actual \in GuestRoles \ {"same_as_members"},
             actual = "same_as_members",
             shown /\ actual \in GuestRoles) :
        actual \in GuestRoles \cup {Undocumented}, shown \in BOOLEAN}

(* M365-ENTRA-GA-001: the pages of the assignments may repeat one, and an  *)
(* error, a malformed assignment or a foreign next link on any page drops  *)
(* what the pages before it held.                                          *)
DistinctAssignments(pages) == Cardinality(pages[1] \cup pages[2])

EvaluateGlobalAdmins(pages, broken) ==
    IF broken THEN "NOT_EVALUATED" ELSE PassIf(DistinctAssignments(pages) < 5)

GlobalAdminAnswers ==
    {a \in [admins : 0..MaxAdmins, first : 0..MaxAdmins,
            second : 1..(MaxAdmins + 1), broken : BOOLEAN] :
        /\ a.first <= a.admins
        /\ a.second \in {a.first, a.first + 1}
        /\ a.second <= a.admins + 1}

GlobalAdminOutcomes ==
    {Outcome(EvaluateGlobalAdmins(<<1..a.first, a.second..a.admins>>, a.broken),
             a.admins < 5, a.admins >= 5, ~a.broken) :
        a \in GlobalAdminAnswers}

-----------------------------------------------------------------------------
(* Conditional Access: a policy as the record of it shows it.              *)
Shapes == {"whole", "no_object", "odd_state", "no_controls", "odd_controls",
           "no_types", "null_strength"}

Record == [policy : Policies, shape : Shapes]

StateOf(record) ==
    IF record.shape \in {"no_object", "odd_state"} THEN "unknown_state"
    ELSE record.policy.state

(* M365-ENTRA-CA-ENFORCEMENT-001 on aggregate_policy_states *)
EvaluateEnforcement(complete, records) ==
    IF \/ ~complete
       \/ \E i \in DOMAIN records : StateOf(records[i]) = "unknown_state"
    THEN "NOT_EVALUATED"
    ELSE PassIf(\E i \in DOMAIN records : StateOf(records[i]) = "enabled")

(* Mutant: a record that is not understood is left out of the counts. *)
CountsTakenAsReliable(records) == TRUE

(* aggregate_policy_security_counts gives up on the whole collection when  *)
(* one record is not understood.                                           *)
CountsReliable(records) ==
    \A i \in DOMAIN records :
        /\ StateOf(records[i]) # "unknown_state"
        /\ records[i].shape \notin {"no_controls", "odd_controls"}

ShowsMfa(record) ==
    /\ StateOf(record) = "enabled"
    /\ record.shape \notin {"no_controls", "odd_controls"}
    /\ "mfa" \in record.policy.controls

(* The key is present, be its value null. *)
ShowsStrength(record) ==
    /\ StateOf(record) = "enabled"
    /\ record.policy.strength \/ record.shape = "null_strength"

(* M365-ENTRA-CA-MFA-001 *)
EvaluateMfaPolicy(complete, records) ==
    CASE ~complete \/ ~CountsReliable(records) -> "NOT_EVALUATED"
      [] OTHER ->
            CASE \E i \in DOMAIN records : ShowsMfa(records[i]) -> "PASS"
              [] /\ \A i \in DOMAIN records : ~ShowsMfa(records[i])
                 /\ \E i \in DOMAIN records : ShowsStrength(records[i]) ->
                    "NOT_EVALUATED"
              [] OTHER -> "OPEN"

(* What the collector calls complete evidence of one policy: its client    *)
(* types and controls, not its state.                                      *)
EvidenceComplete(record) ==
    record.shape \notin {"no_object", "no_controls", "odd_controls", "no_types"}

BlocksLegacy(record) ==
    /\ EvidenceComplete(record)
    /\ StateOf(record) = "enabled"
    /\ "block" \in record.policy.controls
    /\ record.policy.legacy

(* M365-ENTRA-CA-LEGACY-AUTH-001: one qualifying policy proves presence,   *)
(* absence takes complete evidence of all.                                 *)
EvaluateLegacyAuth(complete, records) ==
    CASE ~complete -> "NOT_EVALUATED"
      [] complete /\ \E i \in DOMAIN records : BlocksLegacy(records[i]) -> "PASS"
      [] OTHER ->
            IF \A i \in DOMAIN records : EvidenceComplete(records[i])
            THEN "OPEN" ELSE "NOT_EVALUATED"

Tenants == UNION {[1..n -> Record] : n \in 0..MaxPolicies}

EnabledPolicies(records) ==
    {p \in {records[i].policy : i \in DOMAIN records} : p.state = "enabled"}

StatesKnown(records) ==
    \A i \in DOMAIN records : StateOf(records[i]) # "unknown_state"

PolicyOutcome(complete, records, status, meets, gap, room) ==
    [Outcome(status, meets, gap, complete /\ StatesKnown(records))
     EXCEPT !.fits = ~complete \/ Len(records) <= room]

HasEnabled(records) == EnabledPolicies(records) # {}
HasMfa(records) == \E p \in EnabledPolicies(records) : "mfa" \in p.controls
HasStrength(records) == \E p \in EnabledPolicies(records) : p.strength
HasLegacyBlock(records) ==
    \E p \in EnabledPolicies(records) : "block" \in p.controls /\ p.legacy

EnforcementOutcomes ==
    {PolicyOutcome(complete, records, EvaluateEnforcement(complete, records),
                   HasEnabled(records), ~HasEnabled(records), MaxPolicies) :
        records \in Tenants, complete \in BOOLEAN}
(* The MFA rule leaves the question open for a tenant that only requires   *)
(* an authentication strength, so there is no gap to report.               *)
MfaPolicyOutcomes ==
    {PolicyOutcome(complete, records, EvaluateMfaPolicy(complete, records),
                   HasMfa(records), ~HasMfa(records) /\ ~HasStrength(records),
                   MaxPolicies) :
        records \in Tenants, complete \in BOOLEAN}
LegacyAuthOutcomes ==
    {PolicyOutcome(complete, records, EvaluateLegacyAuth(complete, records),
                   HasLegacyBlock(records), ~HasLegacyBlock(records), PolicyRoom) :
        records \in Tenants, complete \in BOOLEAN}

-----------------------------------------------------------------------------
(* Registration reports.  The directory table says which users are         *)
(* enabled; a row is of a user, known to it by id or principal name, or of *)
(* a stranger.  Paging can repeat one row and miss another.                *)
Row == [user : Users \cup {"stranger"},
        shape : {"registered", "unregistered", "malformed"}]
Reports == UNION {[1..n -> Row] : n \in 0..MaxRows}

Malformed(report) == \E i \in DOMAIN report : report[i].shape = "malformed"
Says(report, user, shape) == \E i \in DOMAIN report : report[i] = [user |-> user, shape |-> shape]

(* M365-ENTRA-MFA-REG-001: as many rows match as there are enabled users,  *)
(* and no row is left over.                                                *)
EvaluateRegistration(complete, enabled, report) ==
    LET matched == {i \in DOMAIN report : report[i].user \in enabled}
    IN IF \/ ~complete
          \/ Malformed(report)
          \/ Cardinality(matched) # Cardinality(enabled)
          \/ Len(report) # Cardinality(matched)
       THEN "NOT_EVALUATED"
       ELSE PassIf(\A i \in matched : report[i].shape = "registered")

AllSaid(report, users, shape) == \A u \in users : Says(report, u, shape)
SomeSaid(report, users, shape) == \E u \in users : Says(report, u, shape)
EachOnce(report) ==
    \A i, j \in DOMAIN report : report[i].user = report[j].user => i = j

RegistrationOutcomes ==
    {[Outcome(EvaluateRegistration(complete, enabled, report),
              AllSaid(report, enabled, "registered"),
              SomeSaid(report, enabled, "unregistered"),
              complete /\ ~Malformed(report))
      EXCEPT !.once = EachOnce(report)] :
        complete \in BOOLEAN, enabled \in SUBSET Users, report \in Reports}

(* M365-ENTRA-ADMIN-MFA-REG-001: who is an administrator is in the report. *)
EvaluateAdminRegistration(complete, admins, report) ==
    LET known == {i \in DOMAIN report : report[i].user \in admins}
    IN IF ~complete \/ Malformed(report) \/ known = {}
       THEN "NOT_EVALUATED"
       ELSE PassIf(\A i \in known : report[i].shape = "registered")

AdminRegistrationOutcomes ==
    {Outcome(EvaluateAdminRegistration(complete, admins, report),
             ~SomeSaid(report, admins, "unregistered"),
             SomeSaid(report, admins, "unregistered"),
             complete /\ ~Malformed(report)) :
        complete \in BOOLEAN, admins \in SUBSET Users, report \in Reports}

-----------------------------------------------------------------------------
(* service._EVALUATORS *)
Outcomes ==
    [SP_EXT |-> LevelOutcomes(SharingLevels),
     GUEST |-> LevelOutcomes(InvitationLevels),
     CONSENT |-> ConsentOutcomes,
     RISKY_CONSENT |-> RiskyConsentOutcomes,
     GUEST_ACCESS |-> GuestAccessOutcomes,
     GA |-> GlobalAdminOutcomes,
     CA_ENFORCEMENT |-> EnforcementOutcomes,
     CA_MFA |-> MfaPolicyOutcomes,
     CA_LEGACY_AUTH |-> LegacyAuthOutcomes,
     MFA_REG |-> RegistrationOutcomes,
     ADMIN_MFA_REG |-> AdminRegistrationOutcomes]

RuleIds == DOMAIN Outcomes

=============================================================================
