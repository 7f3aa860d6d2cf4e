-------------------------- MODULE ScenarioExecution --------------------------
(***************************************************************************)
(* One execution by the scenario agent: the catalog is loaded, a request   *)
(* passes the safety gate and is planned, and the executor runs the one    *)
(* step of the plan.  A live sign-in is the device-code flow and the check *)
(* of /me; the sign-in page, the operator and the clock are the            *)
(* environment.  Time is counted in ticks from the start of the flow; an   *)
(* answer of the network takes at most Latency of them, an operator as     *)
(* many as it pleases.                                                     *)
(***************************************************************************)
EXTENDS ScenarioCatalog, SequencesExt

CONSTANTS
    Catalogs,        \* catalogs on disk
    Actors,          \* actors a caller may supply
    NoActor,
    Configurations,  \* agent and executor: mode, allowDestructive,
                     \* scopesIntact, expected, confirms
    Identities,      \* what /me may answer: object id and UPN
    NoIdentity,
    Unset,           \* a field of an expected actor that is not set
    Timeout,         \* config.timeout_seconds
    Lifetimes,       \* expires_in of a device code
    Intervals,       \* interval of a device code
    Latency,         \* the longest answer of the network
    MaxThink         \* bound: the clock up to which an operator thinks

ASSUME TimeAssumption ==
    /\ Timeout \in Nat /\ Latency \in Nat /\ MaxThink \in Nat
    /\ Lifetimes \subseteq Nat /\ Intervals \subseteq Nat \ {0}
ASSUME CatalogAssumption ==
    \A onDisk \in Catalogs :
        /\ Len(onDisk.entries) \in Nat
        /\ DOMAIN onDisk.entries = 1..Len(onDisk.entries)
ASSUME IdentityAssumption == NoIdentity \notin Identities

VARIABLES
    catalog,     \* the catalog on disk
    read,        \* the entries of the catalog read so far, and
    found,       \* what load_scenario_catalog made of them
    registry,    \* definitions by scenario id
    config,      \* the executor's configuration
    phase,       \* where the execution is
    planned,     \* scenario and actor of the plan
    clock,
    since,       \* when the call or sleep under way began
    code,        \* expiry and interval of the device code
    signin,      \* the sign-in page: "waiting", "declined" or "signed_in"
    me,          \* the identity that signed in, once /me has answered
    subject,     \* the identity that signed in
    held,        \* secrets in memory: "device_code", "token"
    steps,       \* what the flow got to
    polledAt,    \* clock of the last poll
    result,      \* status and error code of the step
    record       \* the evidence record

index == <<read, found>>
setting == <<catalog, index, registry, config, planned>>
page == <<code, signin, subject>>
outcome == <<me, result, record>>
vars == <<setting, phase, clock, since, page, held, steps, polledAt, outcome>>

NoRegistry == [id \in {} |-> {}]
NoPlan == [scenario |-> "none", actor |-> NoActor]
NoCode == [expires |-> 0, interval |-> 0]
NoResult == [status |-> "none", code |-> "none"]

(* The catalog and the executor are fixed; the clock starts with the flow. *)
Init ==
    /\ catalog \in Catalogs
    /\ config \in Configurations
    /\ read = 0 /\ found = NothingLoaded
    /\ registry = NoRegistry
    /\ planned = NoPlan
    /\ phase = "loading"
    /\ clock = 0 /\ since = 0 /\ polledAt = 0
    /\ code = NoCode
    /\ signin = "waiting"
    /\ subject = NoIdentity
    /\ me = NoIdentity
    /\ held = {} /\ steps = {}
    /\ result = NoResult
    /\ record = NoResult

-----------------------------------------------------------------------------
(* Planning. *)

AllRead == read + 1 \notin DOMAIN catalog.entries

(* One turn of the loop over the index.                                    *)
ReadEntry ==
    /\ phase = "loading"
    /\ ~AllRead
    /\ read' = read + 1
    /\ found' = LoadEntry(found, catalog.entries[read + 1])
    /\ UNCHANGED <<catalog, registry, config, planned, phase, clock, since,
                   page, held, steps, polledAt, outcome>>

LoadCatalog ==
    /\ phase = "loading"
    /\ AllRead
    /\ \E loaded \in LoadScenarioCatalog(catalog, found) :
          \E built \in BuildCatalogRegistry(loaded) : registry' = built
    /\ phase' = "idle"
    /\ UNCHANGED <<catalog, index, config, planned, clock, since, page, held, steps,
                   polledAt, outcome>>

RefuseCatalog ==
    /\ phase = "loading"
    /\ AllRead
    /\ \A loaded \in LoadScenarioCatalog(catalog, found) :
          BuildCatalogRegistry(loaded) = {}
    /\ phase' = "refused"
    /\ UNCHANGED <<setting, clock, since, page, held, steps, polledAt, outcome>>

ActorIsAuthorized(actor, id) ==
    /\ actor.enabled
    /\ registry[id].enabled
    /\ \A ids \in actor.allowedScenarios : id \in ids
    /\ \A workloads \in actor.allowedWorkloads :
          registry[id].workload \in workloads

(* evaluate_safety; every definition requires an identity.  Which refusal  *)
(* is named first is left out.                                             *)
PassesSafety(id, actor, metadata) ==
    /\ id \in DOMAIN registry
    /\ registry[id].enabled
    /\ registry[id].destructive => config.allowDestructive
    /\ registry[id].action \in SupportedActionTypes
    /\ registry[id].permissions # {}
    /\ actor # NoActor
    /\ ActorIsAuthorized(actor, id)
    /\ metadata = "plain"

Plan(id, actor, metadata) ==
    /\ phase = "idle"
    /\ PassesSafety(id, actor, metadata)
    /\ planned' = [scenario |-> id, actor |-> actor]
    /\ phase' = "planned"
    /\ UNCHANGED <<catalog, index, registry, config, clock, since, page, held, steps,
                   polledAt, outcome>>

RefuseRequest(id, actor, metadata) ==
    /\ phase = "idle"
    /\ ~PassesSafety(id, actor, metadata)
    /\ phase' = "refused"
    /\ UNCHANGED <<setting, clock, since, page, held, steps, polledAt, outcome>>

RefuseActor(actor) ==
    /\ phase = "planned"
    /\ ~(actor # NoActor /\ actor.id = planned.actor.id)
    /\ phase' = "refused"
    /\ UNCHANGED <<setting, clock, since, page, held, steps, polledAt, outcome>>

-----------------------------------------------------------------------------
(* The executor. *)

FinalStatus(statuses) ==
    LET reported == ToSet(statuses)
    IN  IF "BLOCKED" \in reported THEN "BLOCKED"
        ELSE IF reported = {"SUCCESS"} THEN "SUCCESS"
        ELSE IF {"SUCCESS", "FAILED"} \subseteq reported
        THEN "PARTIAL_SUCCESS"
        ELSE "FAILED"

(* Every end of the flow drops the device code and the token. *)
Finish(status, error) ==
    /\ result' = [status |-> FinalStatus(<<status>>), code |-> error]
    /\ phase' = "done"
    /\ held' = {}
    /\ UNCHANGED <<setting, clock, since, page, polledAt, record>>

Fail(error) == Finish("FAILED", error) /\ UNCHANGED <<steps, me>>

IsUsable(expected) == \E field \in {"oid", "upn"} : expected[field] # Unset

(* Why the live executor will not start; "none" if it will. *)
LiveRefusal ==
    IF config.mode = "live_off" THEN "LIVE_EXECUTION_DISABLED"
    ELSE IF registry[planned.scenario].action # "INTERACTIVE_SIGNIN"
    THEN "UNSUPPORTED_LIVE_ACTION"
    ELSE IF ~config.scopesIntact \/ ~IsUsable(config.expected)
    THEN "LIVE_CONFIGURATION_INVALID"
    ELSE "none"

ExecuteDryRun ==
    /\ phase = "planned"
    /\ config.mode = "dry_run"
    /\ Finish("SUCCESS", "none")
    /\ UNCHANGED <<steps, me>>

RefuseLive ==
    /\ phase = "planned"
    /\ config.mode # "dry_run"
    /\ LiveRefusal # "none"
    /\ Finish("BLOCKED", LiveRefusal)
    /\ UNCHANGED <<steps, me>>

RequestDeviceCode ==
    /\ phase = "planned"
    /\ config.mode = "live"
    /\ LiveRefusal = "none"
    /\ phase' = "requesting"
    /\ since' = clock
    /\ steps' = {"code_requested"}
    /\ UNCHANGED <<setting, clock, page, held, polledAt, outcome>>

(* The lifetime counts from the moment the code was issued. *)
ReceiveDeviceCode(lifetime, interval) ==
    /\ phase = "requesting"
    /\ \E issued \in since..clock :
          code' = [expires |-> issued + lifetime, interval |-> interval]
    /\ held' = {"device_code"}
    /\ phase' = "prompting"
    /\ UNCHANGED <<setting, clock, since, signin, subject, steps, polledAt,
                   outcome>>

(* An exception, an error answer, or a body that is not valid. *)
DeviceCodeFails ==
    /\ phase = "requesting"
    /\ Fail("AUTH_DEVICE_CODE_ERROR")

Prompt ==
    /\ phase = "prompting"
    /\ phase' = IF config.confirms THEN "confirming" ELSE "ready"
    /\ UNCHANGED <<setting, clock, since, page, held, steps, polledAt, outcome>>

PromptRaises ==
    /\ phase = "prompting"
    /\ Fail("AUTH_DEVICE_CODE_ERROR")

Confirm ==
    /\ phase = "confirming"
    /\ steps' = steps \cup {"confirmed"}
    /\ phase' = "ready"
    /\ UNCHANGED <<setting, clock, since, page, held, polledAt, outcome>>

(* Refused, interrupted, or the callback failed. *)
ConfirmationFails ==
    /\ phase = "confirming"
    /\ Fail("AUTH_DECLINED")

(* Mutant: the budget is not checked again in the loop. *)
BeginPollUnchecked ==
    /\ phase = "ready"
    /\ phase' = "polling"
    /\ since' = clock
    /\ polledAt' = clock
    /\ steps' = steps \cup {"polled"}
    /\ UNCHANGED <<setting, clock, page, held, outcome>>

(* The budget is checked before each poll, never during a sleep. *)
BeginPoll ==
    /\ phase = "ready"
    /\ clock <= Timeout
    /\ phase' = "polling"
    /\ since' = clock
    /\ polledAt' = clock
    /\ steps' = steps \cup {"polled"}
    /\ UNCHANGED <<setting, clock, page, held, outcome>>

TimeOut ==
    /\ phase = "ready"
    /\ clock > Timeout
    /\ Fail("AUTH_TIMEOUT")

(* Mutant: the next poll follows at once. *)
PendingWithoutSleep ==
    /\ phase = "polling"
    /\ phase' = "ready"
    /\ UNCHANGED <<setting, clock, since, page, held, steps, polledAt, outcome>>

(* The page may not have noticed the user yet. *)
Pending ==
    /\ phase = "polling"
    /\ phase' = "sleeping"
    /\ since' = clock
    /\ UNCHANGED <<setting, clock, page, held, steps, polledAt, outcome>>

Wake ==
    /\ phase = "sleeping"
    /\ clock >= since + code.interval
    /\ phase' = "ready"
    /\ UNCHANGED <<setting, clock, since, page, held, steps, polledAt, outcome>>

(* The token is used at once: /me is called with it. *)
ReceiveToken ==
    /\ phase = "polling"
    /\ signin = "signed_in"
    /\ since <= code.expires
    /\ held' = {"token"}
    /\ phase' = "verifying"
    /\ since' = clock
    /\ steps' = steps \cup {"me_requested"}
    /\ UNCHANGED <<setting, clock, page, polledAt, outcome>>

PollDeclined ==
    /\ phase = "polling"
    /\ signin = "declined"
    /\ Fail("AUTH_DECLINED")

PollExpired ==
    /\ phase = "polling"
    /\ clock > code.expires
    /\ Fail("AUTH_TIMEOUT")

(* An exception, any other error (slow_down among them), a bad token. *)
PollFails ==
    /\ phase = "polling"
    /\ Fail("AUTH_TOKEN_ERROR")

(* Mutant: one matching field is enough. *)
MatchesEither(identity) ==
    \E field \in {"oid", "upn"} :
        /\ config.expected[field] # Unset
        /\ identity[field] = config.expected[field]

(* Both fields must match if both are set, otherwise the one that is. *)
MatchesExpected(identity) ==
    LET expected == config.expected
        Match(field) == expected[field] # Unset
                        /\ identity[field] = expected[field]
    IN  IF expected.oid # Unset /\ expected.upn # Unset
        THEN Match("oid") /\ Match("upn")
        ELSE Match("oid") \/ Match("upn")

VerifyActor ==
    /\ phase = "verifying"
    /\ me' = subject
    /\ IF MatchesExpected(subject)
       THEN Finish("SUCCESS", "none")
       ELSE Finish("FAILED", "ACTOR_IDENTITY_MISMATCH")
    /\ UNCHANGED steps

VerificationFails ==
    /\ phase = "verifying"
    /\ Fail("GRAPH_ME_VALIDATION_FAILED")

-----------------------------------------------------------------------------
(* The evidence boundary. *)

(* Mutant: a classification the map was not told about. *)
ErrorCodeMapWithoutDeclined ==
    [AUTH_TIMEOUT |-> "AUTH_TIMEOUT",
     AUTH_DEVICE_CODE_ERROR |-> "AUTH_FAILED",
     AUTH_TOKEN_ERROR |-> "AUTH_FAILED",
     ACTOR_IDENTITY_MISMATCH |-> "ACTOR_MISMATCH",
     GRAPH_ME_VALIDATION_FAILED |-> "GRAPH_READ_FAILED",
     LIVE_EXECUTION_DISABLED |-> "POLICY_DENIED",
     LIVE_CONFIGURATION_INVALID |-> "POLICY_DENIED",
     UNSUPPORTED_LIVE_ACTION |-> "UNSUPPORTED_OPERATION"]

ErrorCodeMap ==
    [AUTH_TIMEOUT |-> "AUTH_TIMEOUT",
     AUTH_DEVICE_CODE_ERROR |-> "AUTH_FAILED",
     AUTH_DECLINED |-> "AUTH_FAILED",
     AUTH_TOKEN_ERROR |-> "AUTH_FAILED",
     ACTOR_IDENTITY_MISMATCH |-> "ACTOR_MISMATCH",
     GRAPH_ME_VALIDATION_FAILED |-> "GRAPH_READ_FAILED",
     LIVE_EXECUTION_DISABLED |-> "POLICY_DENIED",
     LIVE_CONFIGURATION_INVALID |-> "POLICY_DENIED",
     UNSUPPORTED_LIVE_ACTION |-> "UNSUPPORTED_OPERATION"]

(* A code without a mapping gives no record. *)
ToRecord ==
    /\ phase = "done"
    /\ phase' = "recorded"
    /\ record' =
          IF result.code = "none" THEN result
          ELSE IF result.code \in DOMAIN ErrorCodeMap
          THEN [result EXCEPT !.code = ErrorCodeMap[@]]
          ELSE record
    /\ UNCHANGED <<setting, clock, since, page, held, steps, polledAt, me,
                   result>>

-----------------------------------------------------------------------------
(* The environment. *)

Awaiting == {"requesting", "polling", "verifying"}
FlowPhases == Awaiting \cup {"prompting", "confirming", "ready", "sleeping"}

(* Time passes in a call for at most Latency, in a sleep for the interval, *)
(* and while the operator is asked.                                        *)
Tick ==
    /\ \/ phase \in Awaiting /\ clock < since + Latency
       \/ phase = "sleeping" /\ clock < since + code.interval
       \/ phase \in {"prompting", "confirming"} /\ clock < MaxThink
    /\ clock' = clock + 1
    /\ UNCHANGED <<setting, phase, since, page, held, steps, polledAt, outcome>>

(* Whoever holds the user code may sign in until the code expires. *)
SignIn(identity) ==
    /\ phase \in FlowPhases \ {"requesting", "verifying"}
    /\ signin = "waiting"
    /\ clock <= code.expires
    /\ signin' = "signed_in"
    /\ subject' = identity
    /\ UNCHANGED <<setting, phase, clock, since, code, held, steps, polledAt,
                   outcome>>

Decline ==
    /\ phase \in FlowPhases \ {"requesting", "verifying"}
    /\ signin = "waiting"
    /\ clock <= code.expires
    /\ signin' = "declined"
    /\ UNCHANGED <<setting, phase, clock, since, code, subject, held, steps,
                   polledAt, outcome>>

-----------------------------------------------------------------------------
Requests ==
    \E id \in DOMAIN registry \cup {NoId}, actor \in Actors \cup {NoActor},
       metadata \in {"plain", "token_shaped", "transport_override"} :
        Plan(id, actor, metadata) \/ RefuseRequest(id, actor, metadata)

(* The network answers, one way or the other. *)
Answer ==
    \/ \E lifetime \in Lifetimes, interval \in Intervals :
          ReceiveDeviceCode(lifetime, interval)
    \/ DeviceCodeFails
    \/ Pending \/ ReceiveToken \/ PollDeclined \/ PollExpired \/ PollFails
    \/ VerifyActor \/ VerificationFails

(* Steps the program takes by itself. *)
Proceed == BeginPoll \/ TimeOut \/ Wake

Next ==
    \/ ReadEntry \/ LoadCatalog \/ RefuseCatalog
    \/ Requests
    \/ \E actor \in Actors \cup {NoActor} : RefuseActor(actor)
    \/ ExecuteDryRun \/ RefuseLive \/ RequestDeviceCode
    \/ Prompt \/ PromptRaises \/ Confirm \/ ConfirmationFails
    \/ Answer
    \/ Proceed
    \/ ToRecord
    \/ Tick
    \/ \E identity \in Identities : SignIn(identity)
    \/ Decline

(* The transports time out, so every call is answered; the operator need   *)
(* not answer.                                                             *)
Fairness == WF_vars(Answer) /\ WF_vars(Proceed) /\ WF_vars(Tick)

Spec == Init /\ [][Next]_vars /\ Fairness

-----------------------------------------------------------------------------
(* A live success means that a scenario the catalog enables was confirmed  *)
(* by the operator where one is asked, that no poll began after the        *)
(* budget, and that whoever signed in is the expected actor in every field *)
(* that is set (live_executor.py, delegated.py, identity.py).              *)
SuccessIsVerified ==
    record.status = "SUCCESS" /\ config.mode # "dry_run" =>
        /\ registry[planned.scenario].enabled
        /\ registry[planned.scenario].action = "INTERACTIVE_SIGNIN"
        /\ config.confirms => "confirmed" \in steps
        /\ polledAt <= Timeout
        /\ config.expected # [oid |-> Unset, upn |-> Unset]
        /\ \A field \in {"oid", "upn"} :
              config.expected[field] # Unset =>
                 subject[field] = config.expected[field]

(* Polling overruns the configured timeout by no more than one answer and  *)
(* one sleep, and the device code and the token are in memory only while   *)
(* the flow needs them (device_code.py, run and _poll_for_token;           *)
(* delegated.py, authenticate).  Prompting and confirming have no bound,   *)
(* and the lifetime of the code is not the bound of the polling.           *)
FlowIsBounded ==
    /\ phase = "polling" => clock <= Timeout + Latency
    /\ phase = "sleeping" => clock <= Timeout + Latency + code.interval
    /\ phase = "verifying" => clock <= Timeout + 2 * Latency
    /\ held # {} => phase \in FlowPhases
    /\ "token" \in held <=> phase = "verifying"

(* Every result becomes evidence, and its error code says how far the flow *)
(* really got: a denial before any call, a failed sign-in before /me, a    *)
(* timeout only when a time was up, a mismatch only on what /me said       *)
(* (evidence.py, _ERROR_CODE_MAP and to_record).                           *)
EvidenceTellsTruth ==
    phase = "recorded" =>
        /\ record # NoResult
        /\ record.status = "SUCCESS" <=> record.code = "none"
        /\ record.code \in {"POLICY_DENIED", "UNSUPPORTED_OPERATION"} =>
              steps = {} /\ record.status = "BLOCKED"
        /\ record.code \in {"AUTH_FAILED", "AUTH_TIMEOUT"} =>
              "me_requested" \notin steps
        /\ record.code = "AUTH_TIMEOUT" =>
              clock > Timeout \/ clock > code.expires
        /\ record.code = "ACTOR_MISMATCH" =>
              me # NoIdentity /\ ~MatchesExpected(me)
        /\ record.code = "GRAPH_READ_FAILED" =>
              "me_requested" \in steps /\ me = NoIdentity

Added == DOMAIN registry \ DOMAIN BuiltInDefinitions

(* The file of an entry parses as a scenario of this id.                   *)
Describes(i, id) ==
    LET file == catalog.entries[i].file
    IN  IsRecord(file) /\ Parses(file) /\ file.id = id

(* A catalog never changes a built-in scenario.  Every scenario it adds is *)
(* exactly what the first file that describes it says; a file is passed    *)
(* over only when the index lists it under the id of another scenario      *)
(* already added.  And no file that parses is lost: its scenario is there, *)
(* or the one the index lists it under (catalog_loader.py,                 *)
(* load_scenario_catalog and build_catalog_registry).                      *)
RegistryIsFaithful ==
    registry # NoRegistry =>
        /\ \A id \in DOMAIN BuiltInDefinitions :
              id \in DOMAIN registry /\ registry[id] = BuiltInDefinitions[id]
        /\ \A id \in Added :
              \E i \in DOMAIN catalog.entries :
                 /\ Describes(i, id)
                 /\ registry[id] = ParseScenario(catalog.entries[i].file)
                 /\ \A j \in 1..(i - 1) :
                       Describes(j, id) =>
                          catalog.entries[j].id \in Added \ {id}
        /\ \A i \in DOMAIN catalog.entries :
              LET entry == catalog.entries[i]
              IN  IsRecord(entry.file) /\ Parses(entry.file) =>
                     entry.file.id \in Added \/ entry.id \in Added

(* Once it polls, the flow comes to an end, whatever the user does.        *)
EverySignInEnds == phase = "polling" ~> phase = "done"

=============================================================================
