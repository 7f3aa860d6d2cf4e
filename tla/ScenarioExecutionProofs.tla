----------------------- MODULE ScenarioExecutionProofs -----------------------
(***************************************************************************)
(* Proofs about ScenarioExecution for any catalogs, actors, configurations *)
(* and identities, and any budget, lifetimes, intervals and latency: what  *)
(* a success and the evidence mean, how far the flow may overrun, and what *)
(* a catalog can add to the registry.                                      *)
(***************************************************************************)
EXTENDS ScenarioExecution, TLAPS

-----------------------------------------------------------------------------
(* The inductive invariant *)

(* The scenarios added are those of the first files that describe them,    *)
(* among the entries up to last.                                           *)
FirstDescribed(loaded, last) ==
    \A id \in DOMAIN loaded :
        \E i \in 1..last :
            /\ Describes(i, id)
            /\ loaded[id] = ParseScenario(catalog.entries[i].file)
            /\ \A j \in 1..(i - 1) :
                  Describes(j, id) =>
                     catalog.entries[j].id \in DOMAIN loaded \ {id}

NoneLost(loaded, last) ==
    \A i \in 1..last :
        LET entry == catalog.entries[i]
        IN  IsRecord(entry.file) /\ Parses(entry.file) =>
               entry.file.id \in DOMAIN loaded \/ entry.id \in DOMAIN loaded

(* What the loop over the index has made of the entries read so far.       *)
LoadInv ==
    /\ found \in [loaded : {found.loaded}, malformed : Nat, duplicates : Nat]
    /\ catalog \in Catalogs
    /\ read \in Nat /\ read <= Len(catalog.entries)
    /\ FirstDescribed(found.loaded, read)
    /\ NoneLost(found.loaded, read)

Over == {"done", "recorded"}

(* A plan was let through by the gate, and a live flow by the executor.    *)
PlanInv ==
    /\ phase \in FlowPhases \cup Over \cup {"planned"} =>
          registry[planned.scenario].enabled
    /\ phase \in FlowPhases => config.mode = "live" /\ LiveRefusal = "none"

(* A poll begins within the budget; a call takes at most Latency, a sleep  *)
(* at most the interval, and the flow moves on from where they began.      *)
TimeInv ==
    /\ clock \in Nat /\ since \in Nat /\ polledAt \in Nat /\ code.interval \in Nat
    /\ polledAt <= Timeout
    /\ phase = "polling" => since <= Timeout /\ clock <= since + Latency
    /\ phase = "sleeping" =>
          since <= Timeout + Latency /\ clock <= since + code.interval
    /\ phase = "verifying" =>
          since <= Timeout + Latency /\ clock <= since + Latency

HeldInv ==
    held = IF phase = "verifying" THEN {"token"}
           ELSE IF phase \in FlowPhases \ {"requesting"} THEN {"device_code"}
           ELSE {}

(* The steps the flow got to, by phase.                                    *)
StepsInv ==
    /\ phase \in {"loading", "idle", "planned"} => steps = {}
    /\ phase \in FlowPhases => ("me_requested" \in steps <=> phase = "verifying")
    /\ phase \in {"ready", "polling", "sleeping", "verifying"} /\ config.confirms =>
          "confirmed" \in steps

(* /me can only name the identity whose sign-in gave the token.            *)
SignInInv ==
    /\ signin = "signed_in" => subject \in Identities
    /\ phase = "verifying" => signin = "signed_in"
    /\ phase \notin Over => me = NoIdentity

(* What the result says of the flow.                                       *)
ResultTruth ==
    /\ result.status \in {"SUCCESS", "FAILED", "BLOCKED"}
    /\ result.code \in DOMAIN ErrorCodeMap \cup {"none"}
    /\ result.status = "SUCCESS" <=> result.code = "none"
    /\ result.code \in {"LIVE_EXECUTION_DISABLED", "LIVE_CONFIGURATION_INVALID",
                        "UNSUPPORTED_LIVE_ACTION"} =>
          steps = {} /\ result.status = "BLOCKED"
    /\ result.code \in {"AUTH_TIMEOUT", "AUTH_DEVICE_CODE_ERROR",
                        "AUTH_DECLINED", "AUTH_TOKEN_ERROR"} =>
          "me_requested" \notin steps
    /\ result.code = "AUTH_TIMEOUT" => clock > Timeout \/ clock > code.expires
    /\ result.code = "ACTOR_IDENTITY_MISMATCH" =>
          me # NoIdentity /\ ~MatchesExpected(me)
    /\ result.code = "GRAPH_ME_VALIDATION_FAILED" =>
          "me_requested" \in steps /\ me = NoIdentity

(* What a live success stands for.                                         *)
SuccessTruth ==
    result.status = "SUCCESS" /\ config.mode # "dry_run" =>
        /\ LiveRefusal = "none"
        /\ config.confirms => "confirmed" \in steps
        /\ MatchesExpected(subject)

ResultInv ==
    phase \in Over => result = [status |-> result.status, code |-> result.code]
                      /\ ResultTruth /\ SuccessTruth

RecordInv ==
    record = IF phase # "recorded" THEN NoResult
             ELSE [status |-> result.status,
                   code |-> IF result.code = "none" THEN "none"
                            ELSE ErrorCodeMap[result.code]]

Inv ==
    /\ LoadInv /\ RegistryIsFaithful
    /\ PlanInv /\ TimeInv /\ HeldInv /\ StepsInv /\ SignInInv
    /\ ResultInv /\ RecordInv

-----------------------------------------------------------------------------
LEMMA InitInv == Init => Inv
<1> SUFFICES ASSUME Init PROVE Inv
  OBVIOUS
<1> USE DEF Init
<1>1. LoadInv
  <2>1. Len(catalog.entries) \in Nat
    BY CatalogAssumption
  <2> QED BY <2>1 DEF LoadInv, NothingLoaded, FirstDescribed, NoneLost
<1>2. RegistryIsFaithful
  BY DEF RegistryIsFaithful
<1>3. PlanInv
  BY DEF PlanInv, FlowPhases, Awaiting, Over
<1>4. TimeInv
  BY TimeAssumption DEF TimeInv, NoCode
<1>5. HeldInv /\ StepsInv /\ SignInInv
  BY DEF HeldInv, StepsInv, SignInInv, FlowPhases, Awaiting
<1>6. ResultInv /\ RecordInv
  BY DEF ResultInv, RecordInv, Over
<1> QED BY <1>1, <1>2, <1>3, <1>4, <1>5, <1>6 DEF Inv

-----------------------------------------------------------------------------
(* The catalog *)

(* An entry adds at most the scenario of its file.                         *)
LEMMA LoadedEntry ==
    ASSUME NEW sofar, NEW entry,
           sofar \in [loaded : {sofar.loaded}, malformed : Nat, duplicates : Nat]
    PROVE  LET after == LoadEntry(sofar, entry)
           IN  /\ after \in [loaded : {after.loaded}, malformed : Nat, duplicates : Nat]
               /\ \A id \in DOMAIN after.loaded :
                     \/ id \in DOMAIN sofar.loaded /\ after.loaded[id] = sofar.loaded[id]
                     \/ /\ IsRecord(entry.file) /\ Parses(entry.file)
                        /\ id = entry.file.id
                        /\ after.loaded[id] = ParseScenario(entry.file)
<1> DEFINE after == LoadEntry(sofar, entry)
           added == [id \in DOMAIN sofar.loaded \cup {entry.file.id} |->
                       IF id = entry.file.id THEN ParseScenario(entry.file)
                       ELSE sofar.loaded[id]]
<1>1. \/ after = Duplicate(sofar)
      \/ after = Malformed(sofar)
      \/ /\ IsRecord(entry.file) /\ Parses(entry.file)
         /\ after = [sofar EXCEPT !.loaded = added]
  BY DEF LoadEntry, LoadRecord
<1>2. CASE after = Duplicate(sofar)
  BY <1>2 DEF Duplicate
<1>3. CASE after = Malformed(sofar)
  BY <1>3 DEF Malformed
<1>4. CASE /\ IsRecord(entry.file) /\ Parses(entry.file)
           /\ after = [sofar EXCEPT !.loaded = added]
  <2>1. after \in [loaded : {added}, malformed : Nat, duplicates : Nat]
        /\ after.loaded = added
    BY <1>4
  <2> QED BY <1>4, <2>1
<1> QED BY <1>1, <1>2, <1>3, <1>4

(* And if its file parses, its scenario or the one it is listed under is   *)
(* there afterwards.                                                       *)
LEMMA EntryNotLost ==
    ASSUME NEW sofar, NEW entry,
           sofar \in [loaded : {sofar.loaded}, malformed : Nat, duplicates : Nat],
           IsRecord(entry.file), Parses(entry.file)
    PROVE  LET after == LoadEntry(sofar, entry).loaded
           IN  entry.file.id \in DOMAIN after \/ entry.id \in DOMAIN after
<1> DEFINE added == [id \in DOMAIN sofar.loaded \cup {entry.file.id} |->
                       IF id = entry.file.id THEN ParseScenario(entry.file)
                       ELSE sofar.loaded[id]]
<1>1. CASE entry.id \in DOMAIN sofar.loaded \/ entry.file.id \in DOMAIN sofar.loaded
  <2>1. LoadEntry(sofar, entry) = Duplicate(sofar)
    BY <1>1 DEF LoadEntry, LoadRecord
  <2>2. Duplicate(sofar).loaded = sofar.loaded
    BY DEF Duplicate
  <2> QED BY <1>1, <2>1, <2>2
<1>2. CASE ~(entry.id \in DOMAIN sofar.loaded \/ entry.file.id \in DOMAIN sofar.loaded)
  <2>1. LoadEntry(sofar, entry) = [sofar EXCEPT !.loaded = added]
    BY <1>2 DEF LoadEntry, LoadRecord
  <2>2. [sofar EXCEPT !.loaded = added].loaded = added
    OBVIOUS
  <2> QED BY <2>1, <2>2
<1> QED BY <1>1, <1>2

(* Nothing that was loaded goes away.                                      *)
LEMMA LoadedStays ==
    ASSUME NEW sofar, NEW entry,
           sofar \in [loaded : {sofar.loaded}, malformed : Nat, duplicates : Nat]
    PROVE  LET after == LoadEntry(sofar, entry).loaded
           IN  /\ DOMAIN sofar.loaded \subseteq DOMAIN after
               /\ \A id \in DOMAIN sofar.loaded : after[id] = sofar.loaded[id]
<1> DEFINE added == [id \in DOMAIN sofar.loaded \cup {entry.file.id} |->
                       IF id = entry.file.id THEN ParseScenario(entry.file)
                       ELSE sofar.loaded[id]]
<1>1. \/ LoadEntry(sofar, entry) = Duplicate(sofar)
      \/ LoadEntry(sofar, entry) = Malformed(sofar)
      \/ /\ entry.file.id \notin DOMAIN sofar.loaded
         /\ LoadEntry(sofar, entry) = [sofar EXCEPT !.loaded = added]
  BY DEF LoadEntry, LoadRecord
<1>2. /\ Duplicate(sofar).loaded = sofar.loaded
      /\ Malformed(sofar).loaded = sofar.loaded
      /\ [sofar EXCEPT !.loaded = added].loaded = added
  BY DEF Duplicate, Malformed
<1> QED BY <1>1, <1>2

LEMMA CatalogKept ==
    ASSUME Inv, UNCHANGED <<catalog, read, found, registry>>
    PROVE  LoadInv' /\ RegistryIsFaithful'
BY DEF Inv, LoadInv, FirstDescribed, NoneLost, RegistryIsFaithful, Describes,
       Added

(* While the catalog is read nothing else has happened.                    *)
LEMMA BeforeThePlan ==
    ASSUME Inv, phase \in {"loading", "idle"}, phase' \in {"loading", "idle", "refused"},
           UNCHANGED <<config, planned, clock, since, page, held, steps, polledAt, outcome>>
    PROVE  PlanInv' /\ TimeInv' /\ HeldInv' /\ StepsInv' /\ SignInInv'
           /\ ResultInv' /\ RecordInv'
<1> USE DEF Inv, page, outcome, FlowPhases, Awaiting, Over
<1>1. PlanInv'
  BY DEF PlanInv
<1>2. TimeInv'
  BY DEF TimeInv
<1>3. HeldInv' /\ StepsInv' /\ SignInInv'
  BY DEF HeldInv, StepsInv, SignInInv
<1>4. ResultInv' /\ RecordInv'
  BY DEF ResultInv, RecordInv
<1> QED BY <1>1, <1>2, <1>3, <1>4

LEMMA ReadEntryInv == ASSUME Inv, ReadEntry PROVE Inv'
<1>1. LoadInv'
  <2> DEFINE entry == catalog.entries[read + 1]
             old == found.loaded
             new == found'.loaded
  <2>1. /\ found' = LoadEntry(found, entry) /\ catalog' = catalog
        /\ read' = read + 1
        /\ read + 1 \in DOMAIN catalog.entries
    BY DEF ReadEntry, AllRead
  <2>2. /\ found \in [loaded : {found.loaded}, malformed : Nat, duplicates : Nat]
        /\ read \in Nat /\ catalog \in Catalogs
        /\ FirstDescribed(old, read) /\ NoneLost(old, read)
    BY DEF Inv, LoadInv
  <2>3. found' \in [loaded : {found'.loaded}, malformed : Nat, duplicates : Nat]
    BY <2>1, <2>2, LoadedEntry
  <2>4. DOMAIN old \subseteq DOMAIN new
        /\ \A id \in DOMAIN old : new[id] = old[id]
    BY <2>1, <2>2, LoadedStays
  <2>5. catalog' \in Catalogs /\ read' \in Nat /\ read' <= Len(catalog'.entries)
    BY <2>1, <2>2, CatalogAssumption
  <2> HIDE DEF old, new, entry
  <2>6. FirstDescribed(new, read + 1)
    <3> SUFFICES ASSUME NEW id \in DOMAIN new
                 PROVE  \E i \in 1..(read + 1) :
                          /\ Describes(i, id)
                          /\ new[id] = ParseScenario(catalog.entries[i].file)
                          /\ \A j \in 1..(i - 1) :
                                Describes(j, id) =>
                                   catalog.entries[j].id \in DOMAIN new \ {id}
      BY DEF FirstDescribed
    <3>1. CASE id \in DOMAIN old
      <4>1. PICK i \in 1..read :
                    /\ Describes(i, id)
                    /\ old[id] = ParseScenario(catalog.entries[i].file)
                    /\ \A j \in 1..(i - 1) :
                          Describes(j, id) =>
                             catalog.entries[j].id \in DOMAIN old \ {id}
        BY <2>2, <3>1 DEF FirstDescribed
      <4>2. i \in 1..(read + 1)
        BY <2>2
      <4> QED BY <2>4, <3>1, <4>1, <4>2
    <3>2. CASE id \notin DOMAIN old
      <4>1. /\ IsRecord(entry.file) /\ Parses(entry.file) /\ id = entry.file.id
            /\ new[id] = ParseScenario(entry.file)
        BY <2>1, <2>2, <3>2, LoadedEntry DEF old, new
      <4>2. Describes(read + 1, id)
        BY <4>1 DEF Describes, entry
      <4>3. ASSUME NEW j \in 1..read, Describes(j, id)
            PROVE  catalog.entries[j].id \in DOMAIN new \ {id}
        <5>1. catalog.entries[j].id \in DOMAIN old
          BY <2>2, <3>2, <4>3 DEF NoneLost, Describes
        <5> QED BY <2>4, <3>2, <5>1
      <4>4. read + 1 \in 1..(read + 1) /\ (read + 1) - 1 = read
        BY <2>2
      <4> QED BY <4>1, <4>2, <4>3, <4>4 DEF entry
    <3> QED BY <3>1, <3>2
  <2>7. NoneLost(new, read + 1)
    <3> SUFFICES ASSUME NEW i \in 1..(read + 1),
                        IsRecord(catalog.entries[i].file),
                        Parses(catalog.entries[i].file)
                 PROVE  \/ catalog.entries[i].file.id \in DOMAIN new
                        \/ catalog.entries[i].id \in DOMAIN new
      BY DEF NoneLost
    <3>1. CASE i \in 1..read
      BY <2>2, <2>4, <3>1 DEF NoneLost
    <3>2. CASE i = read + 1
      BY <2>1, <2>2, <3>2, EntryNotLost DEF new, entry
    <3> QED BY <2>2, <3>1, <3>2
  <2>8. FirstDescribed(found.loaded, read)' /\ NoneLost(found.loaded, read)'
    BY <2>1, <2>6, <2>7 DEF FirstDescribed, NoneLost, Describes, new
  <2> QED BY <2>3, <2>5, <2>8 DEF LoadInv
<1>2. RegistryIsFaithful'
  BY DEF ReadEntry, Inv, RegistryIsFaithful, Describes, Added
<1>3. PlanInv' /\ TimeInv' /\ HeldInv' /\ StepsInv' /\ SignInInv'
      /\ ResultInv' /\ RecordInv'
  BY BeforeThePlan DEF ReadEntry
<1> QED BY <1>1, <1>2, <1>3 DEF Inv

LEMMA LoadCatalogInv == ASSUME Inv, LoadCatalog PROVE Inv'
<1>1. UNCHANGED <<catalog, read, found>>
  BY DEF LoadCatalog, index
<1>2. LoadInv'
  BY <1>1 DEF Inv, LoadInv, FirstDescribed, NoneLost, Describes
<1>3. RegistryIsFaithful'
  <2>1. /\ registry' = [id \in DOMAIN BuiltInDefinitions \cup DOMAIN found.loaded |->
                          IF id \in DOMAIN found.loaded THEN found.loaded[id]
                          ELSE BuiltInDefinitions[id]]
        /\ DOMAIN found.loaded \cap DOMAIN BuiltInDefinitions = {}
    BY DEF LoadCatalog, LoadScenarioCatalog, BuildCatalogRegistry
  <2>2. DOMAIN catalog.entries = 1..read
    <3>1. /\ DOMAIN catalog.entries = 1..Len(catalog.entries)
          /\ Len(catalog.entries) \in Nat
          /\ read \in Nat /\ read <= Len(catalog.entries)
      BY CatalogAssumption DEF Inv, LoadInv
    <3>2. read + 1 \notin DOMAIN catalog.entries
      BY DEF LoadCatalog, AllRead
    <3> QED BY <3>1, <3>2
  <2>3. Added' = DOMAIN found.loaded
    BY <2>1 DEF Added
  <2>4. \A id \in DOMAIN BuiltInDefinitions :
           id \in DOMAIN registry' /\ registry'[id] = BuiltInDefinitions[id]
    BY <2>1
  <2>5. \A id \in Added' : registry'[id] = found.loaded[id]
    BY <2>1, <2>3
  <2>6. FirstDescribed(found.loaded, read) /\ NoneLost(found.loaded, read)
    BY DEF Inv, LoadInv
  <2>7. ASSUME NEW id \in Added'
        PROVE  \E i \in DOMAIN catalog.entries :
                 /\ Describes(i, id)
                 /\ registry'[id] = ParseScenario(catalog.entries[i].file)
                 /\ \A j \in 1..(i - 1) :
                       Describes(j, id) => catalog.entries[j].id \in Added' \ {id}
    BY <2>2, <2>3, <2>5, <2>6, <2>7 DEF FirstDescribed
  <2>8. ASSUME NEW i \in DOMAIN catalog.entries,
               IsRecord(catalog.entries[i].file), Parses(catalog.entries[i].file)
        PROVE  \/ catalog.entries[i].file.id \in Added'
               \/ catalog.entries[i].id \in Added'
    BY <2>2, <2>3, <2>6, <2>8 DEF NoneLost
  <2> QED BY <1>1, <2>4, <2>7, <2>8 DEF RegistryIsFaithful, Describes
<1>4. PlanInv' /\ TimeInv' /\ HeldInv' /\ StepsInv' /\ SignInInv'
      /\ ResultInv' /\ RecordInv'
  BY BeforeThePlan DEF LoadCatalog
<1> QED BY <1>2, <1>3, <1>4 DEF Inv

(* A refusal keeps what no longer matters.                                 *)
LEMMA RefusedInv ==
    ASSUME Inv, phase \in {"loading", "idle", "planned"}, phase' = "refused",
           UNCHANGED <<setting, clock, since, page, held, steps, polledAt, outcome>>
    PROVE  Inv'
<1> USE DEF Inv, setting, index, page, outcome, FlowPhases, Awaiting, Over
<1>1. LoadInv' /\ RegistryIsFaithful'
  BY CatalogKept
<1>2. PlanInv' /\ TimeInv'
  BY DEF PlanInv, TimeInv
<1>3. HeldInv' /\ StepsInv' /\ SignInInv'
  BY DEF HeldInv, StepsInv, SignInInv
<1>4. ResultInv' /\ RecordInv'
  BY DEF ResultInv, RecordInv
<1> QED BY <1>1, <1>2, <1>3, <1>4

LEMMA PlanStepInv ==
    ASSUME Inv, NEW id, NEW actor, NEW metadata, Plan(id, actor, metadata)
    PROVE  Inv'
<1> USE DEF Inv, index, page, outcome, FlowPhases, Awaiting, Over
<1>1. /\ phase = "idle" /\ phase' = "planned"
      /\ planned' = [scenario |-> id, actor |-> actor]
      /\ registry[id].enabled
      /\ UNCHANGED <<catalog, index, registry, config, clock, since, page, held,
                     steps, polledAt, outcome>>
  BY DEF Plan, PassesSafety
<1>2. LoadInv' /\ RegistryIsFaithful'
  BY <1>1, CatalogKept
<1>3. PlanInv' /\ TimeInv'
  BY <1>1 DEF PlanInv, TimeInv
<1>4. HeldInv' /\ StepsInv' /\ SignInInv'
  BY <1>1 DEF HeldInv, StepsInv, SignInInv
<1>5. ResultInv' /\ RecordInv'
  BY <1>1 DEF ResultInv, RecordInv
<1> QED BY <1>2, <1>3, <1>4, <1>5

-----------------------------------------------------------------------------
(* The end of the flow *)

LEMMA StatusOfOneStep ==
    ASSUME NEW status \in {"SUCCESS", "FAILED", "BLOCKED"}
    PROVE  FinalStatus(<<status>>) = status
<1>1. ToSet(<<status>>) = {status}
  BY DEF ToSet
<1> QED BY <1>1 DEF FinalStatus

(* Whatever ends the flow, the secrets go; only the result has to be true. *)
LEMMA FinishInv ==
    ASSUME Inv, NEW status, NEW error, Finish(status, error),
           phase \in FlowPhases \cup {"planned"}, steps' = steps,
           ResultTruth', SuccessTruth'
    PROVE  Inv'
<1> USE DEF Inv, setting, index, page, FlowPhases, Awaiting, Over
<1>1. /\ phase' = "done" /\ held' = {}
      /\ result' = [status |-> FinalStatus(<<status>>), code |-> error]
      /\ UNCHANGED <<setting, clock, since, page, polledAt, record>>
  BY DEF Finish
<1>2. LoadInv' /\ RegistryIsFaithful'
  BY <1>1, CatalogKept
<1>3. PlanInv'
  BY <1>1 DEF PlanInv
<1>4. TimeInv'
  BY <1>1 DEF TimeInv
<1>5. HeldInv' /\ StepsInv' /\ SignInInv'
  BY <1>1 DEF HeldInv, StepsInv, SignInInv
<1>6. ResultInv' /\ RecordInv'
  BY <1>1 DEF ResultInv, RecordInv
<1> QED BY <1>2, <1>3, <1>4, <1>5, <1>6

(* A failure of the flow: where it happens decides which code is true.     *)
LEMMA FailInv ==
    ASSUME Inv, NEW error, Fail(error), phase \in FlowPhases,
           \/ /\ error \in {"AUTH_DEVICE_CODE_ERROR", "AUTH_DECLINED", "AUTH_TOKEN_ERROR"}
              /\ phase # "verifying"
           \/ /\ error = "AUTH_TIMEOUT" /\ phase # "verifying"
              /\ clock > Timeout \/ clock > code.expires
           \/ error = "GRAPH_ME_VALIDATION_FAILED" /\ phase = "verifying"
    PROVE  Inv'
<1>1. /\ Finish("FAILED", error) /\ UNCHANGED <<steps, me, clock, code, config>>
      /\ result' = [status |-> "FAILED", code |-> error]
  BY StatusOfOneStep DEF Fail, Finish, setting, page
<1>2. "me_requested" \in steps <=> phase = "verifying"
  BY DEF Inv, StepsInv
<1>3. me = NoIdentity
  BY DEF Inv, SignInInv, Over, FlowPhases, Awaiting
<1>4. ResultTruth'
  BY <1>1, <1>2, <1>3 DEF ResultTruth, ErrorCodeMap
<1>5. SuccessTruth'
  BY <1>1 DEF SuccessTruth
<1> QED BY <1>1, <1>4, <1>5, FinishInv

LEMMA ExecuteDryRunInv == ASSUME Inv, ExecuteDryRun PROVE Inv'
<1>1. /\ Finish("SUCCESS", "none") /\ UNCHANGED <<steps, me, config>>
      /\ phase = "planned" /\ config.mode = "dry_run"
      /\ result' = [status |-> "SUCCESS", code |-> "none"]
  BY StatusOfOneStep DEF ExecuteDryRun, Finish, setting
<1>2. ResultTruth'
  BY <1>1 DEF ResultTruth
<1>3. SuccessTruth'
  BY <1>1 DEF SuccessTruth
<1> QED BY <1>1, <1>2, <1>3, FinishInv

LEMMA RefuseLiveInv == ASSUME Inv, RefuseLive PROVE Inv'
<1>1. /\ Finish("BLOCKED", LiveRefusal) /\ UNCHANGED <<steps, me>>
      /\ phase = "planned"
      /\ result' = [status |-> "BLOCKED", code |-> LiveRefusal]
  BY StatusOfOneStep DEF RefuseLive, Finish
<1>2. LiveRefusal \in {"LIVE_EXECUTION_DISABLED", "LIVE_CONFIGURATION_INVALID",
                       "UNSUPPORTED_LIVE_ACTION"}
  BY DEF RefuseLive, LiveRefusal
<1>3. steps = {}
  BY <1>1 DEF Inv, StepsInv
<1>4. ResultTruth'
  BY <1>1, <1>2, <1>3 DEF ResultTruth, ErrorCodeMap
<1>5. SuccessTruth'
  BY <1>1 DEF SuccessTruth
<1> QED BY <1>1, <1>4, <1>5, FinishInv

LEMMA VerifyActorInv == ASSUME Inv, VerifyActor PROVE Inv'
<1>1. /\ phase = "verifying" /\ me' = subject
      /\ UNCHANGED <<steps, config, registry, planned, subject>>
  BY DEF VerifyActor, Finish, setting, page
<1>2. subject \in Identities /\ subject # NoIdentity
  BY <1>1, IdentityAssumption DEF Inv, SignInInv
<1>3. LiveRefusal' = "none" /\ (config.confirms => "confirmed" \in steps)
  BY <1>1 DEF Inv, PlanInv, StepsInv, FlowPhases, Awaiting, LiveRefusal
<1>4. MatchesExpected(subject)' <=> MatchesExpected(subject)
  BY <1>1 DEF MatchesExpected
<1>5. CASE MatchesExpected(subject)
  <2>1. Finish("SUCCESS", "none") /\ result' = [status |-> "SUCCESS", code |-> "none"]
    BY <1>5, StatusOfOneStep DEF VerifyActor, Finish
  <2>2. ResultTruth'
    BY <2>1 DEF ResultTruth
  <2>3. SuccessTruth'
    BY <1>1, <1>3, <1>4, <1>5 DEF SuccessTruth
  <2> QED BY <1>1, <2>1, <2>2, <2>3, FinishInv DEF FlowPhases, Awaiting
<1>6. CASE ~MatchesExpected(subject)
  <2>1. /\ Finish("FAILED", "ACTOR_IDENTITY_MISMATCH")
        /\ result' = [status |-> "FAILED", code |-> "ACTOR_IDENTITY_MISMATCH"]
    BY <1>6, StatusOfOneStep DEF VerifyActor, Finish
  <2>2. ~MatchesExpected(me)'
    BY <1>1, <1>6 DEF MatchesExpected
  <2>3. ResultTruth'
    BY <1>1, <1>2, <2>1, <2>2 DEF ResultTruth, ErrorCodeMap
  <2>4. SuccessTruth'
    BY <2>1 DEF SuccessTruth
  <2> QED BY <1>1, <2>1, <2>3, <2>4, FinishInv DEF FlowPhases, Awaiting
<1> QED BY <1>5, <1>6

LEMMA ToRecordInv == ASSUME Inv, ToRecord PROVE Inv'
<1> USE DEF Inv, index, setting, page, FlowPhases, Awaiting, Over
<1>1. /\ phase = "done" /\ phase' = "recorded"
      /\ UNCHANGED <<setting, clock, since, page, held, steps, polledAt, me, result>>
  BY DEF ToRecord
<1>2. LoadInv' /\ RegistryIsFaithful'
  BY <1>1, CatalogKept
<1>3. PlanInv' /\ TimeInv'
  BY <1>1 DEF PlanInv, TimeInv
<1>4. HeldInv' /\ StepsInv' /\ SignInInv'
  BY <1>1 DEF HeldInv, StepsInv, SignInInv
<1>5. ResultInv'
  <2>1. ResultTruth' /\ SuccessTruth'
    BY <1>1 DEF ResultInv, ResultTruth, SuccessTruth, MatchesExpected, LiveRefusal
  <2> QED BY <1>1, <2>1 DEF ResultInv
<1>6. RecordInv'
  <2>1. /\ result = [status |-> result.status, code |-> result.code]
        /\ result.code \in DOMAIN ErrorCodeMap \cup {"none"}
    BY <1>1 DEF ResultInv, ResultTruth
  <2>2. CASE result.code = "none"
    BY <1>1, <2>1, <2>2 DEF ToRecord, RecordInv
  <2>3. CASE result.code # "none"
    <3>1. record' = [result EXCEPT !.code = ErrorCodeMap[result.code]]
      BY <2>1, <2>3 DEF ToRecord
    <3>2. record' = [status |-> result.status, code |-> ErrorCodeMap[result.code]]
      BY <2>1, <3>1
    <3> QED BY <1>1, <2>3, <3>2 DEF RecordInv
  <2> QED BY <2>2, <2>3
<1> QED BY <1>2, <1>3, <1>4, <1>5, <1>6

-----------------------------------------------------------------------------
(* The flow itself *)

(* Inside the flow the plan, the result and the record stay as they are.   *)
LEMMA WithinFlow ==
    ASSUME Inv, phase \in FlowPhases, phase' \in FlowPhases,
           UNCHANGED <<setting, outcome>>,
           TimeInv', HeldInv', StepsInv', subject' = subject \/ subject' \in Identities,
           signin' = "signed_in" => signin = "signed_in" \/ subject' \in Identities,
           phase' = "verifying" => signin' = "signed_in"
    PROVE  Inv'
<1> USE DEF setting, index, outcome
<1>1. LoadInv' /\ RegistryIsFaithful'
  BY CatalogKept
<1>2. PlanInv'
  BY DEF Inv, PlanInv, LiveRefusal
<1>3. SignInInv'
  BY DEF Inv, SignInInv, FlowPhases, Awaiting, Over
<1>4. ResultInv' /\ RecordInv'
  BY DEF Inv, ResultInv, RecordInv, FlowPhases, Awaiting, Over
<1> QED BY <1>1, <1>2, <1>3, <1>4 DEF Inv

LEMMA RequestDeviceCodeInv == ASSUME Inv, RequestDeviceCode PROVE Inv'
<1> USE DEF Inv, setting, index, page, outcome, FlowPhases, Awaiting, Over
<1>1. /\ phase = "planned" /\ phase' = "requesting"
      /\ config.mode = "live" /\ LiveRefusal = "none"
      /\ since' = clock /\ steps' = {"code_requested"}
      /\ UNCHANGED <<setting, clock, page, held, polledAt, outcome>>
  BY DEF RequestDeviceCode
<1>2. LoadInv' /\ RegistryIsFaithful'
  BY <1>1, CatalogKept
<1>3. PlanInv'
  BY <1>1 DEF PlanInv, LiveRefusal
<1>4. TimeInv'
  BY <1>1 DEF TimeInv
<1>5. HeldInv' /\ StepsInv' /\ SignInInv'
  BY <1>1 DEF HeldInv, StepsInv, SignInInv
<1>6. ResultInv' /\ RecordInv'
  BY <1>1 DEF ResultInv, RecordInv
<1> QED BY <1>2, <1>3, <1>4, <1>5, <1>6

LEMMA ReceiveDeviceCodeInv ==
    ASSUME Inv, NEW lifetime \in Lifetimes, NEW interval \in Intervals,
           ReceiveDeviceCode(lifetime, interval)
    PROVE  Inv'
<1> USE DEF FlowPhases, Awaiting
<1>1. /\ phase = "requesting" /\ phase' = "prompting" /\ held' = {"device_code"}
      /\ code'.interval = interval
      /\ UNCHANGED <<setting, clock, since, signin, subject, steps, polledAt, outcome>>
  BY DEF ReceiveDeviceCode
<1>2. TimeInv'
  BY <1>1, TimeAssumption DEF Inv, TimeInv
<1>3. HeldInv' /\ StepsInv'
  BY <1>1 DEF Inv, HeldInv, StepsInv, setting
<1> QED BY <1>1, <1>2, <1>3, WithinFlow

LEMMA PromptInv == ASSUME Inv, Prompt PROVE Inv'
<1> USE DEF FlowPhases, Awaiting
<1>1. /\ phase = "prompting" /\ phase' \in {"confirming", "ready"}
      /\ phase' = "ready" => ~config.confirms
      /\ UNCHANGED <<setting, clock, since, page, held, steps, polledAt, outcome>>
  BY DEF Prompt
<1>2. TimeInv'
  BY <1>1, TimeAssumption DEF Inv, TimeInv, page
<1>3. HeldInv' /\ StepsInv'
  BY <1>1 DEF Inv, HeldInv, StepsInv, setting
<1> QED BY <1>1, <1>2, <1>3, WithinFlow DEF page, setting

LEMMA ConfirmInv == ASSUME Inv, Confirm PROVE Inv'
<1> USE DEF FlowPhases, Awaiting
<1>1. /\ phase = "confirming" /\ phase' = "ready"
      /\ steps' = steps \cup {"confirmed"}
      /\ UNCHANGED <<setting, clock, since, page, held, polledAt, outcome>>
  BY DEF Confirm
<1>2. TimeInv'
  BY <1>1, TimeAssumption DEF Inv, TimeInv, page
<1>3. HeldInv' /\ StepsInv'
  BY <1>1 DEF Inv, HeldInv, StepsInv, setting
<1> QED BY <1>1, <1>2, <1>3, WithinFlow DEF page, setting

LEMMA BeginPollInv == ASSUME Inv, BeginPoll PROVE Inv'
<1> USE DEF FlowPhases, Awaiting
<1>1. /\ phase = "ready" /\ phase' = "polling" /\ clock <= Timeout
      /\ since' = clock /\ polledAt' = clock /\ steps' = steps \cup {"polled"}
      /\ UNCHANGED <<setting, clock, page, held, outcome>>
  BY DEF BeginPoll
<1>2. TimeInv'
  BY <1>1, TimeAssumption DEF Inv, TimeInv, page
<1>3. HeldInv' /\ StepsInv'
  BY <1>1 DEF Inv, HeldInv, StepsInv, setting
<1> QED BY <1>1, <1>2, <1>3, WithinFlow DEF page, setting

LEMMA PendingInv == ASSUME Inv, Pending PROVE Inv'
<1> USE DEF FlowPhases, Awaiting
<1>1. /\ phase = "polling" /\ phase' = "sleeping" /\ since' = clock
      /\ UNCHANGED <<setting, clock, page, held, steps, polledAt, outcome>>
  BY DEF Pending
<1>2. TimeInv'
  BY <1>1, TimeAssumption DEF Inv, TimeInv, page
<1>3. HeldInv' /\ StepsInv'
  BY <1>1 DEF Inv, HeldInv, StepsInv, setting
<1> QED BY <1>1, <1>2, <1>3, WithinFlow DEF page, setting

LEMMA WakeInv == ASSUME Inv, Wake PROVE Inv'
<1> USE DEF FlowPhases, Awaiting
<1>1. /\ phase = "sleeping" /\ phase' = "ready"
      /\ UNCHANGED <<setting, clock, since, page, held, steps, polledAt, outcome>>
  BY DEF Wake
<1>2. TimeInv'
  BY <1>1, TimeAssumption DEF Inv, TimeInv, page
<1>3. HeldInv' /\ StepsInv'
  BY <1>1 DEF Inv, HeldInv, StepsInv, setting
<1> QED BY <1>1, <1>2, <1>3, WithinFlow DEF page, setting

LEMMA ReceiveTokenInv == ASSUME Inv, ReceiveToken PROVE Inv'
<1> USE DEF FlowPhases, Awaiting
<1>1. /\ phase = "polling" /\ phase' = "verifying" /\ signin = "signed_in"
      /\ held' = {"token"} /\ since' = clock /\ steps' = steps \cup {"me_requested"}
      /\ UNCHANGED <<setting, clock, page, polledAt, outcome>>
  BY DEF ReceiveToken
<1>2. TimeInv'
  BY <1>1, TimeAssumption DEF Inv, TimeInv, page
<1>3. HeldInv' /\ StepsInv'
  BY <1>1 DEF Inv, HeldInv, StepsInv, setting
<1> QED BY <1>1, <1>2, <1>3, WithinFlow DEF page, setting

LEMMA TickInv == ASSUME Inv, Tick PROVE Inv'
<1> USE DEF FlowPhases, Awaiting
<1>1. /\ \/ phase \in Awaiting /\ clock < since + Latency
         \/ phase = "sleeping" /\ clock < since + code.interval
         \/ phase \in {"prompting", "confirming"}
      /\ clock' = clock + 1
      /\ UNCHANGED <<setting, phase, since, page, held, steps, polledAt, outcome>>
  BY DEF Tick
<1>2. TimeInv'
  BY <1>1, TimeAssumption DEF Inv, TimeInv, page
<1>3. HeldInv' /\ StepsInv'
  BY <1>1 DEF Inv, HeldInv, StepsInv, setting
<1> QED BY <1>1, <1>2, <1>3, WithinFlow DEF Inv, SignInInv, page

(* Somebody with the user code signs in, or declines.                      *)
LEMMA PageInv ==
    ASSUME Inv, Decline \/ \E identity \in Identities : SignIn(identity) PROVE Inv'
<1> USE DEF FlowPhases, Awaiting
<1>1. /\ phase \in FlowPhases \ {"requesting", "verifying"}
      /\ subject' = subject \/ subject' \in Identities
      /\ signin' = "signed_in" => signin = "signed_in" \/ subject' \in Identities
      /\ UNCHANGED <<setting, phase, clock, since, code, held, steps, polledAt, outcome>>
  BY DEF SignIn, Decline
<1>2. TimeInv'
  BY <1>1 DEF Inv, TimeInv
<1>3. HeldInv' /\ StepsInv'
  BY <1>1 DEF Inv, HeldInv, StepsInv, setting
<1> QED BY <1>1, <1>2, <1>3, WithinFlow

LEMMA StutterInv == ASSUME Inv, UNCHANGED vars PROVE Inv'
<1> USE DEF Inv, vars, setting, index, page, outcome
<1>1. LoadInv' /\ RegistryIsFaithful'
  BY CatalogKept
<1>2. PlanInv' /\ TimeInv'
  BY DEF PlanInv, LiveRefusal, TimeInv
<1>3. HeldInv' /\ StepsInv' /\ SignInInv'
  BY DEF HeldInv, StepsInv, SignInInv
<1>4. ResultInv' /\ RecordInv'
  BY DEF ResultInv, ResultTruth, SuccessTruth, LiveRefusal, MatchesExpected, RecordInv
<1> QED BY <1>1, <1>2, <1>3, <1>4

(* The steps that end a flow with a failure.                               *)
Failing == \/ DeviceCodeFails \/ PromptRaises \/ ConfirmationFails \/ TimeOut
           \/ PollDeclined \/ PollExpired \/ PollFails \/ VerificationFails

LEMMA FailingInv == ASSUME Inv, Failing PROVE Inv'
<1> USE DEF FlowPhases, Awaiting
<1>1. CASE DeviceCodeFails
  BY <1>1, FailInv DEF DeviceCodeFails
<1>2. CASE PromptRaises
  BY <1>2, FailInv DEF PromptRaises
<1>3. CASE ConfirmationFails
  BY <1>3, FailInv DEF ConfirmationFails
<1>4. CASE TimeOut
  BY <1>4, FailInv DEF TimeOut
<1>5. CASE PollDeclined
  BY <1>5, FailInv DEF PollDeclined
<1>6. CASE PollExpired
  BY <1>6, FailInv DEF PollExpired
<1>7. CASE PollFails
  BY <1>7, FailInv DEF PollFails
<1>8. CASE VerificationFails
  BY <1>8, FailInv DEF VerificationFails
<1> QED BY <1>1, <1>2, <1>3, <1>4, <1>5, <1>6, <1>7, <1>8 DEF Failing

(* Every reachable state satisfies the invariant the results rest on.      *)
THEOREM Invariance == Spec => []Inv
<1>1. Inv /\ [Next]_vars => Inv'
  <2> SUFFICES ASSUME Inv, [Next]_vars PROVE Inv'
    OBVIOUS
  <2>1. ASSUME RefuseCatalog \/ (\E id, actor, metadata : RefuseRequest(id, actor, metadata))
               \/ (\E actor : RefuseActor(actor))
        PROVE  Inv'
    BY <2>1, RefusedInv DEF RefuseCatalog, RefuseRequest, RefuseActor
  <2>2. ASSUME Requests PROVE Inv'
    BY <2>1, <2>2, PlanStepInv DEF Requests
  <2>3. ASSUME NEW lifetime \in Lifetimes, NEW interval \in Intervals,
               ReceiveDeviceCode(lifetime, interval)
        PROVE  Inv'
    BY <2>3, ReceiveDeviceCodeInv
  <2>4. ASSUME Answer PROVE Inv'
    BY <2>3, <2>4, PendingInv, ReceiveTokenInv, VerifyActorInv, FailingInv
       DEF Answer, Failing
  <2>5. ASSUME Proceed PROVE Inv'
    BY <2>5, BeginPollInv, WakeInv, FailingInv DEF Proceed, Failing
  <2>6. ASSUME PromptRaises \/ ConfirmationFails PROVE Inv'
    BY <2>6, FailingInv DEF Failing
  <2>7. ASSUME UNCHANGED vars PROVE Inv'
    BY <2>7, StutterInv
  <2> QED BY <2>1, <2>2, <2>4, <2>5, <2>6, <2>7, ReadEntryInv, LoadCatalogInv,
             ExecuteDryRunInv, RefuseLiveInv, RequestDeviceCodeInv, PromptInv,
             ConfirmInv, ToRecordInv, TickInv, PageInv DEF Next
<1> QED BY InitInv, <1>1, PTL DEF Spec

-----------------------------------------------------------------------------
(* Results *)

(* For any catalog and configuration, a live success of live_executor.py   *)
(* stands for an enabled sign-in scenario, confirmed where asked, polled   *)
(* within the budget, by the expected actor.                               *)
THEOREM VerifiedSuccess == Spec => []SuccessIsVerified
<1>1. Inv => SuccessIsVerified
  <2> SUFFICES ASSUME Inv, record.status = "SUCCESS", config.mode # "dry_run"
               PROVE  SuccessIsVerified
    BY DEF SuccessIsVerified
  <2>1. phase = "recorded" /\ result.status = "SUCCESS"
    BY DEF Inv, RecordInv, NoResult
  <2>2. registry[planned.scenario].enabled /\ polledAt <= Timeout
    BY <2>1 DEF Inv, PlanInv, TimeInv, Over
  <2>3. /\ LiveRefusal = "none" /\ MatchesExpected(subject)
        /\ config.confirms => "confirmed" \in steps
    BY <2>1 DEF Inv, ResultInv, SuccessTruth, Over
  <2>4. /\ registry[planned.scenario].action = "INTERACTIVE_SIGNIN"
        /\ IsUsable(config.expected)
    BY <2>3 DEF LiveRefusal
  <2>5. config.expected # [oid |-> Unset, upn |-> Unset]
    BY <2>4 DEF IsUsable
  <2>6. \A field \in {"oid", "upn"} :
           config.expected[field] # Unset => subject[field] = config.expected[field]
    BY <2>3 DEF MatchesExpected
  <2> QED BY <2>2, <2>3, <2>4, <2>5, <2>6 DEF SuccessIsVerified
<1> QED BY Invariance, <1>1, PTL

(* For any timeout, interval and latency, the polling of DeviceCodeFlow    *)
(* overruns the configured timeout by at most one answer and one sleep,    *)
(* and the device code and the token are held only while the flow needs    *)
(* them; how long it prompts and confirms is not bounded.                  *)
THEOREM BoundedFlow == Spec => []FlowIsBounded
<1>1. Inv => FlowIsBounded
  <2> SUFFICES ASSUME Inv PROVE FlowIsBounded
    OBVIOUS
  <2>1. /\ phase = "polling" => clock <= Timeout + Latency
        /\ phase = "sleeping" => clock <= Timeout + Latency + code.interval
        /\ phase = "verifying" => clock <= Timeout + 2 * Latency
    BY TimeAssumption DEF Inv, TimeInv
  <2>2. (held # {} => phase \in FlowPhases) /\ ("token" \in held <=> phase = "verifying")
    BY DEF Inv, HeldInv, FlowPhases, Awaiting
  <2> QED BY <2>1, <2>2 DEF FlowIsBounded
<1> QED BY Invariance, <1>1, PTL

(* However the flow ends, to_record makes evidence of it, and the error    *)
(* code of the evidence says how far the flow really got.                  *)
THEOREM TrueEvidence == Spec => []EvidenceTellsTruth
<1>1. Inv => EvidenceTellsTruth
  <2> SUFFICES ASSUME Inv, phase = "recorded" PROVE EvidenceTellsTruth
    BY DEF EvidenceTellsTruth
  <2>1. /\ record.status = result.status
        /\ record.code = IF result.code = "none" THEN "none" ELSE ErrorCodeMap[result.code]
    BY DEF Inv, RecordInv
  <2>2. ResultTruth
    BY DEF Inv, ResultInv, Over
  <2>3. record # NoResult
    BY <2>1, <2>2 DEF ResultTruth, NoResult
  <2> QED BY <2>1, <2>2, <2>3 DEF EvidenceTellsTruth, ResultTruth, ErrorCodeMap
<1> QED BY Invariance, <1>1, PTL

(* Whatever is on disk, build_catalog_registry leaves the built-in         *)
(* scenarios alone; each scenario it adds is what a file that describes it *)
(* says, the first one but for those listed under the id of another added  *)
(* scenario; and of a file that parses, its scenario or the one it is      *)
(* listed under has been added.                                            *)
THEOREM FaithfulRegistry == Spec => []RegistryIsFaithful
<1>1. Inv => RegistryIsFaithful
  BY DEF Inv
<1> QED BY Invariance, <1>1, PTL

=============================================================================
