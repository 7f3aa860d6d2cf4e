--------------------------- MODULE ScenarioCatalog ---------------------------
(***************************************************************************)
(* The scenario catalog: what load_scenario_catalog makes of catalog.json  *)
(* and the files it names, and the registry build_catalog_registry makes   *)
(* of the result.  A record is reduced to the fields that decide anything, *)
(* and a field that fails its check to the record being defective.         *)
(***************************************************************************)
EXTENDS Naturals, FiniteSets, Sequences

CatalogActionToFramework ==
    [SEND_MAIL |-> "SEND_MAIL",
     CREATE_EVENT |-> "CREATE_CALENDAR_EVENT",
     UPDATE_EVENT |-> "UPDATE_CALENDAR_EVENT",
     DELETE_EVENT |-> "DELETE_CALENDAR_EVENT",
     CREATE_FILE |-> "CREATE_FILE",
     UPDATE_FILE |-> "UPDATE_FILE",
     DELETE_FILE |-> "DELETE_FILE",
     INTERACTIVE_SIGNIN |-> "INTERACTIVE_SIGNIN"]

ActionPermissions ==
    [SEND_MAIL |-> {"Mail.Send"},
     CREATE_CALENDAR_EVENT |-> {"Calendars.ReadWrite"},
     UPDATE_CALENDAR_EVENT |-> {"Calendars.ReadWrite"},
     DELETE_CALENDAR_EVENT |-> {"Calendars.ReadWrite"},
     CREATE_FILE |-> {"Files.ReadWrite"},
     UPDATE_FILE |-> {"Files.ReadWrite"},
     DELETE_FILE |-> {"Files.ReadWrite"},
     CREATE_TEAMS_MESSAGE |-> {"ChannelMessage.Send"},
     CREATE_GROUP_CONTENT |-> {"Group.ReadWrite.All"},
     NOOP_VALIDATION |-> {},
     INTERACTIVE_SIGNIN |-> {"User.Read"}]

SupportedActionTypes == DOMAIN ActionPermissions

Definition(action, workload, permissions, enabled, destructive) ==
    [action |-> action, workload |-> workload, permissions |-> permissions,
     enabled |-> enabled, destructive |-> destructive]

BuiltIn(action, workload, permissions) ==
    Definition(action, workload, permissions, TRUE, FALSE)

BuiltInDefinitions ==
    [send_test_message |-> BuiltIn("SEND_MAIL", "mail", {"Mail.Send"}),
     create_test_event |->
        BuiltIn("CREATE_CALENDAR_EVENT", "calendar", {"Calendars.ReadWrite"}),
     create_test_file |-> BuiltIn("CREATE_FILE", "files", {"Files.ReadWrite"}),
     update_test_file |-> BuiltIn("UPDATE_FILE", "files", {"Files.ReadWrite"}),
     post_test_message |->
        BuiltIn("CREATE_TEAMS_MESSAGE", "teams", {"ChannelMessage.Send"}),
     post_test_content |->
        BuiltIn("CREATE_GROUP_CONTENT", "groups", {"Group.ReadWrite.All"}),
     noop_validation |->
        BuiltIn("NOOP_VALIDATION", "framework", {"User.Read"})]

-----------------------------------------------------------------------------
(* An entry names an id and a file.  The file is absent, holds no JSON, or *)
(* holds a record, whose id need not be the entry's; an entry without an   *)
(* id or a file has NoId and an absent one.                                *)
CONSTANT NoId

IsRecord(file) == file.is = "record"

(* Every check of _parse_scenario_payload that fails makes the same        *)
(* malformed entry.                                                        *)
Parses(record) ==
    /\ ~record.defective
    /\ record.action \in DOMAIN CatalogActionToFramework

(* A record that declares no permission gets those of its action. *)
ParseScenario(record) ==
    LET action == CatalogActionToFramework[record.action]
    IN  Definition(action, record.workload,
                   IF record.permissions = {}
                   THEN ActionPermissions[action]
                   ELSE record.permissions,
                   record.enabled, record.destructive)

NothingLoaded ==
    [loaded |-> [id \in {} |-> {}], malformed |-> 0, duplicates |-> 0]

Malformed(sofar) == [sofar EXCEPT !.malformed = @ + 1]
Duplicate(sofar) == [sofar EXCEPT !.duplicates = @ + 1]

(* Mutant: a later record of the same id replaces the first. *)
LoadRecordOver(sofar, record) ==
    [IF record.id \in DOMAIN sofar.loaded THEN Duplicate(sofar) ELSE sofar
     EXCEPT !.loaded =
        [id \in DOMAIN sofar.loaded \cup {record.id} |->
           IF id = record.id THEN ParseScenario(record)
           ELSE sofar.loaded[id]]]

LoadRecord(sofar, record) ==
    IF record.id \in DOMAIN sofar.loaded
    THEN Duplicate(sofar)
    ELSE [sofar EXCEPT !.loaded =
             [id \in DOMAIN sofar.loaded \cup {record.id} |->
                IF id = record.id THEN ParseScenario(record)
                ELSE sofar.loaded[id]]]

(* The id of the entry is checked before its file is read, the id of the   *)
(* record after.                                                           *)
LoadEntry(sofar, entry) ==
    IF entry.id \in DOMAIN sofar.loaded THEN Duplicate(sofar)
    ELSE IF ~IsRecord(entry.file) THEN Malformed(sofar)
    ELSE IF ~Parses(entry.file) THEN Malformed(sofar)
    ELSE LoadRecord(sofar, entry.file)

(* Each of the three totals is the set of the number catalog.json          *)
(* declares, or empty when it declares none: the total is checked against  *)
(* what was read, the other two only against the total, which must then be *)
(* there.                                                                  *)
TotalsAreConsistent(catalog, result) ==
    LET totals == catalog.totals IN
    /\ \A total \in totals.all :
          total = Cardinality(DOMAIN result.loaded)
                  + result.malformed + result.duplicates
    /\ \A enabled \in totals.enabled, disabled \in totals.disabled :
          totals.all = {enabled + disabled}

(* Once every entry is read: one actor whose UPN is resolved, or that      *)
(* carries a credential, fails the whole catalog.                          *)
LoadScenarioCatalog(catalog, result) ==
    IF TotalsAreConsistent(catalog, result) /\ ~catalog.badActor
    THEN {result}
    ELSE {}

(* Mutant: a record may redefine a built-in scenario. *)
BuildRegistryOverBuiltIns(result) ==
    {[id \in DOMAIN BuiltInDefinitions \cup DOMAIN result.loaded |->
        IF id \in DOMAIN result.loaded
        THEN result.loaded[id]
        ELSE BuiltInDefinitions[id]]}

(* A collision with a built-in id refuses the whole catalog. *)
BuildCatalogRegistry(result) ==
    LET collisions == DOMAIN result.loaded \cap DOMAIN BuiltInDefinitions
    IN  IF collisions = {}
        THEN {[id \in DOMAIN BuiltInDefinitions \cup DOMAIN result.loaded |->
                 IF id \in DOMAIN result.loaded
                 THEN result.loaded[id]
                 ELSE BuiltInDefinitions[id]]}
        ELSE {}

=============================================================================
